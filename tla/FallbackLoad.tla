---------------------------- MODULE FallbackLoad ----------------------------
(***************************************************************************)
(* The load-balanced policy while the only served model is in              *)
(* _round_robin_models, because its tokenizer could not be downloaded, and *)
(* requests do not name a model.  Proxy.schedule looks the empty name up   *)
(* and uses the load-balanced policy; Proxy.schedule_completion looks the  *)
(* model of the instance up and leaves that policy out.  Without a         *)
(* tokenizer every prompt counts 0 tokens.                                 *)
(***************************************************************************)
EXTENDS LoadBalanced

\* schedule_completion returns before it reaches the policy.
CompleteSkipped(r) == /\ held[r] # NoHold
                      /\ held' = [held EXCEPT ![r] = NoHold]
                      /\ UNCHANGED <<kind, tables, available>>

FallbackNext ==
    \/ \E r \in Req, m \in MaxTokens : Schedule(r, 0, m)
    \/ \E r \in Req : CompleteSkipped(r)
    \/ \E a \in Addr : AddInstance(a) \/ RemoveInstance(a) \/ AvailabilityChanges(a)

FallbackSpec == Init /\ [][FallbackNext]_vars

=============================================================================
