-------------------------- MODULE ZmqNotifications --------------------------
(***************************************************************************)
(* zmq_notifications.py and the part of handle_completion that uses it:    *)
(* the listener that tells a request when LMCache has moved its KV cache   *)
(* to the decode instance.  The prefill HTTP answer and the notifications  *)
(* of a request arrive independently of each other; a notification may     *)
(* come before the wait, after it, or never.  Request ids are fresh, so a  *)
(* request goes through its stages once.                                   *)
(***************************************************************************)
EXTENDS Naturals

CONSTANTS Req,       \* request ids
          Expected   \* notifications a request needs, len(receiver.init_ports)

ASSUME ZmqAssumption == Expected \in Nat \ {0}

VARIABLES stage,     \* where each request is
          active,    \* _active
          counts,    \* _counts, a dict: its domain is the ids it has
          moved,     \* environment: ports whose KV cache transfer is done
          wire       \* notifications sent and not yet received

tables == <<active, counts>>
vars == <<stage, tables, moved, wire>>

\* new         not registered yet
\* prefill     registered, awaiting the prefill instance
\* waiting     awaiting its notifications
\* decoding    forwarded to the decode instance
\* failed      answered with an error
\* garbled     answered with an error because the prefill bytes are not UTF-8
Stage == {"new", "prefill", "waiting", "decoding", "failed", "garbled"}

ZmqTypeOK == /\ stage \in [Req -> Stage]
             /\ active \subseteq Req
             /\ DOMAIN counts \subseteq Req
             /\ \A r \in DOMAIN counts : counts[r] \in 0 .. Expected
             /\ moved \in [Req -> 0 .. Expected]
             /\ wire \in [Req -> 0 .. Expected]

Init == /\ stage = [r \in Req |-> "new"]
        /\ active = {}
        /\ counts = [r \in {} |-> 0]
        /\ moved = [r \in Req |-> 0]
        /\ wire = [r \in Req |-> 0]

Goes(r, s) == stage' = [stage EXCEPT ![r] = s]

\* Faulty: the count stays behind.
DiscardId(r) == active' = active \ {r} /\ UNCHANGED counts

\* discard
Discard(r) == /\ active' = active \ {r}
              /\ counts' = [q \in DOMAIN counts \ {r} |-> counts[q]]

\* register, before the prefill request is sent.
Register(r) ==
    /\ stage[r] = "new"
    /\ Goes(r, "prefill")
    /\ active' = active \cup {r}
    /\ counts' = [q \in DOMAIN counts \cup {r} |-> IF q = r THEN 0 ELSE counts[q]]
    /\ UNCHANGED <<moved, wire>>

\* Faulty: the id is not given up when prefill fails.
PrefillFailsKeepingId(r) ==
    /\ stage[r] = "prefill"
    /\ Goes(r, "failed")
    /\ UNCHANGED <<tables, moved, wire>>

\* The prefill request fails, or its answer has no first token.
PrefillFails(r) ==
    /\ stage[r] = "prefill"
    /\ Goes(r, "failed")
    /\ Discard(r)
    /\ UNCHANGED <<moved, wire>>

\* The prefill answer cannot be decoded: the handler at the end of
\* handle_completion answers 500 and knows nothing of the id.
PrefillGarbled(r) ==
    /\ stage[r] = "prefill"
    /\ Goes(r, "garbled")
    /\ UNCHANGED <<tables, moved, wire>>

\* The condition a wait is for.
Enough(r) == r \in DOMAIN counts /\ counts[r] >= Expected

\* The prefill answer is there: wait, which looks at the count first.
StartWait(r) ==
    /\ stage[r] = "prefill"
    /\ \/ Enough(r) /\ Goes(r, "decoding") /\ Discard(r)
       \/ ~Enough(r) /\ Goes(r, "waiting") /\ UNCHANGED tables
    /\ UNCHANGED <<moved, wire>>

\* Faulty: any notification of the request ends its wait.
WaitDoneAtFirst(r) ==
    /\ stage[r] = "waiting"
    /\ r \in DOMAIN counts /\ counts[r] > 0
    /\ Goes(r, "decoding")
    /\ Discard(r)
    /\ UNCHANGED <<moved, wire>>

\* The waiter wakes up and has enough; it gives up its id and goes on.
WaitDone(r) ==
    /\ stage[r] = "waiting"
    /\ Enough(r)
    /\ Goes(r, "decoding")
    /\ Discard(r)
    /\ UNCHANGED <<moved, wire>>

\* Faulty: no timeout while some notification has come.
WaitTimeoutIfNone(r) ==
    /\ stage[r] = "waiting"
    /\ counts[r] = 0
    /\ Goes(r, "failed")
    /\ Discard(r)
    /\ UNCHANGED <<moved, wire>>

\* The timeout cancels the wait, perhaps just after the last notification.
WaitTimeout(r) ==
    /\ stage[r] = "waiting"
    /\ Goes(r, "failed")
    /\ Discard(r)
    /\ UNCHANGED <<moved, wire>>

\* LMCache finishes one transfer of r and sends its ProxyNotif.
Transfer(r) ==
    /\ stage[r] # "new"
    /\ moved[r] < Expected
    /\ moved' = [moved EXCEPT ![r] = @ + 1]
    /\ wire' = [wire EXCEPT ![r] = @ + 1]
    /\ UNCHANGED <<stage, tables>>

\* A notification is lost with its sender.
Lose(r) == /\ wire[r] > 0
           /\ wire' = [wire EXCEPT ![r] = @ - 1]
           /\ UNCHANGED <<stage, tables, moved>>

\* Faulty: a notification counts for two.
ReceiveTwice(r) ==
    /\ wire[r] > 0
    /\ wire' = [wire EXCEPT ![r] = @ - 1]
    /\ counts' = IF r \in active THEN [counts EXCEPT ![r] = @ + 2] ELSE counts
    /\ UNCHANGED <<stage, active, moved>>

\* _receive: a notification for an id that is not active is ignored.
Receive(r) ==
    /\ wire[r] > 0
    /\ wire' = [wire EXCEPT ![r] = @ - 1]
    /\ counts' = IF r \in active THEN [counts EXCEPT ![r] = @ + 1] ELSE counts
    /\ UNCHANGED <<stage, active, moved>>

PrefillAnswered(r) == PrefillFails(r) \/ PrefillGarbled(r) \/ StartWait(r)

WaitEnds(r) == WaitDone(r) \/ WaitTimeout(r)

Next == \E r \in Req : \/ Register(r) \/ PrefillAnswered(r) \/ WaitEnds(r)
                       \/ Transfer(r) \/ Lose(r) \/ Receive(r)

\* The wait has a timeout.  The prefill call has none.
Spec == Init /\ [][Next]_vars /\ \A r \in Req : WF_vars(WaitEnds(r))
-----------------------------------------------------------------------------
\* docs/configuration.md, ZMQ D-first: a request is forwarded to its decoder
\* only after the write for each of the decoder's ports is done, however the
\* prefill answer and the notifications of all requests interleave.
ForwardedAfterTransfer ==
    \A r \in Req : stage[r] = "decoding" => moved[r] = Expected

\* An id that _receive finds active always has a count to add to, so no
\* message order ends the receive task with a KeyError.
TablesAgree == DOMAIN counts = active

\* No id stays registered after its request, except that of a request whose
\* prefill answer was not UTF-8: that one stays for ever.
IdsGivenUp ==
    \A r \in active : stage[r] \in {"prefill", "waiting", "garbled"}

\* Every request whose prefill is done is forwarded or answered, also when
\* its notifications are lost.
RequestsSettle ==
    \A r \in Req : stage[r] = "waiting" ~> stage[r] \in {"decoding", "failed"}
=============================================================================
