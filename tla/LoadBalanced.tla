--------------------------- MODULE LoadBalanced ---------------------------
(***************************************************************************)
(* scheduler/load_balanced.py, the default policy: one role's instance     *)
(* list with the counters the policy keeps in parallel to it.  Requests    *)
(* are scheduled and completed, instances join, become unavailable and     *)
(* leave.  The same code exists once for prefill and once for decode; kind *)
(* says which of the two a behaviour is about.                             *)
(***************************************************************************)
EXTENDS Collections

CONSTANTS Addr,       \* addresses of instances of this role
          Configured, \* the configured ones, in order
          ModelLen,   \* max_model_len each address reports, [Addr -> Nat]
          Req,        \* requests that may be in flight at once
          Lengths,    \* prompt lengths of requests, in tokens
          MaxTokens   \* values of max_tokens in requests

ASSUME LoadAssumption == /\ Configured \in Seq(Addr) /\ IsInjective(Configured)
                         /\ "none" \notin Addr /\ IsFiniteSet(Req)
                         /\ ModelLen \in [Addr -> Nat]
                         /\ Lengths \subseteq Nat /\ MaxTokens \subseteq Nat

VARIABLES kind,       \* "prefill" or "decode"
          instances,  \* the instance list shared with Proxy
          utils,      \* prefill_utils_counter or decode_kv_utils_counter
          bs,         \* prefill_bs_counter or decode_bs_counter
          modelLen,   \* prefill_model_len or decode_model_len
          available,  \* what registry.get_available_instances returns
          held        \* the reservation of each request in flight

tables == <<instances, utils, bs, modelLen>>
vars == <<kind, tables, available, held>>

NoHold == [addr |-> "none", len |-> 0]
Hold == [addr : Addr, len : Lengths]

LoadTypeOK == /\ kind \in {"prefill", "decode"}
              /\ instances \in Seq(Addr) /\ IsInjective(instances)
              /\ utils \in Seq(Nat)
              /\ bs \in Seq(Nat)
              /\ modelLen \in Seq(Nat)
              /\ available \subseteq ToSet(instances)
              /\ held \in [Req -> Hold \cup {NoHold}]

Zeros(n) == [i \in 1 .. n |-> 0]

\* __init__
Init == /\ kind \in {"prefill", "decode"}
        /\ instances = Configured
        /\ utils = Zeros(Len(Configured))
        /\ bs = Zeros(Len(Configured))
        /\ modelLen = [i \in 1 .. Len(Configured) |-> ModelLen[Configured[i]]]
        /\ available = ToSet(Configured)
        /\ held = [r \in Req |-> NoHold]
-----------------------------------------------------------------------------
\* The indices a request of this size may go to.
Candidates(len, maxTokens) ==
    {i \in DOMAIN modelLen : /\ len + maxTokens <= modelLen[i]
                             /\ instances[i] \in available}

\* _schedule_prefill: the first candidate with the fewest tokens.
PrefillChoice(C) ==
    Min({i \in C : \A j \in C : utils[i] <= utils[j]})

\* Faulty: decode instances are compared by tokens alone.
DecodeByTokens(C) == Min({i \in C : \A j \in C : utils[i] <= utils[j]})

\* _schedule_decode: the first idle candidate; if there is none, the first
\* with the fewest tokens among those with the smallest batch.
DecodeChoice(C) ==
    LET B == {i \in C : \A j \in C : bs[i] <= bs[j]}
    IN  IF \E i \in B : bs[i] = 0 THEN Min(B)
        ELSE Min({i \in B : \A j \in B : utils[i] <= utils[j]})

Choice(C) == IF kind = "prefill" THEN PrefillChoice(C) ELSE DecodeChoice(C)

\* handle_completion asks for one output token of a prefill instance.
TokensAsked(maxTokens) == IF kind = "prefill" THEN 1 ELSE maxTokens

\* schedule finds a candidate and counts the request there.
Schedule(r, len, maxTokens) ==
    LET C == Candidates(len, TokensAsked(maxTokens))
    IN  /\ held[r] = NoHold
        /\ C # {}
        /\ LET i == Choice(C)
           IN  /\ bs' = [bs EXCEPT ![i] = @ + 1]
               /\ utils' = [utils EXCEPT ![i] = @ + len]
               /\ held' = [held EXCEPT ![r] = [addr |-> instances[i], len |-> len]]
        /\ UNCHANGED <<kind, instances, modelLen, available>>

\* Faulty: the completion also subtracts the token that was generated.
CompleteWithOutput(r) ==
    LET i == CHOOSE j \in DOMAIN instances : instances[j] = held[r].addr
    IN  /\ held[r] # NoHold
        /\ held' = [held EXCEPT ![r] = NoHold]
        /\ bs' = [bs EXCEPT ![i] = @ - 1]
        /\ utils' = [utils EXCEPT ![i] = @ - (held[r].len + 1)]
        /\ UNCHANGED <<kind, instances, modelLen, available>>

\* schedule_completion for the reservation of r.
Complete(r) ==
    LET i    == CHOOSE j \in DOMAIN instances : instances[j] = held[r].addr
        left == [bs EXCEPT ![i] = @ - 1]
    IN  /\ held[r] # NoHold
        /\ held' = [held EXCEPT ![r] = NoHold]
        /\ IF bs[i] = 0
             THEN UNCHANGED <<bs, utils>>
             ELSE /\ bs' = left
                  /\ utils' = IF \A j \in DOMAIN left : left[j] = 0
                                THEN Zeros(Len(instances))
                                ELSE [utils EXCEPT ![i] = @ - held[r].len]
        /\ UNCHANGED <<kind, instances, modelLen, available>>
-----------------------------------------------------------------------------
\* add_instance: add_instance_state and the append of the address.
AddInstance(a) ==
    /\ a \notin ToSet(instances)
    /\ instances' = Append(instances, a)
    /\ utils' = Append(utils, 0)
    /\ bs' = Append(bs, 0)
    /\ modelLen' = Append(modelLen, ModelLen[a])
    /\ available' = available \cup {a}
    /\ UNCHANGED <<kind, held>>

\* Faulty: the counters lose their last entry, the list another one.
RemoveLastCounters(a) ==
    LET i == CHOOSE j \in DOMAIN instances : instances[j] = a
    IN  /\ a \in ToSet(instances)
        /\ \A r \in Req : held[r].addr # a
        /\ instances' = RemoveAt(instances, i)
        /\ utils' = Front(utils)
        /\ bs' = Front(bs)
        /\ modelLen' = Front(modelLen)
        /\ available' = available \ {a}
        /\ UNCHANGED <<kind, held>>

\* The end of drain_and_remove_instance: no request is active on a, the
\* entries at its index leave the counters, the address leaves the list.
RemoveInstance(a) ==
    LET i == CHOOSE j \in DOMAIN instances : instances[j] = a
    IN  /\ a \in ToSet(instances)
        /\ \A r \in Req : held[r].addr # a
        /\ instances' = RemoveAt(instances, i)
        /\ utils' = RemoveAt(utils, i)
        /\ bs' = RemoveAt(bs, i)
        /\ modelLen' = RemoveAt(modelLen, i)
        /\ available' = available \ {a}
        /\ UNCHANGED <<kind, held>>

\* The registry changes its mind about a: a health result, a breaker that
\* opens or closes, the start of a drain.
AvailabilityChanges(a) ==
    /\ a \in ToSet(instances)
    /\ available' = IF a \in available THEN available \ {a} ELSE available \cup {a}
    /\ UNCHANGED <<kind, tables, held>>

Next ==
    \/ \E r \in Req, len \in Lengths, m \in MaxTokens : Schedule(r, len, m)
    \/ \E r \in Req : Complete(r)
    \/ \E a \in Addr : AddInstance(a) \/ RemoveInstance(a) \/ AvailabilityChanges(a)

Spec == Init /\ [][Next]_vars
-----------------------------------------------------------------------------
\* The load an instance really has: the requests in flight on it and the
\* sum of their prompt lengths.
On(a) == {r \in Req : held[r].addr = a}
Batch(a) == Cardinality(On(a))
Length == [r \in Req |-> held[r].len]
Tokens(a) == Total(Length, On(a))

\* The counters stay aligned with the list through additions and removals,
\* and each is what the requests in flight add up to: the completion that
\* resets every counter loses nothing, and none is subtracted twice.
CountersExact ==
    /\ Len(utils) = Len(instances)
    /\ Len(bs) = Len(instances)
    /\ \A i \in DOMAIN instances : /\ modelLen[i] = ModelLen[instances[i]]
                                   /\ bs[i] = Batch(instances[i])
                                   /\ utils[i] = Tokens(instances[i])

\* a is at most as loaded as b by the measure of its role: prompt tokens for a
\* prefill instance, requests and then prompt tokens for a decode instance.
\* docs/scheduling.md:51-53 has "the fewest active requests" for both.
AtMostAsLoaded(a, b) ==
    IF kind = "prefill" THEN Tokens(a) <= Tokens(b)
    ELSE Batch(a) < Batch(b) \/ (Batch(a) = Batch(b) /\ Tokens(a) <= Tokens(b))

\* What r was given is available, admits its prompt and as many tokens as it asked
\* for, and carries no more real load than any other such instance.
GivenLeastLoaded(r, need) ==
    LET a == held'[r].addr
        Admits(b) == b \in available /\ need <= ModelLen[b]
    IN  /\ Admits(a)
        /\ \A b \in Addr : Admits(b) => AtMostAsLoaded(a, b)

\* "Select the least-loaded instance, respecting model-length limits."
\* (load_balanced.py:15): a request is given an instance of the least real load
\* among all available instances that admit it.  The choice is made by counters;
\* the load is that of the requests in flight.
LeastLoaded ==
    [][\A r \in Req, len \in Lengths, m \in MaxTokens :
          Schedule(r, len, m) => GivenLeastLoaded(r, len + TokensAsked(m))]_vars
=============================================================================
