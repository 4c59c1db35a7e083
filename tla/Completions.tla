---------------------------- MODULE Completions ----------------------------
(***************************************************************************)
(* handle_completion and _handle_aggregated_completion of                  *)
(* routes/completions.py with the generators that stream the answer: what  *)
(* a completion request does to the registry and to the stage gauges from  *)
(* its scheduling to the last byte of its response.  An action is the code *)
(* between two awaits.  Which available instance a scheduling policy picks *)
(* is left open, and so is whether it finds one.                           *)
(***************************************************************************)
EXTENDS InstanceRegistry, Integers

CONSTANTS Req,      \* completion requests that may be in flight at once
          NoAddr,   \* Python's None where an address is expected
          MaxDrift  \* bound on the drift of the request gauge

ASSUME RequestAssumption == IsFiniteSet(Req) /\ NoAddr \notin Addr

VARIABLES phase,         \* where each request is in its handler
          pre, dec,      \* the addresses in its _RequestReservation
          preReleased,   \* _prefill_released
          decReleased,   \* _decode_released
          agg,           \* the instance of an aggregated request
          requestGauge,  \* proxy_active_requests
          prefillGauge,  \* proxy_prefill_active_requests, over all labels
          decodeGauge,   \* proxy_decode_active_requests, over all labels
          robbed,        \* ghost: instances one of whose counts was given back
                         \* twice, while requests that lost theirs are in flight
          drift          \* ghost: by how much requestGauge was lowered too often

reservationVars == <<pre, dec, preReleased, decReleased, agg, robbed>>
gaugeVars == <<requestGauge, prefillGauge, decodeGauge, drift>>
requestVars == <<phase, reservationVars, gaugeVars>>

\* idle     not in flight (its last answer, if any, was not a failure)
\* failed   not in flight, and the last one ended with a recorded failure
\* prefill  awaiting the prefill instance
\* handoff  prefill answered; checking it, or awaiting the ZMQ notification
\* body     response returned, prefill reservation not yet released
\* decode   streaming from the decode instance, prefill released
\* agg      awaiting or streaming from an aggregated instance
Phase == {"idle", "failed", "prefill", "handoff", "body", "decode", "agg"}
AtRest == {"idle", "failed"}

CompletionsTypeOK == /\ phase \in [Req -> Phase]
                     /\ pre \in [Req -> Addr \cup {NoAddr}]
                     /\ dec \in [Req -> Addr \cup {NoAddr}]
                     /\ preReleased \in [Req -> BOOLEAN]
                     /\ decReleased \in [Req -> BOOLEAN]
                     /\ agg \in [Req -> Addr \cup {NoAddr}]
                     /\ requestGauge \in Int
                     /\ prefillGauge \in Int
                     /\ decodeGauge \in Int
                     /\ robbed \subseteq Addr
                     /\ drift \in Int

CompletionsInit == /\ phase = [r \in Req |-> "idle"]
                   /\ pre = [r \in Req |-> NoAddr]
                   /\ dec = [r \in Req |-> NoAddr]
                   /\ preReleased = [r \in Req |-> TRUE]
                   /\ decReleased = [r \in Req |-> TRUE]
                   /\ agg = [r \in Req |-> NoAddr]
                   /\ requestGauge = 0
                   /\ prefillGauge = 0
                   /\ decodeGauge = 0
                   /\ robbed = {}
                   /\ drift = 0

\* Request r holds a reservation on a, and the requests that do.
Holds(r, a) == \/ ~preReleased[r] /\ pre[r] = a
               \/ ~decReleased[r] /\ dec[r] = a
               \/ agg[r] = a

Holders(a) == {r \in Req : Holds(r, a)}

-----------------------------------------------------------------------------
(* _RequestReservation and what a release does to the registry *)

\* Faulty: the released flag is not looked at.
PrefillAgain(r) == {pre[r]}

\* exception_handler with only the prefill instance: what it still releases.
UnreleasedPrefill(r) == IF preReleased[r] THEN {} ELSE {pre[r]}

\* The addresses that release_all releases: those not released before.
Unreleased(r) == UnreleasedPrefill(r) \cup IF decReleased[r] THEN {} ELSE {dec[r]}

\* Proxy.exception_handler: the completion is accounted for and then, on
\* every path, recorded as a success; F are the failures recorded after it.
\* A P/D request whose instance is gone takes no further step in the model:
\* what the KeyError of its release leads to is not followed.
Release(A, F, trips) == /\ A \subseteq Registered
                        /\ active' = Decremented(A)
                        /\ breaker' = Recorded(A, F, trips)
                        /\ UNCHANGED <<role, status>>

\* _record_failure(prefill, decode): a KeyError for a prefill instance that
\* is gone keeps the failure of the decode instance from being recorded.
FailuresOf(r) ==
    IF pre[r] \notin Registered THEN {} ELSE {pre[r], dec[r]} \cap Registered

\* The handler of r is over and its local variables are gone; it called
\* track_request_end k times.  Where k is 2 it gave its reservation back twice,
\* and if others hold the same instance, one of them has lost its count.
Ends(r, ph, k) ==
    /\ phase' = [phase EXCEPT ![r] = ph]
    /\ pre' = [pre EXCEPT ![r] = NoAddr]
    /\ dec' = [dec EXCEPT ![r] = NoAddr]
    /\ preReleased' = [preReleased EXCEPT ![r] = TRUE]
    /\ decReleased' = [decReleased EXCEPT ![r] = TRUE]
    /\ agg' = [agg EXCEPT ![r] = NoAddr]
    /\ requestGauge' = requestGauge - k
    /\ drift' = drift + (k - 1)
    /\ robbed' = {a \in Addr : /\ a \in robbed \/ (k = 2 /\ a = agg[r])
                              /\ Holders(a) \ {r} # {}}
-----------------------------------------------------------------------------
(* P/D requests *)

\* Both reservations are made, with no await between them, and the prefill
\* request is sent.
Schedule(r, p, d) ==
    /\ phase[r] \in AtRest
    /\ p \in Available("prefill")
    /\ d \in Available("decode")
    /\ phase' = [phase EXCEPT ![r] = "prefill"]
    /\ pre' = [pre EXCEPT ![r] = p]
    /\ dec' = [dec EXCEPT ![r] = d]
    /\ preReleased' = [preReleased EXCEPT ![r] = FALSE]
    /\ decReleased' = [decReleased EXCEPT ![r] = FALSE]
    /\ active' = Incremented({p, d})
    /\ requestGauge' = requestGauge + 1
    /\ prefillGauge' = prefillGauge + 1
    /\ UNCHANGED <<role, status, breaker, agg, decodeGauge, robbed, drift>>

\* The request is turned away after its scheduling: one of the two instances
\* or both could not be scheduled (404, 503), or ZMQ mode has no listener or
\* no receiver for the decode instance (503, 500).  The reservations made are
\* released at once, which also records successes.
ScheduleUndone(r, p, d) ==
    /\ phase[r] \in AtRest
    /\ p \in Available("prefill") \cup {NoAddr}
    /\ d \in Available("decode") \cup {NoAddr}
    /\ breaker' = Recorded({p, d}, {}, {})
    /\ UNCHANGED <<role, status, active, requestVars>>

\* The prefill instance answered 2xx or 4xx.
PrefillDone(r) ==
    /\ phase[r] = "prefill"
    /\ phase' = [phase EXCEPT ![r] = "handoff"]
    /\ prefillGauge' = prefillGauge - 1
    /\ decodeGauge' = decodeGauge + 1
    /\ UNCHANGED <<registryVars, reservationVars, requestGauge, drift>>

\* forward_request to the prefill instance raised HTTPException: everything
\* is released, then both instances are charged with the failure.
PrefillFails(r, trips) ==
    /\ phase[r] = "prefill"
    /\ Release(Unreleased(r), FailuresOf(r), trips)
    /\ Ends(r, "failed", 1)
    /\ prefillGauge' = prefillGauge - 1
    /\ UNCHANGED decodeGauge

\* The prefill output is usable and, with ZMQ, the decode side is notified.
HandoffDone(r) ==
    /\ phase[r] = "handoff"
    /\ phase' = [phase EXCEPT ![r] = "body"]
    /\ UNCHANGED <<registryVars, reservationVars, gaugeVars>>

\* Faulty: the decode gauge is forgotten on this path.
HandoffFailsUncounted(r) ==
    /\ phase[r] = "handoff"
    /\ Release(Unreleased(r), {}, {})
    /\ Ends(r, "idle", 1)
    /\ UNCHANGED <<prefillGauge, decodeGauge>>

\* Unusable prefill output (502), notification timeout (504), undecodable
\* bytes (500): the handlers at the end of handle_completion.
HandoffFails(r) ==
    /\ phase[r] = "handoff"
    /\ Release(Unreleased(r), {}, {})
    /\ Ends(r, "idle", 1)
    /\ decodeGauge' = decodeGauge - 1
    /\ UNCHANGED prefillGauge

\* P_first_token_generator and D_first_token_generator are past the prefill
\* chunk: the prefill reservation is released, the decode request is sent.
StartDecode(r) ==
    /\ phase[r] = "body"
    /\ phase' = [phase EXCEPT ![r] = "decode"]
    /\ preReleased' = [preReleased EXCEPT ![r] = TRUE]
    /\ Release(UnreleasedPrefill(r), {}, {})
    /\ UNCHANGED <<pre, dec, decReleased, agg, robbed, gaugeVars>>

\* The body ends: its last chunk was sent, the client disconnected, or a
\* chunk could not be converted.  The generators that mix a ZMQ prefill token
\* in release both reservations here, straight from "body".
BodyEnds(r) ==
    /\ phase[r] \in {"body", "decode"}
    /\ Release(Unreleased(r), {}, {})
    /\ Ends(r, "idle", 1)
    /\ decodeGauge' = decodeGauge - 1
    /\ UNCHANGED prefillGauge

\* forward_request to the decode instance raised HTTPException: the inner
\* generator and wrapped_generator release, then the failure is recorded.
BodyFails(r, trips) ==
    /\ phase[r] \in {"body", "decode"}
    /\ Release(Unreleased(r), FailuresOf(r), trips)
    /\ Ends(r, "failed", 1)
    /\ decodeGauge' = decodeGauge - 1
    /\ UNCHANGED prefillGauge
-----------------------------------------------------------------------------
(* Aggregated requests *)

\* schedule_aggregated found an instance and the request is sent to it.
ScheduleAggregated(r, a) ==
    /\ phase[r] \in AtRest
    /\ a \in Available("aggregated")
    /\ phase' = [phase EXCEPT ![r] = "agg"]
    /\ agg' = [agg EXCEPT ![r] = a]
    /\ active' = Incremented({a})
    /\ requestGauge' = requestGauge + 1
    /\ UNCHANGED <<role, status, breaker, pre, dec, preReleased, decReleased,
                   prefillGauge, decodeGauge, robbed, drift>>

\* The answer is complete; a client that disconnects inside an await ends the
\* request without recording a success.
AggregatedEnds(r, ok) ==
    /\ phase[r] = "agg"
    /\ agg[r] \in Registered
    /\ active' = Decremented({agg[r]})
    /\ breaker' = Recorded(IF ok THEN {agg[r]} ELSE {}, {}, {})
    /\ Ends(r, "idle", 1)
    /\ UNCHANGED <<role, status, prefillGauge, decodeGauge>>

\* Faulty: the error path does not give the reservation back.
AggregatedFailsHolding(r, trips) ==
    /\ phase[r] = "agg"
    /\ agg[r] \in Registered
    /\ breaker' = Recorded({}, {agg[r]}, trips)
    /\ Ends(r, "failed", 1)
    /\ UNCHANGED <<role, status, active, prefillGauge, decodeGauge>>

\* The instance failed, or answered with an error object.
AggregatedFails(r, trips) ==
    /\ phase[r] = "agg"
    /\ agg[r] \in Registered
    /\ active' = Decremented({agg[r]})
    /\ breaker' = Recorded({}, {agg[r]}, trips)
    /\ Ends(r, "failed", 1)
    /\ UNCHANGED <<role, status, prefillGauge, decodeGauge>>

\* The answer, complete (ok) or an error object, was accounted for, and then
\* JSONResponse cannot render it: JSON that json.loads accepts may hold NaN,
\* Infinity or half a surrogate pair.  The error lands in the handler of the
\* same try, which accounts for the request a second time, as a failure.
AggregatedUnrenderable(r, ok, trips) ==
    /\ phase[r] = "agg"
    /\ agg[r] \in Registered
    /\ drift < MaxDrift
    /\ active' = [active EXCEPT ![agg[r]] = IF @ > 1 THEN @ - 2 ELSE 0]
    /\ breaker' = Recorded(IF ok THEN {agg[r]} ELSE {}, {agg[r]}, trips)
    /\ Ends(r, "failed", 2)
    /\ UNCHANGED <<role, status, prefillGauge, decodeGauge>>

\* The entry of the instance is gone.  Accounting for the request raises
\* KeyError, which handle_completion catches; a streamed body dies of it before
\* it calls track_request_end.
AggregatedGone(r, streamed) ==
    /\ phase[r] = "agg"
    /\ agg[r] \notin Registered
    /\ streamed => drift > -MaxDrift
    /\ Ends(r, "idle", IF streamed THEN 0 ELSE 1)
    /\ UNCHANGED <<registryVars, prefillGauge, decodeGauge>>
-----------------------------------------------------------------------------
\* Requests in one of the phases of P.
InPhase(P) == {r \in Req : phase[r] \in P}
=============================================================================
