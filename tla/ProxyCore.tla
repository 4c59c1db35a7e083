----------------------------- MODULE ProxyCore -----------------------------
(***************************************************************************)
(* The proxy's event loop: completion requests, admin requests and the     *)
(* health monitor interleave over the shared registry.                     *)
(***************************************************************************)
EXTENDS Completions, InstanceAdmin

CONSTANTS InitRole,    \* the configured instances, [Addr -> Role \cup {"none"}]
          AdminInput,  \* the <<address, role>> pairs admin requests name
          CanTrip      \* bound: the instances that may fail often enough to
                       \* trip their breaker

ASSUME CoreAssumption == /\ InitRole \in [Addr -> Role \cup {"none"}]
                         /\ AdminInput \subseteq Addr \X Role
                         /\ CanTrip \subseteq Addr

vars == <<registryVars, monitorVars, adminVars, requestVars>>

TypeOK == RegistryTypeOK /\ MonitorTypeOK /\ CompletionsTypeOK /\ AdminTypeOK

\* ProxyServer.__init__: without a monitor every instance counts as healthy.
Init == /\ role = InitRole
        /\ status = [a \in Addr |-> IF MonitorEnabled \/ InitRole[a] = "none"
                                      THEN "unknown" ELSE "healthy"]
        /\ active = [a \in Addr |-> 0]
        /\ breaker = [a \in Addr |-> ClosedBreaker]
        /\ nodes = IF MonitorEnabled THEN Registered ELSE {}
        /\ probing = {}
        /\ CompletionsInit
        /\ AdminInit

\* What a request in flight does next.
RequestProgress(r) ==
    \/ PrefillDone(r) \/ HandoffDone(r) \/ HandoffFails(r)
    \/ StartDecode(r) \/ BodyEnds(r)
    \/ \E b \in BOOLEAN : AggregatedEnds(r, b) \/ AggregatedGone(r, b)
    \/ \E trips \in SUBSET ({pre[r], dec[r], agg[r]} \cap CanTrip) :
          \/ PrefillFails(r, trips) \/ BodyFails(r, trips) \/ AggregatedFails(r, trips)
          \/ \E ok \in BOOLEAN : AggregatedUnrenderable(r, ok, trips)

RequestStep(r) ==
    \/ \E p, d \in Addr : Schedule(r, p, d)
    \/ \E p, d \in Addr \cup {NoAddr} : ScheduleUndone(r, p, d)
    \/ \E a \in Addr : ScheduleAggregated(r, a)
    \/ RequestProgress(r)

AdminStep(t) ==
    \/ \E i \in AdminInput :
          RequestAdd(t, i[1], i[2]) \/ RequestRemove(t, i[1], i[2])
    \/ Validated(t) \/ AddLocked(t)
    \/ RemoveRefused(t) \/ RemoveIdle(t)
    \/ StartDrain(t) \/ DrainDone(t) \/ DrainTimeout(t)

MonitorStep ==
    \/ ProbeAll
    \/ \E a \in Addr, s \in {"healthy", "unhealthy"} : ProbeResult(a, s)

Next ==
    \/ \E r \in Req : RequestStep(r) /\ UNCHANGED <<monitorVars, adminVars>>
    \/ \E t \in Admin : AdminStep(t) /\ UNCHANGED requestVars
    \/ MonitorStep /\ UNCHANGED <<adminVars, requestVars>>
    \/ \E a \in Addr :
          BreakerTimeout(a) /\ UNCHANGED <<monitorVars, adminVars, requestVars>>

Spec == Init /\ [][Next]_vars
-----------------------------------------------------------------------------
(* Safety *)

\* The count drain_and_remove_instance waits on is the truth: for every
\* instance active_request_count is the number of requests that hold a
\* reservation on it, whichever path each of them took to its end.  The
\* exception: an aggregated answer that cannot be rendered (completions.py:1125)
\* is given back twice, and takes the count of another request on the same
\* instance if there is one.  Until the requests of such an instance are over,
\* its count may be too low; it is never too high.
ActiveCountExact ==
    \A a \in Addr : /\ active[a] <= Cardinality(Holders(a))
                    /\ a \notin robbed => active[a] = Cardinality(Holders(a))

\* An instance is never removed, or registered again under another role,
\* while a request still holds a reservation on it: a release always finds
\* the entry it was made on.  The exception is that of ActiveCountExact: a
\* drain waits only for the requests the count has not lost, contrary to
\* docs/api_reference.md ("waits for its active request count to reach zero
\* before removing it"), and removes an instance that still serves the others.
HeldAreRegistered ==
    \A r \in Req :
        /\ ~preReleased[r] => pre[r] \in robbed \/ role[pre[r]] = "prefill"
        /\ ~decReleased[r] => dec[r] \in robbed \/ role[dec[r]] = "decode"
        /\ agg[r] # NoAddr => agg[r] \in robbed \/ role[agg[r]] = "aggregated"

\* docs/api_reference.md, /instances/remove: from the moment an instance is
\* draining it gets no new request, and neither a health result, nor a
\* timeout of the removal, nor another admin request puts it back in rotation.
DrainingStaysOut ==
    \A a \in Addr : status[a] = "draining" =>
        /\ Holders(a)' \subseteq Holders(a)
        /\ status'[a] = "draining" \/ role'[a] = "none"

DrainingIsFinal == [][DrainingStaysOut]_vars

\* The gauges of the metrics endpoint count the requests in each stage: every
\* way out of a handler undoes exactly the increments made on the way in.  Two
\* ways do not, and leave the request gauge wrong for good: an answer that
\* cannot be rendered lowers it twice, and a streamed body whose instance is
\* gone does not lower it.  Nothing else moves it away from the truth.
GaugesBalanced ==
    /\ requestGauge = Cardinality(InPhase(Phase \ AtRest)) - drift
    /\ prefillGauge = Cardinality(InPhase({"prefill"}))
    /\ decodeGauge = Cardinality(InPhase({"handoff", "body", "decode"}))

\* Removal and addition keep the monitor's list and the registry the same.
MonitorCoversRegistry == MonitorEnabled => nodes = Registered
-----------------------------------------------------------------------------
(* The inductive invariant behind the safety theorems *)

\* What a request may hold in each phase of its handler.
RequestShape ==
    \A r \in Req :
        /\ preReleased[r] <=> phase[r] \notin {"prefill", "handoff", "body"}
        /\ decReleased[r] <=> phase[r] \notin {"prefill", "handoff", "body", "decode"}
        /\ agg[r] = NoAddr <=> phase[r] # "agg"
        /\ ~preReleased[r] => pre[r] \in Addr
        /\ ~decReleased[r] => dec[r] \in Addr /\ pre[r] # dec[r]

\* An admin request in flight names an address and a role.
TaskTargets ==
    \A t \in Admin : task[t].op # "idle" =>
        /\ task[t].addr \in Addr
        /\ task[t].role \in Role

\* Nothing of a removed instance's drain or count is left for its successor.
UnregisteredNotDraining ==
    \A a \in Addr : role[a] = "none" => status[a] # "draining"

UnregisteredIdle ==
    \A a \in Addr : role[a] = "none" => active[a] = 0

IInv == /\ TypeOK
        /\ RequestShape
        /\ TaskTargets
        /\ UnregisteredNotDraining
        /\ UnregisteredIdle
        /\ HeldAreRegistered
        /\ ActiveCountExact
-----------------------------------------------------------------------------
(* Liveness *)

LockGranted(t) == AddLocked(t) \/ RemoveRefused(t) \/ RemoveIdle(t) \/ StartDrain(t)

\* The drain loop wakes every 50 ms and has a deadline; a waiter on the lock
\* is strongly fair because asyncio.Lock is first come, first served; the
\* monitor loop and time go on.  Nothing is assumed of the backends:
\* AIOHTTP_TIMEOUT is no timeout at all, so a call to one may never return.
Fairness ==
    /\ \A t \in Admin :
          /\ SF_vars(LockGranted(t) /\ UNCHANGED requestVars)
          /\ WF_vars((DrainDone(t) \/ DrainTimeout(t)) /\ UNCHANGED requestVars)
    /\ WF_vars(MonitorStep /\ UNCHANGED <<adminVars, requestVars>>)
    /\ \A a \in Addr : WF_vars(BreakerTimeout(a)
                          /\ UNCHANGED <<monitorVars, adminVars, requestVars>>)

FairSpec == Spec /\ Fairness

\* What is not up to the proxy: every call to a backend returns, or its
\* connection breaks, and clients read the bodies they are sent.
BackendsAnswer ==
    \A r \in Req :
        WF_vars(RequestProgress(r) /\ UNCHANGED <<monitorVars, adminVars>>)

\* Draining works: if backends answer, then with new requests arriving for
\* ever the requests of a draining instance still run out, so a removal that
\* timed out can be retried.  Excepted are the behaviours in which a P/D request
\* has lost its instance, which takes an address that was removed in use (see
\* HeldAreRegistered) and added again under another role.
DrainSettles ==
    BackendsAnswer =>
        \A a \in Addr :
            status[a] = "draining" ~> \/ active[a] = 0
                                      \/ \E r \in Req : ~(Unreleased(r) \subseteq Registered)

\* Every admin request that is past the calls to its instance is answered,
\* however long others hold the lock and even if no backend ever answers.
AdminAnswered ==
    \A t \in Admin : task[t].op \in {"adding", "removing", "draining"}
                        ~> task[t].op = "idle"
=============================================================================
