-------------------------- MODULE InstanceRegistry --------------------------
(***************************************************************************)
(* registry.py: the table of backend instances.  Each entry has a role, a  *)
(* status, the number of requests it is serving and a circuit breaker; an  *)
(* address without an entry has role "none".  The operations are given as  *)
(* the values the tables have after a call, because every caller runs      *)
(* several of them between two awaits.                                     *)
(* One model is served, so the model filters of the lookups always pass.   *)
(***************************************************************************)
EXTENDS BreakerStates, FiniteSets

CONSTANTS Addr,       \* addresses of backend instances
          CbEnabled   \* circuit_breaker.enabled

ASSUME RegistryAssumption == CbEnabled \in BOOLEAN

VARIABLES role,      \* role of each registered address
          status,    \* InstanceStatus
          active,    \* active_request_count
          breaker    \* circuit_breaker, as module BreakerStates sees it

registryVars == <<role, status, active, breaker>>

Role == {"prefill", "decode", "aggregated"}
Status == {"healthy", "unhealthy", "unknown", "draining"}

RegistryTypeOK == /\ role \in [Addr -> Role \cup {"none"}]
                  /\ status \in [Addr -> Status]
                  /\ active \in [Addr -> Nat]
                  /\ breaker \in [Addr -> Breaker]

Registered == {a \in Addr : role[a] # "none"}
-----------------------------------------------------------------------------
\* Faulty: a draining instance is still offered.
AvailableWhileDraining(rl) ==
    {a \in Addr : /\ role[a] = rl
                  /\ status[a] \in {"healthy", "draining"}
                  /\ CbEnabled => breaker[a].state = "closed"}

\* get_available_instances and get_aggregated_instances.
Available(rl) ==
    {a \in Addr : /\ role[a] = rl
                  /\ status[a] = "healthy"
                  /\ CbEnabled => breaker[a].state = "closed"}

\* add followed by mark_healthy, as add_instance calls them.
Add(a, rl) == /\ role' = [role EXCEPT ![a] = rl]
              /\ status' = [status EXCEPT ![a] = "healthy"]
              /\ active' = [active EXCEPT ![a] = 0]
              /\ breaker' = [breaker EXCEPT ![a] = ClosedBreaker]

\* remove: the entry is deleted, so nothing of it survives.
Remove(a) == /\ role' = [role EXCEPT ![a] = "none"]
             /\ status' = [status EXCEPT ![a] = "unknown"]
             /\ active' = [active EXCEPT ![a] = 0]
             /\ breaker' = [breaker EXCEPT ![a] = ClosedBreaker]

\* begin_draining.
BeginDraining(a) == /\ status' = [status EXCEPT ![a] = "draining"]
                    /\ UNCHANGED <<role, active, breaker>>

\* Faulty: a health result ends a drain.
MarkAnyway(a, s) == /\ status' = [status EXCEPT ![a] = s]
                    /\ UNCHANGED <<role, active, breaker>>

\* mark_healthy and mark_unhealthy: a draining instance stays draining.
Mark(a, s) ==
    /\ status' = [status EXCEPT ![a] = IF @ = "draining" THEN @ ELSE s]
    /\ UNCHANGED <<role, active, breaker>>

\* increment_active_requests for each address of A.
Incremented(A) == [a \in Addr |-> IF a \in A THEN active[a] + 1 ELSE active[a]]

\* Faulty: one check for two decrements.
DecrementedTwice(A) ==
    [a \in Addr |-> IF a \in A /\ active[a] > 0 THEN active[a] - 2 ELSE active[a]]

\* decrement_active_requests for each address of A; it never goes below 0.
Decremented(A) ==
    [a \in Addr |-> IF a \in A /\ active[a] > 0 THEN active[a] - 1 ELSE active[a]]

\* record_success for each address of A and then record_failure for each of
\* F; trips are the breakers whose failure window this failure fills.
Recorded(A, F, trips) ==
    [a \in Addr |->
        LET b == IF a \in A THEN AfterSuccess(breaker[a]) ELSE breaker[a]
        IN  IF a \in F THEN AfterFailure(b, a \in trips) ELSE b]

\* Time passes until the OPEN timeout of a breaker is over.
BreakerTimeout(a) ==
    /\ role[a] # "none"
    /\ breaker[a].state = "open"
    /\ breaker' = [breaker EXCEPT ![a] = AfterTimeout(@)]
    /\ UNCHANGED <<role, status, active>>
=============================================================================
