---------------------------- MODULE CoreFindings ----------------------------
(***************************************************************************)
(* Statements of the documentation that the composed proxy does not meet,  *)
(* each with the specification TLC refutes it under.                       *)
(***************************************************************************)
EXTENDS ProxyCore

CONSTANT MaxActive   \* bound on a count that leaks

\* Requests keep coming and are scheduled whenever that stays possible.
Arrivals ==
    WF_vars(/\ \E r \in Req, p, d \in Addr : Schedule(r, p, d)
            /\ UNCHANGED <<monitorVars, adminVars>>)

BusySpec == FairSpec /\ BackendsAnswer /\ Arrivals

\* "removing the instance from rotation until it recovers"
\* (docs/resilience.md:36-37): an instance that stays healthy is not left in
\* HALF-OPEN for ever; some probe request closes or reopens its circuit.
HalfOpenIsProbed ==
    \A a \in Addr : []<>~(breaker[a].state = "half-open" /\ status[a] = "healthy")

\* "record_success: Record a successful request" (docs/resilience.md:62): a
\* request that failed never moves a HALF-OPEN breaker to CLOSED.
FailedRequestNeverCloses ==
    [][\A r \in Req : phase'[r] = "failed" /\ phase[r] # "failed" =>
          \A a \in {pre[r], dec[r], agg[r]} \cap Addr :
              breaker[a].state = "half-open" => breaker'[a].state # "closed"]_vars
-----------------------------------------------------------------------------
\* The load-balanced policy meets "max_tokens": null.  The prefill instance
\* is reserved with max_tokens=1; the decode call then adds None to the
\* prompt length for its first instance and raises TypeError.  The handler
\* answers 500, but its reservation object does not exist yet.
ScheduleRaises(r, p) ==
    /\ phase[r] \in AtRest
    /\ p \in Available("prefill")
    /\ \E d \in Addr : role[d] = "decode"
    /\ active[p] < MaxActive
    /\ active' = Incremented({p})
    /\ UNCHANGED <<role, status, breaker, requestVars>>

NullTokensNext ==
    \/ Next
    \/ /\ \E r \in Req, p \in Addr : ScheduleRaises(r, p)
       /\ UNCHANGED <<monitorVars, adminVars>>

\* FairSpec with requests whose max_tokens is null among the arrivals.
NullTokensSpec == Init /\ [][NullTokensNext]_vars /\ Fairness /\ BackendsAnswer

\* "the same removal request can be retried" (docs/api_reference.md:236): the
\* active requests of a draining instance run out, so some retry succeeds.
RetryCanSucceed == \A a \in Addr : status[a] = "draining" ~> active[a] = 0
=============================================================================
