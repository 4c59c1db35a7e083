----------------------- MODULE ZmqNotifications_proofs -----------------------
(***************************************************************************)
(* Proofs about the notification listener, for any set of requests and any *)
(* number of notifications a request needs.                                *)
(*                                                                         *)
(* ForwardedAfterTransfer is not inductive: WaitDone trusts the count of   *)
(* the request, so the proof has to know that a count never runs ahead of  *)
(* the transfers.  What bounds it is the notifications that are on their   *)
(* way and may still be added to it: Accounted.                            *)
(***************************************************************************)
EXTENDS ZmqNotifications, TLAPS

\* Each notification, counted or still on its way, stands for a transfer of
\* its own.
Accounted == /\ \A r \in Req : wire[r] <= moved[r]
             /\ \A r \in DOMAIN counts : counts[r] + wire[r] <= moved[r]

IInv == /\ ZmqTypeOK
        /\ TablesAgree
        /\ IdsGivenUp
        /\ Accounted
        /\ ForwardedAfterTransfer

\* An id that is given up takes its count with it and leaves the others as
\* they are: discard() keeps what is known of the two tables.
LEMMA DiscardKeepsTables ==
    ASSUME IInv, NEW r \in Req, Discard(r), UNCHANGED <<moved, wire>>
    PROVE  /\ active' \subseteq Req
           /\ r \notin active'
           /\ DOMAIN counts' = active'
           /\ \A q \in DOMAIN counts' : /\ q \in DOMAIN counts
                                        /\ counts'[q] = counts[q]
  BY DEF IInv, ZmqTypeOK, TablesAgree, Discard

\* A request that ends its wait, or its prefill, with Discard keeps the
\* invariant; one that is forwarded has its transfers done.
LEMMA EndKeepsInvariant ==
    ASSUME IInv, NEW r \in Req, NEW s \in {"decoding", "failed"},
           s = "decoding" => Enough(r),
           Goes(r, s), Discard(r), UNCHANGED <<moved, wire>>
    PROVE  IInv'
<1>1. /\ active' \subseteq Req
      /\ r \notin active'
      /\ active' \subseteq active
      /\ DOMAIN counts' = active'
      /\ \A q \in DOMAIN counts' : q \in DOMAIN counts /\ counts'[q] = counts[q]
  BY DiscardKeepsTables DEF Discard
<1>2. /\ stage' \in [Req -> Stage]
      /\ stage'[r] = s
      /\ \A q \in Req : q # r => stage'[q] = stage[q]
  BY DEF IInv, ZmqTypeOK, Goes, Stage
<1>3. ZmqTypeOK'
  BY <1>1, <1>2 DEF IInv, ZmqTypeOK, TablesAgree
<1>4. TablesAgree' /\ IdsGivenUp'
  BY <1>1, <1>2 DEF IInv, TablesAgree, IdsGivenUp, ZmqTypeOK
<1>5. Accounted'
  BY <1>1 DEF IInv, Accounted
<1>6. s = "decoding" => moved[r] = Expected
  BY ZmqAssumption DEF Enough, IInv, ZmqTypeOK, Accounted
<1>7. ForwardedAfterTransfer'
  BY <1>2, <1>6 DEF IInv, ForwardedAfterTransfer
<1> QED BY <1>3, <1>4, <1>5, <1>7 DEF IInv

\* The initial states satisfy the invariant.
LEMMA InitInvariant == Init => IInv
  BY ZmqAssumption
     DEF Init, IInv, ZmqTypeOK, TablesAgree, IdsGivenUp, Accounted,
         ForwardedAfterTransfer, Stage

\* Every step of the handler, of LMCache and of the listener keeps it.
LEMMA NextKeepsInvariant == IInv /\ [Next]_vars => IInv'
<1> SUFFICES ASSUME IInv, [Next]_vars PROVE IInv'
  OBVIOUS
<1>types. /\ stage \in [Req -> Stage]
          /\ active \subseteq Req
          /\ DOMAIN counts = active
          /\ \A q \in active : counts[q] \in 0 .. Expected
          /\ moved \in [Req -> 0 .. Expected]
          /\ wire \in [Req -> 0 .. Expected]
          /\ Expected \in Nat
  BY ZmqAssumption DEF IInv, ZmqTypeOK, TablesAgree
<1>1. ASSUME NEW r \in Req, Register(r) PROVE IInv'
  <2>1. /\ stage' \in [Req -> Stage]
        /\ stage'[r] = "prefill"
        /\ \A q \in Req : q # r => stage'[q] = stage[q]
    BY <1>1, <1>types DEF Register, Goes, Stage
  <2>2. /\ active' = active \cup {r}
        /\ DOMAIN counts' = active'
        /\ counts'[r] = 0
        /\ \A q \in active : q # r => counts'[q] = counts[q]
        /\ moved' = moved /\ wire' = wire
    BY <1>1, <1>types DEF Register
  <2>3. ZmqTypeOK' /\ TablesAgree'
    BY <2>1, <2>2, <1>types DEF ZmqTypeOK, TablesAgree
  <2>4. IdsGivenUp' /\ ForwardedAfterTransfer'
    BY <2>1, <2>2, <1>types DEF IInv, IdsGivenUp, ForwardedAfterTransfer
  <2>5. Accounted'
    BY <2>2, <1>types DEF IInv, Accounted
  <2> QED BY <2>3, <2>4, <2>5 DEF IInv
<1>2. ASSUME NEW r \in Req, PrefillFails(r) PROVE IInv'
  BY <1>2, EndKeepsInvariant DEF PrefillFails
\* A step that only moves the request on, to a stage in which it may keep
\* its id.
<1>3. ASSUME NEW r \in Req, NEW s \in {"waiting", "garbled"}, Goes(r, s),
             UNCHANGED <<tables, moved, wire>>
      PROVE  IInv'
  BY <1>3, <1>types
     DEF Goes, tables, Stage, IInv, ZmqTypeOK, TablesAgree, IdsGivenUp,
         Accounted, ForwardedAfterTransfer
<1>4. ASSUME NEW r \in Req, PrefillGarbled(r) PROVE IInv'
  BY <1>3, <1>4 DEF PrefillGarbled
<1>5. ASSUME NEW r \in Req, StartWait(r) PROVE IInv'
  BY <1>3, <1>5, EndKeepsInvariant DEF StartWait
<1>6. ASSUME NEW r \in Req, WaitDone(r) PROVE IInv'
  BY <1>6, EndKeepsInvariant DEF WaitDone
<1>7. ASSUME NEW r \in Req, WaitTimeout(r) PROVE IInv'
  BY <1>7, EndKeepsInvariant DEF WaitTimeout
<1>8. ASSUME NEW r \in Req, Transfer(r) PROVE IInv'
  <2>1. /\ moved'[r] = moved[r] + 1 /\ wire'[r] = wire[r] + 1
        /\ moved[r] < Expected
        /\ \A q \in Req : q # r => moved'[q] = moved[q] /\ wire'[q] = wire[q]
        /\ UNCHANGED <<stage, active, counts>>
    BY <1>8, <1>types DEF Transfer, tables
  <2>2. moved[r] + 1 \in 0 .. Expected /\ wire[r] + 1 \in 0 .. Expected
    BY <2>1, <1>types DEF IInv, Accounted
  <2>3. ZmqTypeOK'
    BY <1>8, <2>1, <2>2, <1>types DEF Transfer, ZmqTypeOK
  <2>4. Accounted'
    BY <2>1, <1>types DEF IInv, Accounted
  <2>5. TablesAgree' /\ IdsGivenUp' /\ ForwardedAfterTransfer'
    BY <2>1, <1>types
       DEF IInv, TablesAgree, IdsGivenUp, ForwardedAfterTransfer
  <2> QED BY <2>3, <2>4, <2>5 DEF IInv
\* A notification that leaves the wire, and what becomes of it.
<1>9. ASSUME NEW r \in Req, wire[r] > 0,
             wire' = [wire EXCEPT ![r] = @ - 1]
      PROVE  /\ wire' \in [Req -> 0 .. Expected]
             /\ wire'[r] = wire[r] - 1
             /\ \A q \in Req : q # r => wire'[q] = wire[q]
  BY <1>9, <1>types
<1>10. ASSUME NEW r \in Req, Lose(r) PROVE IInv'
  BY <1>9, <1>10, <1>types
     DEF Lose, tables, IInv, ZmqTypeOK, TablesAgree, IdsGivenUp, Accounted,
         ForwardedAfterTransfer
<1>11. ASSUME NEW r \in Req, Receive(r) PROVE IInv'
  <2>1. /\ wire' \in [Req -> 0 .. Expected]
        /\ wire'[r] = wire[r] - 1 /\ wire[r] > 0
        /\ \A q \in Req : q # r => wire'[q] = wire[q]
        /\ UNCHANGED <<stage, active, moved>>
    BY <1>9, <1>11 DEF Receive
  <2>2. /\ DOMAIN counts' = active
        /\ r \in active => counts'[r] = counts[r] + 1
        /\ \A q \in active : q # r => counts'[q] = counts[q]
    BY <1>11, <1>types DEF Receive
  <2>3. Accounted'
    BY <2>1, <2>2, <1>types DEF IInv, Accounted
  <2>4. r \in active => counts[r] + 1 <= Expected
    BY <2>1, <1>types DEF IInv, Accounted
  <2>5. ZmqTypeOK'
    BY <2>1, <2>2, <2>4, <1>types DEF ZmqTypeOK
  <2>6. TablesAgree' /\ IdsGivenUp' /\ ForwardedAfterTransfer'
    BY <2>1, <2>2 DEF IInv, TablesAgree, IdsGivenUp, ForwardedAfterTransfer
  <2> QED BY <2>3, <2>5, <2>6 DEF IInv
<1>12. CASE UNCHANGED vars
  BY <1>12 DEF vars, tables, IInv, ZmqTypeOK, TablesAgree, IdsGivenUp,
               Accounted, ForwardedAfterTransfer
<1> QED
  BY <1>1, <1>2, <1>4, <1>5, <1>6, <1>7, <1>8, <1>10, <1>11, <1>12
     DEF Next, PrefillAnswered, WaitEnds
-----------------------------------------------------------------------------
\* The conjunction is invariant; each theorem below is a part of it.
LEMMA Invariance == Spec => []IInv
  BY InitInvariant, NextKeepsInvariant, PTL DEF Spec

\* Stages, tables and counts stay in their ranges: no count exceeds the
\* number of notifications its request needs.
THEOREM ZmqTypeCorrect == Spec => []ZmqTypeOK
  BY Invariance, PTL DEF IInv

\* _active and _counts always have the same ids, so _receive never adds to a
\* count that is not there.
THEOREM TablesAlwaysAgree == Spec => []TablesAgree
  BY Invariance, PTL DEF IInv

\* handle_completion forwards a request to its decode instance only when
\* every port's KV cache transfer is done, in every interleaving of prefill
\* answers, notifications, losses and timeouts.
THEOREM ForwardedOnlyAfterTransfer == Spec => []ForwardedAfterTransfer
  BY Invariance, PTL DEF IInv

\* Every path out of handle_completion gives the id up, but the one of a
\* prefill answer that is not UTF-8.
THEOREM IdsAreGivenUp == Spec => []IdsGivenUp
  BY Invariance, PTL DEF IInv
=============================================================================
