---------------------------- MODULE WaiterProofs ----------------------------
(***************************************************************************)
(* Proofs that the latch of utils/waiter.go keeps its safety properties    *)
(* whatever the number of goroutines that call it and the errors they      *)
(* carry.                                                                  *)
(***************************************************************************)
EXTENDS Waiter, TLAPS

(* Why a gate that has opened stays open: while somebody waits, or has     *)
(* just been let go, the latch is not at zero unless a Done is between its *)
(* two halves, and then that Done holds mu, which every call needs.        *)
WaitersAttended ==
  \A t \in Threads :
    /\ pc[t] \in {"waiting", "reading"} => state # 0 \/ mu # NoThread
    /\ pc[t] = "reading" => state <= 0

(* A Wait called on a finished latch finds it finished ever after.         *)
LateStaysLate ==
  \A t \in late : state = -1 /\ pc[t] \in {"waiting", "reading", "finished"}

IInv == /\ TypeOK
        /\ CounterFollowsState
        /\ WaitersAttended
        /\ LateStaysLate
        /\ LateWaitsSeeResult

(* The initial state satisfies the inductive invariant.                    *)
LEMMA InitIInv == Init => IInv
BY ThreadsAssumption
   DEF Init, IInv, TypeOK, CounterFollowsState, WaitersAttended, LateStaysLate,
       LateWaitsSeeResult, Results

(* Every step, of whatever goroutine, keeps the types.                     *)
LEMMA TypeInductive == IInv /\ [Next]_vars => TypeOK'
<1> SUFFICES ASSUME IInv, [Next]_vars PROVE TypeOK'
    OBVIOUS
<1> USE DEF IInv, TypeOK, CounterFollowsState, Results
<1>1. ASSUME NEW t \in Threads, Add(t) PROVE TypeOK'
  BY <1>1 DEF Add
<1>2. ASSUME NEW t \in Threads, Wait(t) PROVE TypeOK'
  BY <1>2 DEF Wait
<1>3. ASSUME NEW t \in Threads, WaitChanNil(t) PROVE TypeOK'
  BY <1>3 DEF WaitChanNil
<1>4. ASSUME NEW t \in Threads, Wake(t) PROVE TypeOK'
  BY <1>4 DEF Wake
<1>5. ASSUME NEW t \in Threads, ReadErr(t) PROVE TypeOK'
  BY <1>5 DEF ReadErr, Settling
<1>6. ASSUME NEW t \in Threads, NEW e \in Results, DoneRelease(t, e) PROVE TypeOK'
  BY <1>6 DEF DoneRelease
<1>7. ASSUME NEW t \in Threads, DoneSettle(t) PROVE TypeOK'
  BY <1>7 DEF DoneSettle
<1>8. CASE UNCHANGED vars
  BY <1>8 DEF vars
<1>9. QED
  BY <1>1, <1>2, <1>3, <1>4, <1>5, <1>6, <1>7, <1>8 DEF Next

(* Every step keeps the counter and the mutex in line with the state.      *)
LEMMA CounterInductive == IInv /\ [Next]_vars => CounterFollowsState'
<1> SUFFICES ASSUME IInv, [Next]_vars PROVE CounterFollowsState'
    OBVIOUS
<1> USE ThreadsAssumption DEF IInv, TypeOK, CounterFollowsState
<1>1. ASSUME NEW t \in Threads, Add(t) PROVE CounterFollowsState'
  BY <1>1 DEF Add
<1>2. ASSUME NEW t \in Threads, Wait(t) PROVE CounterFollowsState'
  BY <1>2 DEF Wait
<1>3. ASSUME NEW t \in Threads, WaitChanNil(t) PROVE CounterFollowsState'
  BY <1>3 DEF WaitChanNil
<1>4. ASSUME NEW t \in Threads, Wake(t) PROVE CounterFollowsState'
  BY <1>4 DEF Wake
<1>5. ASSUME NEW t \in Threads, ReadErr(t) PROVE CounterFollowsState'
  BY <1>5 DEF ReadErr
<1>6. ASSUME NEW t \in Threads, NEW e \in Results, DoneRelease(t, e)
      PROVE  CounterFollowsState'
  BY <1>6 DEF DoneRelease
<1>7. ASSUME NEW t \in Threads, DoneSettle(t) PROVE CounterFollowsState'
  BY <1>7 DEF DoneSettle
<1>8. CASE UNCHANGED vars
  BY <1>8 DEF vars
<1>9. QED
  BY <1>1, <1>2, <1>3, <1>4, <1>5, <1>6, <1>7, <1>8 DEF Next

(* Every step keeps the latch closed to those who wait and open to those   *)
(* it has let go.                                                          *)
LEMMA AttendedInductive == IInv /\ [Next]_vars => WaitersAttended'
<1> SUFFICES ASSUME IInv, [Next]_vars PROVE WaitersAttended'
    OBVIOUS
<1> USE ThreadsAssumption DEF IInv, TypeOK, CounterFollowsState, WaitersAttended
<1>1. ASSUME NEW t \in Threads, Add(t) PROVE WaitersAttended'
  BY <1>1 DEF Add
<1>2. ASSUME NEW t \in Threads, Wait(t) PROVE WaitersAttended'
  BY <1>2 DEF Wait
<1>3. ASSUME NEW t \in Threads, WaitChanNil(t) PROVE WaitersAttended'
  BY <1>3 DEF WaitChanNil
<1>4. ASSUME NEW t \in Threads, Wake(t) PROVE WaitersAttended'
  BY <1>4 DEF Wake
<1>5. ASSUME NEW t \in Threads, ReadErr(t) PROVE WaitersAttended'
  BY <1>5 DEF ReadErr
<1>6. ASSUME NEW t \in Threads, NEW e \in Results, DoneRelease(t, e)
      PROVE  WaitersAttended'
  BY <1>6 DEF DoneRelease
<1>7. ASSUME NEW t \in Threads, DoneSettle(t) PROVE WaitersAttended'
  BY <1>7 DEF DoneSettle
<1>8. CASE UNCHANGED vars
  BY <1>8 DEF vars
<1>9. QED
  BY <1>1, <1>2, <1>3, <1>4, <1>5, <1>6, <1>7, <1>8 DEF Next

(* Every step keeps what a late Wait returns equal to the recorded error:  *)
(* with the latch finished no Done can be about to change it.              *)
LEMMA LateInductive == IInv /\ [Next]_vars => (LateStaysLate /\ LateWaitsSeeResult)'
<1> SUFFICES ASSUME IInv, [Next]_vars PROVE (LateStaysLate /\ LateWaitsSeeResult)'
    OBVIOUS
<1> USE DEF IInv, TypeOK, CounterFollowsState, LateStaysLate, LateWaitsSeeResult
<1>1. ASSUME NEW t \in Threads, Add(t) PROVE (LateStaysLate /\ LateWaitsSeeResult)'
  BY <1>1 DEF Add
<1>2. ASSUME NEW t \in Threads, Wait(t) PROVE (LateStaysLate /\ LateWaitsSeeResult)'
  BY <1>2 DEF Wait
<1>3. ASSUME NEW t \in Threads, WaitChanNil(t)
      PROVE  (LateStaysLate /\ LateWaitsSeeResult)'
  BY <1>3 DEF WaitChanNil
<1>4. ASSUME NEW t \in Threads, Wake(t) PROVE (LateStaysLate /\ LateWaitsSeeResult)'
  BY <1>4 DEF Wake
<1>5. ASSUME NEW t \in Threads, ReadErr(t) PROVE (LateStaysLate /\ LateWaitsSeeResult)'
  <2>1. LateStaysLate'
    BY <1>5 DEF ReadErr
  <2>2. state = -1 => got' = [got EXCEPT ![t] = err]
    BY <1>5 DEF ReadErr, Settling
  <2>3. QED
    BY <1>5, <2>1, <2>2 DEF ReadErr
<1>6. ASSUME NEW t \in Threads, NEW e \in Results, DoneRelease(t, e)
      PROVE  (LateStaysLate /\ LateWaitsSeeResult)'
  BY <1>6 DEF DoneRelease
<1>7. ASSUME NEW t \in Threads, DoneSettle(t) PROVE (LateStaysLate /\ LateWaitsSeeResult)'
  BY <1>7 DEF DoneSettle
<1>8. CASE UNCHANGED vars
  BY <1>8 DEF vars
<1>9. QED
  BY <1>1, <1>2, <1>3, <1>4, <1>5, <1>6, <1>7, <1>8 DEF Next

(* IInv is an invariant: the latch's fields, its waiters and what they     *)
(* return stay consistent through every interleaving of calls.             *)
THEOREM Invariance == Spec => []IInv
<1>1. IInv /\ [Next]_vars => IInv'
  BY TypeInductive, CounterInductive, AttendedInductive, LateInductive DEF IInv
<1>2. QED
  BY InitIInv, <1>1, PTL DEF Spec

(* The fields keep their types; the WaitGroup counter is never negative.   *)
THEOREM TypeCorrect == Spec => []TypeOK
<1>1. IInv => TypeOK
  BY DEF IInv
<1>2. QED
  BY Invariance, <1>1, PTL

(* Done and Wait agree on the counter, and every Done unlocks mu.          *)
THEOREM CounterCorrect == Spec => []CounterFollowsState
<1>1. IInv => CounterFollowsState
  BY DEF IInv
<1>2. QED
  BY Invariance, <1>1, PTL

(* No call made after a Wait was let go can close the latch again.         *)
THEOREM GateCorrect == Spec => []GateStaysOpen
<1>1. IInv => GateStaysOpen
  <2> SUFFICES ASSUME IInv, NEW t \in Threads, pc[t] = "reading"
               PROVE  wg = 0 /\ (state = -1 \/ \E u \in Threads : Settling(u))
      BY DEF GateStaysOpen
  <2>1. state <= 0 /\ (state # 0 \/ mu # NoThread)
    BY DEF IInv, WaitersAttended
  <2>2. mu # NoThread => pc[mu] = "settling" /\ mu \in Threads
    BY DEF IInv, TypeOK, CounterFollowsState
  <2>3. QED
    BY <2>1, <2>2 DEF IInv, TypeOK, CounterFollowsState, Settling
<1>2. QED
  BY Invariance, <1>1, PTL

(* A Wait called after the last Done returns that Done's error, always.    *)
THEOREM LateWaitCorrect == Spec => []LateWaitsSeeResult
<1>1. IInv => LateWaitsSeeResult
  BY DEF IInv
<1>2. QED
  BY Invariance, <1>1, PTL

(* The outcome of an attempt, once recorded, is never replaced.            *)
THEOREM OutcomeCorrect == Spec => OutcomeIsFinal
<1>1. IInv /\ [Next]_vars => [state = -1 => UNCHANGED <<state, err>>]_vars
  <2> SUFFICES ASSUME IInv, Next, state = -1 PROVE UNCHANGED <<state, err>>
      OBVIOUS
  <2>1. ASSUME NEW t \in Threads, DoneSettle(t) PROVE UNCHANGED <<state, err>>
    BY <2>1 DEF DoneSettle
  <2>2. ASSUME NEW t \in Threads, NEW e \in Results, DoneRelease(t, e)
        PROVE  UNCHANGED <<state, err>>
    BY <2>2 DEF DoneRelease
  <2>3. QED
    BY <2>1, <2>2 DEF Next, Add, Wait, WaitChanNil, Wake, ReadErr
<1>2. QED
  BY Invariance, <1>1, PTL DEF Spec, OutcomeIsFinal
=============================================================================
