------------------------------- MODULE Waiter -------------------------------
(***************************************************************************)
(* bridge/pkg/utils/waiter.go: the one-shot latch through which a          *)
(* connection attempt reports its outcome.  WebRTCBridge.Start and         *)
(* MQTTManager.connect call Wait; pion, MQTT and paho callbacks call Done. *)
(*                                                                         *)
(* The embedded sync.WaitGroup is its counter wg; mu is the mutex.  The    *)
(* two statements of Done that other threads can tell apart are two steps: *)
(* WaitGroup.Done() wakes the waiters, and only then is w.err assigned.    *)
(* Wait reads w.err without the mutex, so a read that overlaps the         *)
(* assignment may also see a torn two-word interface value.                *)
(***************************************************************************)
EXTENDS Integers, FiniteSets

CONSTANTS Threads,    \* goroutines, each performing one call
          Errors,     \* the non-nil errors a Done may carry
          Nil,        \* the nil error
          Torn,       \* a half-written error value
          NoThread    \* "nobody holds mu"

ASSUME ThreadsAssumption == NoThread \notin Threads
ASSUME ErrorsAssumption == /\ Nil \notin Errors /\ Torn \notin Errors
                           /\ Nil # Torn

VARIABLES mu,      \* the holder of w.mu
          state,   \* w.state; negative means finished
          wg,      \* the counter of the embedded WaitGroup
          err,     \* w.err
          pc,      \* where each thread is in its call
          arg,     \* the error a Done was called with
          got,     \* what a Wait returned (Torn until it has)
          late     \* Waits called after the latch was already finished

vars == <<mu, state, wg, err, pc, arg, got, late>>

Results == Errors \cup {Nil}

(* The thread between WaitGroup.Done() and the unlock, if it is the last.  *)
Settling(t) == pc[t] = "settling" /\ state = 0

Init == /\ mu = NoThread
        /\ state = 0
        /\ wg = 0
        /\ err = Nil
        /\ pc = [t \in Threads |-> "idle"]
        /\ arg = [t \in Threads |-> Nil]
        /\ got = [t \in Threads |-> Torn]
        /\ late = {}

-----------------------------------------------------------------------------
(* Add(1): ignored once the latch has finished.                            *)
Add(t) ==
  /\ pc[t] = "idle" /\ mu = NoThread
  /\ pc' = [pc EXCEPT ![t] = "finished"]
  /\ IF state >= 0 THEN state' = state + 1 /\ wg' = wg + 1
                   ELSE UNCHANGED <<state, wg>>
  /\ UNCHANGED <<mu, err, arg, got, late>>

(* A Wait that does not start the latch: nothing to wait for unless some   *)
(* Add came first.                                                         *)
MutWaitNoAutostart(t) ==
  /\ pc[t] = "idle" /\ mu = NoThread
  /\ pc' = [pc EXCEPT ![t] = "waiting"]
  /\ late' = IF state < 0 THEN late \cup {t} ELSE late
  /\ UNCHANGED <<mu, state, wg, err, arg, got>>

(* A Wait that starts the latch again after the last Done.                 *)
MutWaitRestarts(t) ==
  /\ pc[t] = "idle" /\ mu = NoThread
  /\ pc' = [pc EXCEPT ![t] = "waiting"]
  /\ IF state <= 0 THEN state' = 1 /\ wg' = wg + 1 ELSE UNCHANGED <<state, wg>>
  /\ late' = IF state < 0 THEN late \cup {t} ELSE late
  /\ UNCHANGED <<mu, err, arg, got>>

(* Wait, under mu: the first Wait starts the latch with one task.          *)
Wait(t) ==
  /\ pc[t] = "idle" /\ mu = NoThread
  /\ pc' = [pc EXCEPT ![t] = "waiting"]
  /\ IF state = 0 THEN state' = 1 /\ wg' = wg + 1 ELSE UNCHANGED <<state, wg>>
  /\ late' = IF state < 0 THEN late \cup {t} ELSE late
  /\ UNCHANGED <<mu, err, arg, got>>

(* WaitChan: a goroutine runs Wait, unless the latch has finished: then    *)
(* the caller gets a nil channel, on which a receive never returns.        *)
WaitChanNil(t) ==
  /\ pc[t] = "idle" /\ mu = NoThread /\ state < 0
  /\ pc' = [pc EXCEPT ![t] = "nilChannel"]
  /\ UNCHANGED <<mu, state, wg, err, arg, got, late>>

(* WaitGroup.Wait returns.                                                 *)
Wake(t) ==
  /\ pc[t] = "waiting" /\ wg = 0
  /\ pc' = [pc EXCEPT ![t] = "reading"]
  /\ UNCHANGED <<mu, state, wg, err, arg, got, late>>

(* `return w.err`, without the mutex.                                      *)
ReadErr(t) ==
  /\ pc[t] = "reading"
  /\ pc' = [pc EXCEPT ![t] = "finished"]
  /\ \E seen \in {err} \cup UNION {{arg[u], Torn} : u \in {u \in Threads : Settling(u)}} :
        got' = [got EXCEPT ![t] = seen]
  /\ UNCHANGED <<mu, state, wg, err, arg, late>>

(* A Done without the `state > 0` guard on the WaitGroup.                  *)
MutDoneUnguarded(t, e) ==
  /\ pc[t] = "idle" /\ mu = NoThread
  /\ mu' = t
  /\ pc' = [pc EXCEPT ![t] = "settling"]
  /\ arg' = [arg EXCEPT ![t] = e]
  /\ wg' = wg - 1
  /\ state' = IF state > 0 THEN state - 1 ELSE state
  /\ UNCHANGED <<err, got, late>>

(* Done, first half: lock, and let one task go.                            *)
DoneRelease(t, e) ==
  /\ pc[t] = "idle" /\ mu = NoThread
  /\ mu' = t
  /\ pc' = [pc EXCEPT ![t] = "settling"]
  /\ arg' = [arg EXCEPT ![t] = e]
  /\ IF state > 0 THEN state' = state - 1 /\ wg' = wg - 1
                  ELSE UNCHANGED <<state, wg>>
  /\ UNCHANGED <<err, got, late>>

(* A Done that records its error whether or not it is the last.            *)
MutSettleAlways(t) ==
  /\ pc[t] = "settling"
  /\ mu' = NoThread
  /\ pc' = [pc EXCEPT ![t] = "finished"]
  /\ state' = IF state = 0 THEN -1 ELSE state
  /\ err' = arg[t]
  /\ UNCHANGED <<wg, arg, got, late>>

(* A Done that returns on the path of a task that is not the last without  *)
(* unlocking.                                                              *)
MutSettleKeepsMutex(t) ==
  /\ pc[t] = "settling"
  /\ mu' = IF state = 0 THEN NoThread ELSE mu
  /\ pc' = [pc EXCEPT ![t] = "finished"]
  /\ IF state = 0 THEN state' = -1 /\ err' = arg[t] ELSE UNCHANGED <<state, err>>
  /\ UNCHANGED <<wg, arg, got, late>>

(* Done, second half: the last one finishes the latch and records its      *)
(* error; unlock.                                                          *)
DoneSettle(t) ==
  /\ pc[t] = "settling"
  /\ mu' = NoThread
  /\ pc' = [pc EXCEPT ![t] = "finished"]
  /\ IF state = 0 THEN state' = -1 /\ err' = arg[t] ELSE UNCHANGED <<state, err>>
  /\ UNCHANGED <<wg, arg, got, late>>

-----------------------------------------------------------------------------
(* Calls are made by the program's other parts and need not happen; a call *)
(* under way is scheduled like any goroutine, and Go's mutex does not      *)
(* starve a waiter.                                                        *)
Step(t) == Wake(t) \/ ReadErr(t) \/ DoneSettle(t)

Next == \E t \in Threads :
          \/ Add(t)
          \/ Wait(t)
          \/ WaitChanNil(t)
          \/ Wake(t)
          \/ ReadErr(t)
          \/ \E e \in Results : DoneRelease(t, e)
          \/ DoneSettle(t)

Spec == Init /\ [][Next]_vars /\ \A t \in Threads : WF_vars(Step(t))

-----------------------------------------------------------------------------
(* The values of the fields and of each call's progress.                   *)
TypeOK ==
  /\ mu \in Threads \cup {NoThread}
  /\ state \in Nat \cup {-1}
  /\ wg \in Nat
  /\ err \in Results
  /\ pc \in [Threads -> {"idle", "waiting", "reading", "settling", "nilChannel", "finished"}]
  /\ arg \in [Threads -> Results]
  /\ got \in [Threads -> Results \cup {Torn}]
  /\ late \subseteq Threads

(* The WaitGroup counter follows w.state, so it is never negative (sync    *)
(* would panic), and the Done between its two halves, only, holds mu.      *)
CounterFollowsState ==
  /\ wg = IF state > 0 THEN state ELSE 0
  /\ \A t \in Threads : pc[t] = "settling" <=> mu = t

(* A gate that has opened stays open: from the moment a Wait is let go, no *)
(* later Add, Wait or Done can make the latch pending again, and that      *)
(* moment is at or after the last Done.                                    *)
GateStaysOpen ==
  (\E t \in Threads : pc[t] = "reading")
     => /\ wg = 0
        /\ \/ state = -1
           \/ \E u \in Threads : Settling(u)

(* A Wait called once the latch has finished returns the error of the last *)
(* Done.  One called earlier may instead return what it read before the    *)
(* error was stored, so Start can report success for a failed attempt.     *)
LateWaitsSeeResult ==
  \A t \in late : pc[t] = "finished" => got[t] = err

(* The outcome is written once: after the last Done neither a late Done    *)
(* nor anything else changes it.                                           *)
OutcomeIsFinal ==
  [][state = -1 => UNCHANGED <<state, err>>]_vars

(* Every Wait returns once the latch has finished.                         *)
WaitersReturn ==
  \A t \in Threads : (state = -1 /\ pc[t] = "waiting") ~> pc[t] = "finished"
=============================================================================
