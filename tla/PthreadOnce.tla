---------------------------- MODULE PthreadOnce -----------------------------
(***************************************************************************)
(* pthread_once and call_once, libc/bionic/pthread_once.cpp.  The code     *)
(* does not support an init routine that throws or forks.                  *)
(***************************************************************************)
EXTENDS Integers, Futex, Actors

ONCE_INITIALIZATION_NOT_YET_STARTED == 0
ONCE_INITIALIZATION_UNDERWAY        == 1
ONCE_INITIALIZATION_COMPLETE        == 2

VARIABLES
  once_control,
  pc

vars == <<once_control, pc>>

(***************************************************************************)
(* idle     has not called;              loop    about to look;            *)
(* wait     about to enter futex_wait;   asleep  sleeping in futex_wait;   *)
(* routine  runs init_routine;           wake    about to wake everybody;  *)
(* ready    has returned.                                                  *)
(***************************************************************************)
Locations == {"idle", "loop", "wait", "asleep", "routine", "wake", "ready"}

At(l) == {t \in Threads : pc[t] = l}

Goto(t, l) == pc' = [pc EXCEPT ![t] = l]

Init ==
  /\ once_control = ONCE_INITIALIZATION_NOT_YET_STARTED
  /\ pc = [t \in Threads |-> "idle"]

Call(t) ==
  /\ pc[t] = "idle"
  /\ Goto(t, "loop")
  /\ UNCHANGED once_control

(***************************************************************************)
(* A faulty variant that lets everybody go ahead who finds the             *)
(* initialization underway.                                                *)
(***************************************************************************)
LookGoesAhead(t) ==
  /\ pc[t] = "loop"
  /\ once_control' = IF once_control = ONCE_INITIALIZATION_NOT_YET_STARTED
                       THEN ONCE_INITIALIZATION_UNDERWAY ELSE once_control
  /\ Goto(t, IF once_control = ONCE_INITIALIZATION_NOT_YET_STARTED
               THEN "routine" ELSE "ready")

(***************************************************************************)
(* One round of the loop of pthread_once.                                  *)
(***************************************************************************)
Look(t) ==
  /\ pc[t] = "loop"
  /\ \/ /\ once_control = ONCE_INITIALIZATION_COMPLETE
        /\ Goto(t, "ready")
        /\ UNCHANGED once_control
     \/ /\ once_control = ONCE_INITIALIZATION_NOT_YET_STARTED
        /\ once_control' = ONCE_INITIALIZATION_UNDERWAY
        /\ Goto(t, "routine")
     \/ /\ once_control = ONCE_INITIALIZATION_UNDERWAY
        /\ Goto(t, "wait")
        /\ UNCHANGED once_control

FutexWait(t) ==
  /\ pc[t] = "wait"
  /\ Goto(t, IF once_control = ONCE_INITIALIZATION_UNDERWAY
               THEN "asleep" ELSE "loop")
  /\ UNCHANGED once_control

Interrupt(t) ==
  /\ pc[t] = "asleep"
  /\ Goto(t, "loop")
  /\ UNCHANGED once_control

Finish(t) ==
  /\ pc[t] = "routine"
  /\ once_control' = ONCE_INITIALIZATION_COMPLETE
  /\ Goto(t, "wake")

(***************************************************************************)
(* A faulty variant that wakes one waiter only.                            *)
(***************************************************************************)
WakeOnlyOne(t) ==
  /\ pc[t] = "wake"
  /\ \E woken \in WakeOne(At("asleep")) :
       pc' = [u \in Threads |-> IF u = t THEN "ready"
                                ELSE IF u \in woken THEN "loop" ELSE pc[u]]
  /\ UNCHANGED once_control

Wake(t) ==
  /\ pc[t] = "wake"
  /\ \E woken \in WakeAll(At("asleep")) :
       pc' = [u \in Threads |-> IF u = t THEN "ready"
                                ELSE IF u \in woken THEN "loop" ELSE pc[u]]
  /\ UNCHANGED once_control

Progress(t) == Look(t) \/ FutexWait(t) \/ Finish(t) \/ Wake(t)

Done == \A t \in Threads : pc[t] = "ready"

Next ==
  \/ \E t \in Threads : Call(t) \/ Progress(t) \/ Interrupt(t)
  \/ Done /\ UNCHANGED vars

Spec == Init /\ [][Next]_vars

(***************************************************************************)
(* Threads are scheduled and init_routine ends.                            *)
(***************************************************************************)
FairSpec == Spec /\ \A t \in Threads : WF_vars(Progress(t))

-----------------------------------------------------------------------------
TypeOK ==
  /\ once_control \in {ONCE_INITIALIZATION_NOT_YET_STARTED,
                       ONCE_INITIALIZATION_UNDERWAY,
                       ONCE_INITIALIZATION_COMPLETE}
  /\ pc \in [Threads -> Locations]

(***************************************************************************)
(* init_routine is run by one thread, and the control says "underway"      *)
(* exactly while it runs.                                                  *)
(***************************************************************************)
OneRoutine ==
  /\ \A t, u \in At("routine") : t = u
  /\ At("routine") # {} <=> once_control = ONCE_INITIALIZATION_UNDERWAY

(***************************************************************************)
(* No call has returned, or is about to wake the others and return, unless *)
(* init_routine has ended.                                                 *)
(***************************************************************************)
ReturnsOnlyWhenComplete ==
  At("ready") \union At("wake") # {} =>
    once_control = ONCE_INITIALIZATION_COMPLETE

Inv == TypeOK /\ OneRoutine /\ ReturnsOnlyWhenComplete

(***************************************************************************)
(* Every call returns, however callers, the wake and interruptions         *)
(* interleave: a waiter that sees "underway" and goes to sleep after the   *)
(* wake is turned back by the word.                                        *)
(***************************************************************************)
EveryCallReturns == \A t \in Threads : []<>(pc[t] \in {"idle", "ready"})

(***************************************************************************)
(* The thread that runs init_routine.                                      *)
(***************************************************************************)
Runner ==
  IF At("routine") # {} THEN CHOOSE t \in Threads : pc[t] = "routine"
  ELSE NoThread

Abstract ==
  INSTANCE AbstractOnce
    WITH runner <- Runner,
         done <- once_control = ONCE_INITIALIZATION_COMPLETE,
         returned <- At("ready") \union At("wake")

(***************************************************************************)
(* pthread_once implements one-time initialization: init_routine runs      *)
(* once, and no call returns before it has ended.                          *)
(***************************************************************************)
ImplementsAbstractOnce == Abstract!Spec
=============================================================================
