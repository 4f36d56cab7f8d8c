------------------------------ MODULE CxaGuard ------------------------------
(***************************************************************************)
(* The guards of function-local statics, libc/bionic/__cxa_guard.cpp.  The *)
(* constructor between acquire and release or abort is the compiler's; an  *)
(* exception makes it abort, and the caller may try again.                 *)
(***************************************************************************)
EXTENDS Integers, Futex, Actors

CONSTRUCTION_NOT_YET_STARTED         == 0
CONSTRUCTION_COMPLETE                == 1
CONSTRUCTION_UNDERWAY_WITHOUT_WAITER == 256
CONSTRUCTION_UNDERWAY_WITH_WAITER    == 512

VARIABLES
  state,            \* The guard variable.
  pc

vars == <<state, pc>>

(***************************************************************************)
(* idle       is not in a call;                                            *)
(* loop       in acquire, about to look at the guard;                      *)
(* wait       in acquire, about to enter futex_wait;                       *)
(* asleep     sleeping in futex_wait;                                      *)
(* construct  acquire has returned 1: runs the constructor;                *)
(* wakedone   in release, about to wake all sleepers;                      *)
(* wakeabort  in abort, about to wake all sleepers;                        *)
(* ready      uses the object.                                             *)
(***************************************************************************)
Locations ==
  {"idle", "loop", "wait", "asleep", "construct", "wakedone", "wakeabort",
   "ready"}

At(l) == {t \in Threads : pc[t] = l}

Goto(t, l) == pc' = [pc EXCEPT ![t] = l]

Init ==
  /\ state = CONSTRUCTION_NOT_YET_STARTED
  /\ pc = [t \in Threads |-> "idle"]

Call(t) ==
  /\ pc[t] = "idle"
  /\ Goto(t, "loop")
  /\ UNCHANGED state

(***************************************************************************)
(* A faulty variant that lets a thread construct that finds a waiter's     *)
(* mark.                                                                   *)
(***************************************************************************)
AcquireConstructs(t) ==
  /\ pc[t] = "loop"
  /\ state # CONSTRUCTION_COMPLETE
  /\ state' = CONSTRUCTION_UNDERWAY_WITHOUT_WAITER
  /\ Goto(t, "construct")

(***************************************************************************)
(* One round of the loop of __cxa_guard_acquire: a load, and the           *)
(* compare-and-swap that expects what was loaded.                          *)
(***************************************************************************)
Acquire(t) ==
  /\ pc[t] = "loop"
  /\ \/ /\ state = CONSTRUCTION_COMPLETE
        /\ Goto(t, "ready")
        /\ UNCHANGED state
     \/ /\ state = CONSTRUCTION_NOT_YET_STARTED
        /\ state' = CONSTRUCTION_UNDERWAY_WITHOUT_WAITER
        /\ Goto(t, "construct")
     \/ /\ state \in {CONSTRUCTION_UNDERWAY_WITHOUT_WAITER,
                      CONSTRUCTION_UNDERWAY_WITH_WAITER}
        /\ state' = CONSTRUCTION_UNDERWAY_WITH_WAITER
        /\ Goto(t, "wait")

FutexWait(t) ==
  /\ pc[t] = "wait"
  /\ Goto(t, IF state = CONSTRUCTION_UNDERWAY_WITH_WAITER
               THEN "asleep" ELSE "loop")
  /\ UNCHANGED state

Interrupt(t) ==
  /\ pc[t] = "asleep"
  /\ Goto(t, "loop")
  /\ UNCHANGED state

(***************************************************************************)
(* A faulty variant that never wakes.                                      *)
(***************************************************************************)
ReleaseSilently(t) ==
  /\ pc[t] = "construct"
  /\ state' = CONSTRUCTION_COMPLETE
  /\ Goto(t, "ready")

(***************************************************************************)
(* __cxa_guard_release after a constructor that succeeded.                 *)
(***************************************************************************)
Release(t) ==
  /\ pc[t] = "construct"
  /\ state' = CONSTRUCTION_COMPLETE
  /\ Goto(t, IF state = CONSTRUCTION_UNDERWAY_WITH_WAITER
               THEN "wakedone" ELSE "ready")

(***************************************************************************)
(* __cxa_guard_abort after a constructor that threw.                       *)
(***************************************************************************)
Abort(t) ==
  /\ pc[t] = "construct"
  /\ state' = CONSTRUCTION_NOT_YET_STARTED
  /\ Goto(t, IF state = CONSTRUCTION_UNDERWAY_WITH_WAITER
               THEN "wakeabort" ELSE "idle")

Wake(t) ==
  /\ pc[t] \in {"wakedone", "wakeabort"}
  /\ \E woken \in WakeAll(At("asleep")) :
       pc' = [u \in Threads |->
                IF u = t THEN IF pc[t] = "wakedone" THEN "ready" ELSE "idle"
                ELSE IF u \in woken THEN "loop"
                ELSE pc[u]]
  /\ UNCHANGED state

(***************************************************************************)
(* The constructor returns or throws.                                      *)
(***************************************************************************)
Construct(t) == Release(t) \/ Abort(t)

Progress(t) == Acquire(t) \/ FutexWait(t) \/ Construct(t) \/ Wake(t)

Done == \A t \in Threads : pc[t] = "ready"

Next ==
  \/ \E t \in Threads : Call(t) \/ Progress(t) \/ Interrupt(t)
  \/ Done /\ UNCHANGED vars

Spec == Init /\ [][Next]_vars

(***************************************************************************)
(* Calls go on and constructors end, but the ones that throw may do so     *)
(* again and again.                                                        *)
(***************************************************************************)
FairSpec == Spec /\ \A t \in Threads : WF_vars(Progress(t))

-----------------------------------------------------------------------------
TypeOK ==
  /\ state \in {CONSTRUCTION_NOT_YET_STARTED, CONSTRUCTION_COMPLETE,
                CONSTRUCTION_UNDERWAY_WITHOUT_WAITER,
                CONSTRUCTION_UNDERWAY_WITH_WAITER}
  /\ pc \in [Threads -> Locations]

(***************************************************************************)
(* A constructor is run by one thread at a time, and the guard says        *)
(* "underway" exactly while one runs it.                                   *)
(***************************************************************************)
OneConstructor ==
  /\ \A t, u \in At("construct") : t = u
  /\ At("construct") # {} <=>
       state \in {CONSTRUCTION_UNDERWAY_WITHOUT_WAITER,
                  CONSTRUCTION_UNDERWAY_WITH_WAITER}

(***************************************************************************)
(* Nobody uses the object unless it is complete.                           *)
(***************************************************************************)
UsedOnlyWhenComplete ==
  At("ready") \union At("wakedone") # {} => state = CONSTRUCTION_COMPLETE

(***************************************************************************)
(* Every sleeper is covered: the constructor that runs knows of a waiter,  *)
(* or somebody is about to wake all sleepers, be it for an older run of    *)
(* the constructor that threw.                                             *)
(***************************************************************************)
NoLostWakeup ==
  At("asleep") # {} =>
    \/ state = CONSTRUCTION_UNDERWAY_WITH_WAITER
    \/ At("wakedone") \union At("wakeabort") # {}

Inv == TypeOK /\ OneConstructor /\ UsedOnlyWhenComplete /\ NoLostWakeup

(***************************************************************************)
(* A sleeper does not sleep forever: constructors end, and their end,      *)
(* also the one by an exception, reaches every sleeper.                    *)
(***************************************************************************)
SleepersWake == \A t \in Threads : []<>(pc[t] # "asleep")

(***************************************************************************)
(* The thread that runs the constructor.                                   *)
(***************************************************************************)
Runner ==
  IF At("construct") # {} THEN CHOOSE t \in Threads : pc[t] = "construct"
  ELSE NoThread

Abstract ==
  INSTANCE AbstractOnce
    WITH runner <- Runner,
         done <- state = CONSTRUCTION_COMPLETE,
         returned <- At("ready") \union At("wakedone")

(***************************************************************************)
(* Guards implement one-time initialization: __cxa_guard_acquire returns 1 *)
(* to one thread at a time and 0 only after a release.                     *)
(***************************************************************************)
ImplementsAbstractOnce == Abstract!Spec
=============================================================================
