------------------------- MODULE FutexObjectsProofs -------------------------
(***************************************************************************)
(* Proofs about the objects of FutexObjects, each for every set of threads *)
(* and every value of the other parameters: the inductive invariant of     *)
(* each object, what follows from it, and that the internal lock and the   *)
(* mutex implement AbstractLock, the guard and the once control            *)
(* AbstractOnce.                                                           *)
(***************************************************************************)
EXTENDS FutexObjects, TLAPS

-----------------------------------------------------------------------------
(*  The internal lock (BionicLock).                                        *)

(***************************************************************************)
(* An initialised lock satisfies the inductive invariant.                  *)
(***************************************************************************)
LEMMA LockInitInv == Lock!Init => Lock!Inv
BY DEF Lock!Init, Lock!Inv, Lock!TypeOK, Lock!MutualExclusion, Lock!StateAgrees, Lock!NoLostWakeup,
       Lock!At, Lock!Locations, Lock!Unlocked

(***************************************************************************)
(* Every atomic access and futex call of lock(), trylock() and unlock()    *)
(* preserves the inductive invariant.                                      *)
(***************************************************************************)
LEMMA LockNextInv == Lock!Inv /\ [Lock!Next]_(Lock!vars) => Lock!Inv'
<1> SUFFICES ASSUME Lock!Inv, [Lock!Next]_(Lock!vars) PROVE Lock!Inv'
  OBVIOUS
<1> USE DEF Lock!Inv, Lock!TypeOK, Lock!MutualExclusion, Lock!StateAgrees, Lock!NoLostWakeup,
            Lock!At, Lock!Locations, Lock!Unlocked, Lock!LockedWithoutWaiter, Lock!LockedWithWaiter
<1>1. ASSUME NEW t \in Threads, Lock!TryLock(t) PROVE Lock!Inv'
  BY <1>1 DEF Lock!TryLock, Lock!Goto
<1>2. ASSUME NEW t \in Threads, Lock!LockSlow(t) PROVE Lock!Inv'
  BY <1>2 DEF Lock!LockSlow, Lock!Goto
<1>3. ASSUME NEW t \in Threads, Lock!Exchange(t) PROVE Lock!Inv'
  BY <1>3 DEF Lock!Exchange, Lock!Goto
<1>4. ASSUME NEW t \in Threads, Lock!FutexWait(t) PROVE Lock!Inv'
  BY <1>4 DEF Lock!FutexWait, Lock!Goto
<1>5. ASSUME NEW t \in Threads, Lock!Interrupt(t) PROVE Lock!Inv'
  BY <1>5 DEF Lock!Interrupt, Lock!Goto
<1>6. ASSUME NEW t \in Threads, Lock!Unlock(t) PROVE Lock!Inv'
  BY <1>6 DEF Lock!Unlock, Lock!Goto
<1>7. ASSUME NEW t \in Threads, Lock!Wake(t) PROVE Lock!Inv'
  BY <1>7 DEF Lock!Wake, Lock!WakeOne
<1>8. CASE UNCHANGED Lock!vars
  BY <1>8 DEF Lock!vars
<1>9. QED
  BY <1>1, <1>2, <1>3, <1>4, <1>5, <1>6, <1>7, <1>8 DEF Lock!Next, Lock!Progress

(***************************************************************************)
(* The invariant holds in every reachable state.                           *)
(***************************************************************************)
THEOREM LockInvariant == Lock!Spec => []Lock!Inv
BY LockInitInv, LockNextInv, PTL DEF Lock!Spec

(***************************************************************************)
(* No two threads are ever past lock() or trylock() together.              *)
(***************************************************************************)
THEOREM LockMutualExclusion == Lock!Spec => []Lock!MutualExclusion
BY LockInvariant, PTL DEF Lock!Inv

(***************************************************************************)
(* A thread asleep in lock() is always covered by the LockedWithWaiter     *)
(* mark, by a wake on its way or by a thread about to write the mark.      *)
(***************************************************************************)
THEOREM LockNoLostWakeup == Lock!Spec => []Lock!NoLostWakeup
BY LockInvariant, PTL DEF Lock!Inv

-----------------------------------------------------------------------------
(***************************************************************************)
(* The abstract owner is the thread at "held", if there is one.            *)
(***************************************************************************)
LEMMA LockOwnerHolds ==
  ASSUME Lock!Inv, NEW t \in Threads
  PROVE  /\ lock_pc[t] = "held" => Lock!Owner = t
         /\ (\A u \in Threads : lock_pc[u] # "held") => Lock!Owner = NoThread
BY Zenon DEF Lock!Inv, Lock!MutualExclusion, Lock!Owner, Lock!At

(***************************************************************************)
(* The same for the next state.                                            *)
(***************************************************************************)
LEMMA LockOwnerHoldsNext ==
  ASSUME Lock!Inv', NEW t \in Threads
  PROVE  /\ lock_pc'[t] = "held" => Lock!Owner' = t
         /\ (\A u \in Threads : lock_pc'[u] # "held") => Lock!Owner' = NoThread
BY DEF Lock!Inv, Lock!MutualExclusion, Lock!Owner, Lock!At

(***************************************************************************)
(* A step that moves no thread into or out of "held" keeps the owner.      *)
(***************************************************************************)
LEMMA LockOwnerKept ==
  ASSUME Lock!Inv, Lock!Inv', \A u \in Threads : lock_pc[u] = "held" <=> lock_pc'[u] = "held"
  PROVE  Lock!Owner' = Lock!Owner
<1>1. CASE \E u \in Threads : lock_pc[u] = "held"
  BY <1>1, LockOwnerHolds, LockOwnerHoldsNext
<1>2. CASE \A u \in Threads : lock_pc[u] # "held"
  BY <1>2 DEF Lock!Owner, Lock!At
<1>3. QED
  BY <1>1, <1>2

(***************************************************************************)
(* Every step of lock(), trylock() and unlock() is an acquisition or a     *)
(* release of the abstract lock by its owner, or leaves the owner alone.   *)
(***************************************************************************)
LEMMA LockStepRefines ==
  ASSUME Lock!Inv, Lock!Inv', [Lock!Next]_(Lock!vars)
  PROVE  [Lock!Abstract!Next]_(Lock!Owner)
<1> USE DEF Lock!Inv, Lock!TypeOK, Lock!StateAgrees, Lock!Locations, Lock!At
<1>1. ASSUME NEW t \in Threads, lock_pc[t] # "held", lock_pc'[t] = "held",
             lock_state = Lock!Unlocked
      PROVE  Lock!Abstract!Acquire(t)
  BY <1>1, LockOwnerHolds, LockOwnerHoldsNext DEF Lock!Abstract!Acquire
<1>2. ASSUME NEW t \in Threads, Lock!TryLock(t) PROVE Lock!Abstract!Acquire(t)
  BY <1>1, <1>2 DEF Lock!TryLock, Lock!Goto
<1>3. ASSUME NEW t \in Threads, Lock!Exchange(t)
      PROVE  Lock!Abstract!Acquire(t) \/ Lock!Owner' = Lock!Owner
  <2>1. CASE lock_state = Lock!Unlocked
    BY <1>1, <1>3, <2>1 DEF Lock!Exchange, Lock!Goto
  <2>2. CASE lock_state # Lock!Unlocked
    BY <1>3, <2>2, LockOwnerKept DEF Lock!Exchange, Lock!Goto
  <2>3. QED
    BY <2>1, <2>2
<1>4. ASSUME NEW t \in Threads, Lock!Unlock(t) PROVE Lock!Abstract!Release(t)
  <2>1. \A u \in Threads : lock_pc'[u] # "held"
    BY <1>4 DEF Lock!Unlock, Lock!Goto, Lock!MutualExclusion
  <2>2. QED
    BY <1>4, <2>1, LockOwnerHolds, LockOwnerHoldsNext DEF Lock!Unlock, Lock!Abstract!Release
<1>5. ASSUME NEW t \in Threads, Lock!LockSlow(t) \/ Lock!FutexWait(t) \/ Lock!Interrupt(t)
      PROVE  Lock!Owner' = Lock!Owner
  BY <1>5, LockOwnerKept DEF Lock!LockSlow, Lock!FutexWait, Lock!Interrupt, Lock!Goto
<1>6. ASSUME NEW t \in Threads, Lock!Wake(t) PROVE Lock!Owner' = Lock!Owner
  <2>1. \A u \in Threads : lock_pc[u] = "held" <=> lock_pc'[u] = "held"
    BY <1>6 DEF Lock!Wake, Lock!WakeOne
  <2>2. QED
    BY <2>1, LockOwnerKept
<1>7. CASE UNCHANGED Lock!vars
  BY <1>7, LockOwnerKept DEF Lock!vars
<1>8. QED
  BY <1>2, <1>3, <1>4, <1>5, <1>6, <1>7 DEF Lock!Next, Lock!Progress, Lock!Abstract!Next

(***************************************************************************)
(* class Lock implements the abstract lock: lock() returns only to a       *)
(* thread that found it free, unlock() frees it, nothing else moves it.    *)
(***************************************************************************)
THEOREM LockImplementsAbstractLock == Lock!Spec => Lock!ImplementsAbstractLock
<1>1. Lock!Init => Lock!Abstract!Init
  BY DEF Lock!Init, Lock!Abstract!Init, Lock!Owner, Lock!At
<1>2. QED
  BY <1>1, LockInvariant, LockStepRefines, PTL
     DEF Lock!Spec, Lock!ImplementsAbstractLock, Lock!Abstract!Spec

-----------------------------------------------------------------------------
(*  A semaphore (Semaphore).                                               *)

(***************************************************************************)
(* sem_init establishes the inductive invariant.                           *)
(***************************************************************************)
LEMMA SemInitInv == Sem!Init => Sem!Inv
BY SemaphoreAssumption
   DEF Sem!Init, Sem!Inv, Sem!TypeOK, Sem!PermitsConserved, Sem!NoLostWakeup, Sem!At, Sem!Locations,
       Sem!GetValue

(***************************************************************************)
(* Every step of a wait or a post preserves it.                            *)
(***************************************************************************)
LEMMA SemNextInv == Sem!Inv /\ [Sem!Next]_(Sem!vars) => Sem!Inv'
<1> SUFFICES ASSUME Sem!Inv, [Sem!Next]_(Sem!vars) PROVE Sem!Inv'
  OBVIOUS
<1> USE SemaphoreAssumption
    DEF Sem!Inv, Sem!TypeOK, Sem!PermitsConserved, Sem!NoLostWakeup, Sem!At, Sem!Locations, Sem!GetValue
<1>1. ASSUME NEW t \in Threads, Sem!Wait(t) PROVE Sem!Inv'
  BY <1>1 DEF Sem!Wait, Sem!Goto
<1>2. ASSUME NEW t \in Threads, Sem!TryWait(t) PROVE Sem!Inv'
  BY <1>2 DEF Sem!TryWait
<1>3. ASSUME NEW t \in Threads, Sem!TimedWait(t) PROVE Sem!Inv'
  BY <1>3 DEF Sem!TimedWait, Sem!Goto
<1>4. ASSUME NEW t \in Threads, Sem!Post(t) PROVE Sem!Inv'
  BY <1>4 DEF Sem!Post, Sem!Goto
<1>5. ASSUME NEW t \in Threads, Sem!Dec(t) PROVE Sem!Inv'
  BY <1>5 DEF Sem!Dec, Sem!Goto
<1>6. ASSUME NEW t \in Threads, Sem!FutexWait(t) PROVE Sem!Inv'
  BY <1>6 DEF Sem!FutexWait, Sem!Goto
<1>7. ASSUME NEW t \in Threads, Sem!Wake(t) PROVE Sem!Inv'
  BY <1>7 DEF Sem!Wake, Sem!WakeAll
<1>8. ASSUME NEW t \in Threads, Sem!Interrupt(t) PROVE Sem!Inv'
  BY <1>8 DEF Sem!Interrupt, Sem!Goto
<1>9. ASSUME NEW t \in Threads, Sem!Timeout(t) PROVE Sem!Inv'
  BY <1>9 DEF Sem!Timeout, Sem!Goto
<1>10. CASE UNCHANGED Sem!vars
  BY <1>10 DEF Sem!vars
<1>11. QED
  BY <1>1, <1>2, <1>3, <1>4, <1>5, <1>6, <1>7, <1>8, <1>9, <1>10 DEF Sem!Next, Sem!Progress

(***************************************************************************)
(* The invariant holds in every reachable state.                           *)
(***************************************************************************)
THEOREM SemaphoreInvariant == Sem!Spec => []Sem!Inv
BY SemInitInv, SemNextInv, PTL DEF Sem!Spec

(***************************************************************************)
(* sem_getvalue always reports the initial value plus posts minus          *)
(* successful waits.                                                       *)
(***************************************************************************)
THEOREM SemaphorePermitsConserved == Sem!Spec => []Sem!PermitsConserved
BY SemaphoreInvariant, PTL DEF Sem!Inv

(***************************************************************************)
(* A sleeper always has the marker -1 in place or a wake of all sleepers   *)
(* on its way.                                                             *)
(***************************************************************************)
THEOREM SemaphoreNoLostWakeup == Sem!Spec => []Sem!NoLostWakeup
BY SemaphoreInvariant, PTL DEF Sem!Inv

-----------------------------------------------------------------------------
(*  The guard of a static variable (CxaGuard).                             *)

(***************************************************************************)
(* A zeroed guard satisfies the inductive invariant.                       *)
(***************************************************************************)
LEMMA GuardInitInv == Guard!Init => Guard!Inv
BY DEF Guard!Init, Guard!Inv, Guard!TypeOK, Guard!OneConstructor, Guard!UsedOnlyWhenComplete,
       Guard!NoLostWakeup, Guard!At, Guard!Locations, Guard!CONSTRUCTION_NOT_YET_STARTED,
       Guard!CONSTRUCTION_COMPLETE, Guard!CONSTRUCTION_UNDERWAY_WITHOUT_WAITER,
       Guard!CONSTRUCTION_UNDERWAY_WITH_WAITER

(***************************************************************************)
(* Every access to the guard in acquire, release and abort, and every      *)
(* futex call, preserves the inductive invariant.                          *)
(***************************************************************************)
LEMMA GuardNextInv == Guard!Inv /\ [Guard!Next]_(Guard!vars) => Guard!Inv'
<1> SUFFICES ASSUME Guard!Inv, [Guard!Next]_(Guard!vars) PROVE Guard!Inv'
  OBVIOUS
<1> USE DEF Guard!Inv, Guard!TypeOK, Guard!OneConstructor, Guard!UsedOnlyWhenComplete,
            Guard!NoLostWakeup, Guard!At, Guard!Locations, Guard!CONSTRUCTION_NOT_YET_STARTED,
            Guard!CONSTRUCTION_COMPLETE, Guard!CONSTRUCTION_UNDERWAY_WITHOUT_WAITER,
            Guard!CONSTRUCTION_UNDERWAY_WITH_WAITER
<1>1. ASSUME NEW t \in Threads, Guard!Call(t) PROVE Guard!Inv'
  BY <1>1 DEF Guard!Call, Guard!Goto
<1>2. ASSUME NEW t \in Threads, Guard!Acquire(t) PROVE Guard!Inv'
  BY <1>2 DEF Guard!Acquire, Guard!Goto
<1>3. ASSUME NEW t \in Threads, Guard!FutexWait(t) PROVE Guard!Inv'
  BY <1>3 DEF Guard!FutexWait, Guard!Goto
<1>4. ASSUME NEW t \in Threads, Guard!Interrupt(t) PROVE Guard!Inv'
  BY <1>4 DEF Guard!Interrupt, Guard!Goto
<1>5. ASSUME NEW t \in Threads, Guard!Release(t) PROVE Guard!Inv'
  BY <1>5 DEF Guard!Release, Guard!Goto
<1>6. ASSUME NEW t \in Threads, Guard!Abort(t) PROVE Guard!Inv'
  BY <1>6 DEF Guard!Abort, Guard!Goto
<1>7. ASSUME NEW t \in Threads, Guard!Wake(t) PROVE Guard!Inv'
  BY <1>7 DEF Guard!Wake, Guard!WakeAll
<1>8. CASE UNCHANGED Guard!vars
  BY <1>8 DEF Guard!vars
<1>9. QED
  BY <1>1, <1>2, <1>3, <1>4, <1>5, <1>6, <1>7, <1>8 DEF Guard!Next, Guard!Progress, Guard!Construct

(***************************************************************************)
(* The invariant holds in every reachable state.                           *)
(***************************************************************************)
THEOREM GuardInvariant == Guard!Spec => []Guard!Inv
BY GuardInitInv, GuardNextInv, PTL DEF Guard!Spec

(***************************************************************************)
(* acquire returns 1 to one thread at a time, until it releases or aborts. *)
(***************************************************************************)
THEOREM GuardOneConstructor == Guard!Spec => []Guard!OneConstructor
BY GuardInvariant, PTL DEF Guard!Inv

(***************************************************************************)
(* A thread asleep in acquire is covered by WITH_WAITER or by a pending    *)
(* wake of release or abort.                                               *)
(***************************************************************************)
THEOREM GuardNoLostWakeup == Guard!Spec => []Guard!NoLostWakeup
BY GuardInvariant, PTL DEF Guard!Inv

-----------------------------------------------------------------------------
(***************************************************************************)
(* The abstract runner is the thread at "construct", if there is one.      *)
(***************************************************************************)
LEMMA GuardRunnerConstructs ==
  ASSUME Guard!Inv, NEW t \in Threads
  PROVE  /\ guard_pc[t] = "construct" => Guard!Runner = t
         /\ (\A u \in Threads : guard_pc[u] # "construct") => Guard!Runner = NoThread
BY Zenon DEF Guard!Inv, Guard!OneConstructor, Guard!Runner, Guard!At

(***************************************************************************)
(* The same for the next state.                                            *)
(***************************************************************************)
LEMMA GuardRunnerConstructsNext ==
  ASSUME Guard!Inv', NEW t \in Threads
  PROVE  /\ guard_pc'[t] = "construct" => Guard!Runner' = t
         /\ (\A u \in Threads : guard_pc'[u] # "construct") => Guard!Runner' = NoThread
BY DEF Guard!Inv, Guard!OneConstructor, Guard!Runner, Guard!At

(***************************************************************************)
(* A step that moves no thread into or out of "construct" keeps the        *)
(* runner.                                                                 *)
(***************************************************************************)
LEMMA GuardRunnerKept ==
  ASSUME Guard!Inv, Guard!Inv',
         \A u \in Threads : guard_pc[u] = "construct" <=> guard_pc'[u] = "construct"
  PROVE  Guard!Runner' = Guard!Runner
<1>1. CASE \E u \in Threads : guard_pc[u] = "construct"
  BY <1>1, GuardRunnerConstructs, GuardRunnerConstructsNext
<1>2. CASE \A u \in Threads : guard_pc[u] # "construct"
  BY <1>2 DEF Guard!Runner, Guard!At
<1>3. QED
  BY <1>1, <1>2

(***************************************************************************)
(* Every step is a start, an end, a failure or a return of the abstract    *)
(* one-time initialization, or is invisible to it.                         *)
(***************************************************************************)
LEMMA GuardStepRefines ==
  ASSUME Guard!Inv, Guard!Inv', [Guard!Next]_(Guard!vars)
  PROVE  [Guard!Abstract!Next]_(Guard!Abstract!vars)
<1> DEFINE done == guard_state = Guard!CONSTRUCTION_COMPLETE
<1> DEFINE back == Guard!At("ready") \union Guard!At("wakedone")
<1> USE DEF Guard!Inv, Guard!TypeOK, Guard!OneConstructor, Guard!UsedOnlyWhenComplete,
            Guard!Locations, Guard!At, Guard!CONSTRUCTION_NOT_YET_STARTED,
            Guard!CONSTRUCTION_COMPLETE, Guard!CONSTRUCTION_UNDERWAY_WITHOUT_WAITER,
            Guard!CONSTRUCTION_UNDERWAY_WITH_WAITER
<1>1. ASSUME NEW t \in Threads, Guard!Call(t) \/ Guard!FutexWait(t) \/ Guard!Interrupt(t)
      PROVE  UNCHANGED Guard!Abstract!vars
  <2>1. Guard!Runner' = Guard!Runner
    BY <1>1, GuardRunnerKept DEF Guard!Call, Guard!FutexWait, Guard!Interrupt, Guard!Goto
  <2>2. done' = done /\ back' = back
    BY <1>1 DEF Guard!Call, Guard!FutexWait, Guard!Interrupt, Guard!Goto
  <2>3. QED
    BY <2>1, <2>2 DEF Guard!Abstract!vars
<1>2. ASSUME NEW t \in Threads, Guard!Acquire(t)
      PROVE  Guard!Abstract!Start(t) \/ Guard!Abstract!Return(t) \/ UNCHANGED Guard!Abstract!vars
  <2>1. CASE guard_state = Guard!CONSTRUCTION_COMPLETE
    <3>1. Guard!Runner' = Guard!Runner
      BY <1>2, <2>1, GuardRunnerKept DEF Guard!Acquire, Guard!Goto
    <3>2. done /\ done' /\ back' = back \union {t}
      BY <1>2, <2>1 DEF Guard!Acquire, Guard!Goto
    <3>3. QED
      BY <3>1, <3>2 DEF Guard!Abstract!Return
  <2>2. CASE guard_state = Guard!CONSTRUCTION_NOT_YET_STARTED
    <3>1. Guard!Runner = NoThread /\ Guard!Runner' = t
      BY <1>2, <2>2, GuardRunnerConstructs, GuardRunnerConstructsNext DEF Guard!Acquire, Guard!Goto
    <3>2. ~done /\ ~done' /\ back' = back
      BY <1>2, <2>2 DEF Guard!Acquire, Guard!Goto
    <3>3. QED
      BY <3>1, <3>2 DEF Guard!Abstract!Start
  <2>3. CASE guard_state \notin {Guard!CONSTRUCTION_COMPLETE, Guard!CONSTRUCTION_NOT_YET_STARTED}
    <3>1. Guard!Runner' = Guard!Runner
      BY <1>2, <2>3, GuardRunnerKept DEF Guard!Acquire, Guard!Goto
    <3>2. done' = done /\ back' = back
      BY <1>2, <2>3 DEF Guard!Acquire, Guard!Goto
    <3>3. QED
      BY <3>1, <3>2 DEF Guard!Abstract!vars
  <2>4. QED
    BY <2>1, <2>2, <2>3
<1>3. ASSUME NEW t \in Threads, Guard!Release(t) PROVE Guard!Abstract!Finish(t)
  <2>1. Guard!Runner = t /\ Guard!Runner' = NoThread
    BY <1>3, GuardRunnerConstructs, GuardRunnerConstructsNext DEF Guard!Release, Guard!Goto
  <2>2. done' /\ back' = back \union {t}
    BY <1>3 DEF Guard!Release, Guard!Goto
  <2>3. QED
    BY <2>1, <2>2 DEF Guard!Abstract!Finish
<1>4. ASSUME NEW t \in Threads, Guard!Abort(t) PROVE Guard!Abstract!Abort(t)
  <2>1. Guard!Runner = t /\ Guard!Runner' = NoThread
    BY <1>4, GuardRunnerConstructs, GuardRunnerConstructsNext DEF Guard!Abort, Guard!Goto
  <2>2. ~done /\ ~done' /\ back' = back
    BY <1>4 DEF Guard!Abort, Guard!Goto
  <2>3. QED
    BY <2>1, <2>2 DEF Guard!Abstract!Abort
<1>5. ASSUME NEW t \in Threads, Guard!Wake(t) PROVE UNCHANGED Guard!Abstract!vars
  <2>1. \A u \in Threads : guard_pc[u] = "construct" <=> guard_pc'[u] = "construct"
    BY <1>5 DEF Guard!Wake, Guard!WakeAll
  <2>2. Guard!Runner' = Guard!Runner
    BY <2>1, GuardRunnerKept
  <2>3. done' = done /\ back' = back
    BY <1>5 DEF Guard!Wake, Guard!WakeAll
  <2>4. QED
    BY <2>2, <2>3 DEF Guard!Abstract!vars
<1>6. CASE UNCHANGED Guard!vars
  <2>1. Guard!Runner' = Guard!Runner
    BY <1>6, GuardRunnerKept DEF Guard!vars
  <2>2. QED
    BY <1>6, <2>1 DEF Guard!vars, Guard!Abstract!vars
<1>7. QED
  BY <1>1, <1>2, <1>3, <1>4, <1>5, <1>6, SMTT(30)
     DEF Guard!Next, Guard!Progress, Guard!Construct, Guard!Abstract!Next

(***************************************************************************)
(* The guards implement one-time initialization, for any set of threads    *)
(* and any number of constructors that throw.                              *)
(***************************************************************************)
THEOREM GuardImplementsAbstractOnce == Guard!Spec => Guard!ImplementsAbstractOnce
<1>1. Guard!Init => Guard!Abstract!Init
  BY DEF Guard!Init, Guard!Abstract!Init, Guard!Runner, Guard!At,
         Guard!CONSTRUCTION_NOT_YET_STARTED, Guard!CONSTRUCTION_COMPLETE
<1>2. QED
  BY <1>1, GuardInvariant, GuardStepRefines, PTL
     DEF Guard!Spec, Guard!ImplementsAbstractOnce, Guard!Abstract!Spec

-----------------------------------------------------------------------------
(*  A once control (PthreadOnce).                                          *)

(***************************************************************************)
(* PTHREAD_ONCE_INIT satisfies the inductive invariant.                    *)
(***************************************************************************)
LEMMA OnceInitInv == Once!Init => Once!Inv
BY DEF Once!Init, Once!Inv, Once!TypeOK, Once!OneRoutine, Once!ReturnsOnlyWhenComplete, Once!At,
       Once!Locations, Once!ONCE_INITIALIZATION_NOT_YET_STARTED, Once!ONCE_INITIALIZATION_UNDERWAY,
       Once!ONCE_INITIALIZATION_COMPLETE

(***************************************************************************)
(* Every access of pthread_once to its control, and every futex call,      *)
(* preserves the inductive invariant.                                      *)
(***************************************************************************)
LEMMA OnceNextInv == Once!Inv /\ [Once!Next]_(Once!vars) => Once!Inv'
<1> SUFFICES ASSUME Once!Inv, [Once!Next]_(Once!vars) PROVE Once!Inv'
  OBVIOUS
<1> USE DEF Once!Inv, Once!TypeOK, Once!OneRoutine, Once!ReturnsOnlyWhenComplete, Once!At,
            Once!Locations, Once!ONCE_INITIALIZATION_NOT_YET_STARTED,
            Once!ONCE_INITIALIZATION_UNDERWAY, Once!ONCE_INITIALIZATION_COMPLETE
<1>1. ASSUME NEW t \in Threads, Once!Call(t) PROVE Once!Inv'
  BY <1>1 DEF Once!Call, Once!Goto
<1>2. ASSUME NEW t \in Threads, Once!Look(t) PROVE Once!Inv'
  BY <1>2 DEF Once!Look, Once!Goto
<1>3. ASSUME NEW t \in Threads, Once!FutexWait(t) PROVE Once!Inv'
  BY <1>3 DEF Once!FutexWait, Once!Goto
<1>4. ASSUME NEW t \in Threads, Once!Interrupt(t) PROVE Once!Inv'
  BY <1>4 DEF Once!Interrupt, Once!Goto
<1>5. ASSUME NEW t \in Threads, Once!Finish(t) PROVE Once!Inv'
  BY <1>5 DEF Once!Finish, Once!Goto
<1>6. ASSUME NEW t \in Threads, Once!Wake(t) PROVE Once!Inv'
  BY <1>6 DEF Once!Wake, Once!WakeAll
<1>7. CASE UNCHANGED Once!vars
  BY <1>7 DEF Once!vars
<1>8. QED
  BY <1>1, <1>2, <1>3, <1>4, <1>5, <1>6, <1>7 DEF Once!Next, Once!Progress

(***************************************************************************)
(* The invariant holds in every reachable state.                           *)
(***************************************************************************)
THEOREM OnceInvariant == Once!Spec => []Once!Inv
BY OnceInitInv, OnceNextInv, PTL DEF Once!Spec

-----------------------------------------------------------------------------
(***************************************************************************)
(* The abstract runner is the thread at "routine", if there is one.        *)
(***************************************************************************)
LEMMA OnceRunnerRuns ==
  ASSUME Once!Inv, NEW t \in Threads
  PROVE  /\ once_pc[t] = "routine" => Once!Runner = t
         /\ (\A u \in Threads : once_pc[u] # "routine") => Once!Runner = NoThread
BY Zenon DEF Once!Inv, Once!OneRoutine, Once!Runner, Once!At

(***************************************************************************)
(* The same for the next state.                                            *)
(***************************************************************************)
LEMMA OnceRunnerRunsNext ==
  ASSUME Once!Inv', NEW t \in Threads
  PROVE  /\ once_pc'[t] = "routine" => Once!Runner' = t
         /\ (\A u \in Threads : once_pc'[u] # "routine") => Once!Runner' = NoThread
BY DEF Once!Inv, Once!OneRoutine, Once!Runner, Once!At

(***************************************************************************)
(* A step that moves no thread into or out of "routine" keeps the runner.  *)
(***************************************************************************)
LEMMA OnceRunnerKept ==
  ASSUME Once!Inv, Once!Inv',
         \A u \in Threads : once_pc[u] = "routine" <=> once_pc'[u] = "routine"
  PROVE  Once!Runner' = Once!Runner
<1>1. CASE \E u \in Threads : once_pc[u] = "routine"
  BY <1>1, OnceRunnerRuns, OnceRunnerRunsNext
<1>2. CASE \A u \in Threads : once_pc[u] # "routine"
  BY <1>2 DEF Once!Runner, Once!At
<1>3. QED
  BY <1>1, <1>2

(***************************************************************************)
(* Every step is the start, the end or a return of the abstract one-time   *)
(* initialization, or is invisible to it.                                  *)
(***************************************************************************)
LEMMA OnceStepRefines ==
  ASSUME Once!Inv, Once!Inv', [Once!Next]_(Once!vars)
  PROVE  [Once!Abstract!Next]_(Once!Abstract!vars)
<1> DEFINE done == once_control = Once!ONCE_INITIALIZATION_COMPLETE
<1> DEFINE back == Once!At("ready") \union Once!At("wake")
<1> USE DEF Once!Inv, Once!TypeOK, Once!OneRoutine, Once!ReturnsOnlyWhenComplete, Once!Locations,
            Once!At, Once!ONCE_INITIALIZATION_NOT_YET_STARTED, Once!ONCE_INITIALIZATION_UNDERWAY,
            Once!ONCE_INITIALIZATION_COMPLETE
<1>1. ASSUME NEW t \in Threads, Once!Call(t) \/ Once!FutexWait(t) \/ Once!Interrupt(t)
      PROVE  UNCHANGED Once!Abstract!vars
  <2>1. Once!Runner' = Once!Runner
    BY <1>1, OnceRunnerKept DEF Once!Call, Once!FutexWait, Once!Interrupt, Once!Goto
  <2>2. done' = done /\ back' = back
    BY <1>1 DEF Once!Call, Once!FutexWait, Once!Interrupt, Once!Goto
  <2>3. QED
    BY <2>1, <2>2 DEF Once!Abstract!vars
<1>2. ASSUME NEW t \in Threads, Once!Look(t)
      PROVE  Once!Abstract!Start(t) \/ Once!Abstract!Return(t) \/ UNCHANGED Once!Abstract!vars
  <2>1. CASE once_control = Once!ONCE_INITIALIZATION_COMPLETE
    <3>1. Once!Runner' = Once!Runner
      BY <1>2, <2>1, OnceRunnerKept DEF Once!Look, Once!Goto
    <3>2. done /\ done' /\ back' = back \union {t}
      BY <1>2, <2>1 DEF Once!Look, Once!Goto
    <3>3. QED
      BY <3>1, <3>2 DEF Once!Abstract!Return
  <2>2. CASE once_control = Once!ONCE_INITIALIZATION_NOT_YET_STARTED
    <3>1. Once!Runner = NoThread /\ Once!Runner' = t
      BY <1>2, <2>2, OnceRunnerRuns, OnceRunnerRunsNext DEF Once!Look, Once!Goto
    <3>2. ~done /\ ~done' /\ back' = back
      BY <1>2, <2>2 DEF Once!Look, Once!Goto
    <3>3. QED
      BY <3>1, <3>2 DEF Once!Abstract!Start
  <2>3. CASE once_control = Once!ONCE_INITIALIZATION_UNDERWAY
    <3>1. Once!Runner' = Once!Runner
      BY <1>2, <2>3, OnceRunnerKept DEF Once!Look, Once!Goto
    <3>2. done' = done /\ back' = back
      BY <1>2, <2>3 DEF Once!Look, Once!Goto
    <3>3. QED
      BY <3>1, <3>2 DEF Once!Abstract!vars
  <2>4. QED
    BY <2>1, <2>2, <2>3
<1>3. ASSUME NEW t \in Threads, Once!Finish(t) PROVE Once!Abstract!Finish(t)
  <2>1. Once!Runner = t /\ Once!Runner' = NoThread
    BY <1>3, OnceRunnerRuns, OnceRunnerRunsNext DEF Once!Finish, Once!Goto
  <2>2. done' /\ back' = back \union {t}
    BY <1>3 DEF Once!Finish, Once!Goto
  <2>3. QED
    BY <2>1, <2>2 DEF Once!Abstract!Finish
<1>4. ASSUME NEW t \in Threads, Once!Wake(t) PROVE UNCHANGED Once!Abstract!vars
  <2>1. \A u \in Threads : once_pc[u] = "routine" <=> once_pc'[u] = "routine"
    BY <1>4 DEF Once!Wake, Once!WakeAll
  <2>2. Once!Runner' = Once!Runner
    BY <2>1, OnceRunnerKept
  <2>3. done' = done /\ back' = back
    BY <1>4 DEF Once!Wake, Once!WakeAll
  <2>4. QED
    BY <2>2, <2>3 DEF Once!Abstract!vars
<1>5. CASE UNCHANGED Once!vars
  <2>1. Once!Runner' = Once!Runner
    BY <1>5, OnceRunnerKept DEF Once!vars
  <2>2. QED
    BY <1>5, <2>1 DEF Once!vars, Once!Abstract!vars
<1>6. QED
  BY <1>1, <1>2, <1>3, <1>4, <1>5, SMTT(30) DEF Once!Next, Once!Progress, Once!Abstract!Next

(***************************************************************************)
(* pthread_once implements one-time initialization, for any set of         *)
(* threads.                                                                *)
(***************************************************************************)
THEOREM OnceImplementsAbstractOnce == Once!Spec => Once!ImplementsAbstractOnce
<1>1. Once!Init => Once!Abstract!Init
  BY DEF Once!Init, Once!Abstract!Init, Once!Runner, Once!At,
         Once!ONCE_INITIALIZATION_NOT_YET_STARTED, Once!ONCE_INITIALIZATION_COMPLETE
<1>2. QED
  BY <1>1, OnceInvariant, OnceStepRefines, PTL
     DEF Once!Spec, Once!ImplementsAbstractOnce, Once!Abstract!Spec

-----------------------------------------------------------------------------
(*  A mutex of any type (PthreadMutex), used by the threads in Few.        *)

(***************************************************************************)
(* What is assumed of all threads holds for those that use the mutex.      *)
(***************************************************************************)
LEMMA MutexUse == NoThread \notin Few /\ MaxCounter \in Nat
BY ActorsAssumption, MutexAssumption, FewAssumption

(***************************************************************************)
(* An initialised mutex satisfies the inductive invariant.                 *)
(***************************************************************************)
LEMMA MutexInitInv == Mutex!Init => Mutex!Inv
BY MutexUse
   DEF Mutex!Init, Mutex!Inv, Mutex!TypeOK, Mutex!MutualExclusion, Mutex!OwnerExact,
       Mutex!CounterExact, Mutex!NobodyOrphaned, Mutex!LocationsAgree, Mutex!At, Mutex!Locations,
       Mutex!OwnerLocations, Mutex!Types, Mutex!NothingSaved, Mutex!Unlocked, Mutex!Uncontended,
       Mutex!Contended, Mutex!Destroyed

(***************************************************************************)
(* Every access to the mutex word or to owner_tid, and every futex call,   *)
(* preserves the inductive invariant.                                      *)
(***************************************************************************)
LEMMA MutexNextInv == Mutex!Inv /\ [Mutex!Next]_(Mutex!vars) => Mutex!Inv'
<1> SUFFICES ASSUME Mutex!Inv, [Mutex!Next]_(Mutex!vars) PROVE Mutex!Inv'
  OBVIOUS
<1> USE MutexUse
    DEF Mutex!Inv, Mutex!TypeOK, Mutex!MutualExclusion, Mutex!OwnerExact, Mutex!CounterExact,
        Mutex!NobodyOrphaned, Mutex!LocationsAgree, Mutex!At, Mutex!Locations, Mutex!OwnerLocations,
          Mutex!Types,
        Mutex!NothingSaved, Mutex!Unlocked, Mutex!Uncontended, Mutex!Contended, Mutex!Destroyed
<1>1. ASSUME NEW t \in Few, Mutex!TryLock(t) PROVE Mutex!Inv'
  BY <1>1, SMTT(30) DEF Mutex!TryLock, Mutex!Acquired, Mutex!Goto
<1>2. ASSUME NEW t \in Few, NEW d \in BOOLEAN, Mutex!LockSlow(t, d) PROVE Mutex!Inv'
  BY <1>2, SMTT(30) DEF Mutex!LockSlow, Mutex!Goto, Mutex!word
<1>3. ASSUME NEW t \in Few, Mutex!LockAgain(t) PROVE Mutex!Inv'
  BY <1>3, SMTT(30) DEF Mutex!LockAgain
<1>4. ASSUME NEW t \in Few, Mutex!Loop(t) PROVE Mutex!Inv'
  BY <1>4, SMTT(30) DEF Mutex!Loop, Mutex!Acquired, Mutex!Goto
<1>5. ASSUME NEW t \in Few, Mutex!LoadOwner(t) PROVE Mutex!Inv'
  BY <1>5, SMTT(30) DEF Mutex!LoadOwner, Mutex!Goto, Mutex!word
<1>6. ASSUME NEW t \in Few, Mutex!FutexWait(t) PROVE Mutex!Inv'
  BY <1>6, SMTT(30) DEF Mutex!FutexWait, Mutex!Goto, Mutex!word
<1>7. ASSUME NEW t \in Few, Mutex!Interrupt(t) PROVE Mutex!Inv'
  BY <1>7, SMTT(30) DEF Mutex!Interrupt, Mutex!Goto, Mutex!word
<1>8. ASSUME NEW t \in Few, Mutex!Timeout(t) PROVE Mutex!Inv'
  BY <1>8, SMTT(30) DEF Mutex!Timeout, Mutex!Goto, Mutex!word
<1>9. ASSUME NEW t \in Few, Mutex!SetOwner(t) PROVE Mutex!Inv'
  BY <1>9, SMTT(30) DEF Mutex!SetOwner, Mutex!Goto
<1>10. ASSUME NEW t \in Few, Mutex!UnlockOnce(t) PROVE Mutex!Inv'
  BY <1>10, SMTT(30) DEF Mutex!UnlockOnce
<1>11. ASSUME NEW t \in Few, Mutex!ClearOwner(t) PROVE Mutex!Inv'
  BY <1>11, SMTT(30) DEF Mutex!ClearOwner, Mutex!Goto
<1>12. ASSUME NEW t \in Few, Mutex!Unlock(t) PROVE Mutex!Inv'
  BY <1>12, SMTT(30) DEF Mutex!Unlock, Mutex!Goto
<1>13. ASSUME NEW t \in Few, Mutex!Wake(t) PROVE Mutex!Inv'
  <2>1. PICK woken \in Mutex!WakeOne(Mutex!At("asleep")) :
          mutex_pc' = [u \in Few |-> IF u = t THEN "idle" ELSE IF u \in woken THEN "loop"
            ELSE mutex_pc[u]]
    BY <1>13, Zenon DEF Mutex!Wake
  <2>2. woken \subseteq Mutex!At("asleep") /\ (woken = {} => Mutex!At("asleep") = {})
    BY SMTT(30) DEF Mutex!WakeOne
  <2>3. mutex_pc[t] = "wake"
          /\ UNCHANGED <<mutex_lp64, mutex_type, Mutex!word, mutex_saved, mutex_timed, mutex_depth>>
    BY <1>13, SMTT(30) DEF Mutex!Wake
  <2>4. QED
    BY <2>1, <2>2, <2>3, SMTT(30) DEF Mutex!word
<1>14. ASSUME NEW t \in Few, Mutex!Destroy(t) PROVE Mutex!Inv'
  BY <1>14, SMTT(30) DEF Mutex!Destroy
<1>15. ASSUME NEW t \in Few, Mutex!Reinit(t) PROVE Mutex!Inv'
  BY <1>15 DEF Mutex!Reinit
<1>16. CASE UNCHANGED Mutex!vars
  BY <1>16 DEF Mutex!vars, Mutex!word
<1>17. QED
  BY <1>1, <1>2, <1>3, <1>4, <1>5, <1>6, <1>7, <1>8, <1>9, <1>10, <1>11,
     <1>12, <1>13, <1>14, <1>15, <1>16, ZenonT(30) DEF Mutex!Next, Mutex!Progress

(***************************************************************************)
(* The invariant holds in every reachable state.                           *)
(***************************************************************************)
THEOREM MutexInvariant == Mutex!Spec => []Mutex!Inv
BY MutexInitInv, MutexNextInv, PTL DEF Mutex!Spec

(***************************************************************************)
(* One thread at a time holds a mutex, and the lock field says so.         *)
(***************************************************************************)
THEOREM MutexMutualExclusion == Mutex!Spec => []Mutex!MutualExclusion
BY MutexInvariant, PTL DEF Mutex!Inv

(***************************************************************************)
(* owner_tid names the thread that holds a recursive or errorcheck mutex,  *)
(* and nobody else.                                                        *)
(***************************************************************************)
THEOREM MutexOwnerExact == Mutex!Spec => []Mutex!OwnerExact
BY MutexInvariant, PTL DEF Mutex!Inv

(***************************************************************************)
(* The counter field is the holder's locks minus unlocks, less one.        *)
(***************************************************************************)
THEOREM MutexCounterExact == Mutex!Spec => []Mutex!CounterExact
BY MutexInvariant, PTL DEF Mutex!Inv

(***************************************************************************)
(* Owner and counter together tell who holds a mutex and how often, which  *)
(* is what unlock and the error checks go by.                              *)
(***************************************************************************)
THEOREM MutexFieldsExact == Mutex!Spec => []Mutex!FieldsExact
BY MutexOwnerExact, MutexCounterExact, PTL DEF Mutex!FieldsExact

(***************************************************************************)
(* "Nobody is orphaned on the wait queue."                                 *)
(***************************************************************************)
THEOREM MutexNobodyOrphaned == Mutex!Spec => []Mutex!NobodyOrphaned
BY MutexInvariant, PTL DEF Mutex!Inv

-----------------------------------------------------------------------------
(***************************************************************************)
(* The abstract owner is the thread at an owner's location, if any.        *)
(***************************************************************************)
LEMMA MutexOwnerHolds ==
  ASSUME Mutex!Inv, NEW t \in Few
  PROVE  /\ mutex_pc[t] \in Mutex!OwnerLocations => Mutex!Owner = t
         /\ mutex_lock \notin {Mutex!Uncontended, Mutex!Contended} => Mutex!Owner = NoThread
BY DEF Mutex!Inv, Mutex!MutualExclusion, Mutex!Owner

(***************************************************************************)
(* The same for the next state.                                            *)
(***************************************************************************)
LEMMA MutexOwnerHoldsNext ==
  ASSUME Mutex!Inv', NEW t \in Few
  PROVE  /\ mutex_pc'[t] \in Mutex!OwnerLocations => Mutex!Owner' = t
         /\ mutex_lock' \notin {Mutex!Uncontended, Mutex!Contended} => Mutex!Owner' = NoThread
BY DEF Mutex!Inv, Mutex!MutualExclusion, Mutex!Owner

(***************************************************************************)
(* A step that moves no thread into or out of the owner's locations keeps  *)
(* the owner.                                                              *)
(***************************************************************************)
LEMMA MutexOwnerKept ==
  ASSUME Mutex!Inv, Mutex!Inv',
         \A u \in Few : mutex_pc[u] \in Mutex!OwnerLocations <=> mutex_pc'[u] \in Mutex!OwnerLocations
  PROVE  Mutex!Owner' = Mutex!Owner
<1>1. CASE \E u \in Few : mutex_pc[u] \in Mutex!OwnerLocations
  BY <1>1, MutexOwnerHolds, MutexOwnerHoldsNext, SMTT(30)
<1>2. CASE \A u \in Few : mutex_pc[u] \notin Mutex!OwnerLocations
  BY <1>2, SMTT(30) DEF Mutex!Owner
<1>3. QED
  BY <1>1, <1>2

(***************************************************************************)
(* Every step is an acquisition or a release of the abstract lock by its   *)
(* owner, or leaves the owner alone.                                       *)
(***************************************************************************)
LEMMA MutexStepRefines ==
  ASSUME Mutex!Inv, Mutex!Inv', [Mutex!Next]_(Mutex!vars)
  PROVE  [Mutex!Abstract!Next]_(Mutex!Owner)
<1> USE DEF Mutex!Inv, Mutex!TypeOK, Mutex!Locations, Mutex!OwnerLocations, Mutex!At,
            Mutex!Unlocked, Mutex!Uncontended, Mutex!Contended, Mutex!Destroyed
<1>1. ASSUME NEW t \in Few, mutex_pc'[t] \in Mutex!OwnerLocations, mutex_lock = Mutex!Unlocked
      PROVE  Mutex!Abstract!Acquire(t)
  BY <1>1, MutexOwnerHolds, MutexOwnerHoldsNext, SMTT(30) DEF Mutex!Abstract!Acquire
<1>2. ASSUME NEW t \in Few, Mutex!TryLock(t) PROVE Mutex!Abstract!Acquire(t)
  BY <1>1, <1>2, SMTT(30) DEF Mutex!TryLock, Mutex!Acquired, Mutex!Goto
<1>3. ASSUME NEW t \in Few, Mutex!Loop(t)
      PROVE  Mutex!Abstract!Acquire(t) \/ Mutex!Owner' = Mutex!Owner
  <2>1. CASE mutex_lock = Mutex!Unlocked
    BY <1>1, <1>3, <2>1, SMTT(30) DEF Mutex!Loop, Mutex!Acquired, Mutex!Goto
  <2>2. CASE mutex_lock # Mutex!Unlocked
    BY <1>3, <2>2, MutexOwnerKept, SMTT(30) DEF Mutex!Loop, Mutex!Goto
  <2>3. QED
    BY <2>1, <2>2, SMTT(30)
<1>4. ASSUME NEW t \in Few, Mutex!Unlock(t) PROVE Mutex!Abstract!Release(t)
  BY <1>4, MutexOwnerHolds, MutexOwnerHoldsNext, SMTT(30) DEF Mutex!Unlock, Mutex!Abstract!Release
<1>5. ASSUME NEW t \in Few,
             \/ \E d \in BOOLEAN : Mutex!LockSlow(t, d)
             \/ Mutex!LoadOwner(t) \/ Mutex!FutexWait(t) \/ Mutex!Interrupt(t) \/ Mutex!Timeout(t)
             \/ Mutex!SetOwner(t) \/ Mutex!ClearOwner(t)
      PROVE  Mutex!Owner' = Mutex!Owner
  BY <1>5, MutexOwnerKept, SMTT(30)
     DEF Mutex!LockSlow, Mutex!LoadOwner, Mutex!FutexWait, Mutex!Interrupt, Mutex!Timeout,
         Mutex!SetOwner, Mutex!ClearOwner, Mutex!Goto
<1>6. ASSUME NEW t \in Few,
             Mutex!LockAgain(t) \/ Mutex!UnlockOnce(t) \/ Mutex!Destroy(t) \/ Mutex!Reinit(t)
      PROVE  Mutex!Owner' = Mutex!Owner
  BY <1>6, MutexOwnerKept, SMTT(30) DEF Mutex!LockAgain, Mutex!UnlockOnce, Mutex!Destroy, Mutex!Reinit
<1>7. ASSUME NEW t \in Few, Mutex!Wake(t) PROVE Mutex!Owner' = Mutex!Owner
  <2>1. \A u \in Few : mutex_pc[u] \in Mutex!OwnerLocations <=> mutex_pc'[u] \in Mutex!OwnerLocations
    BY <1>7, SMTT(30) DEF Mutex!Wake, Mutex!WakeOne
  <2>2. QED
    BY <2>1, MutexOwnerKept, SMTT(30)
<1>8. CASE UNCHANGED Mutex!vars
  BY <1>8, MutexOwnerKept, SMTT(30) DEF Mutex!vars
<1>9. QED
  BY <1>2, <1>3, <1>4, <1>5, <1>6, <1>7, <1>8, SMTT(30) DEF Mutex!Next, Mutex!Progress, Mutex!Abstract!Next

(***************************************************************************)
(* A mutex implements the abstract lock through recursion, deadlines,      *)
(* destruction and reuse.                                                  *)
(***************************************************************************)
THEOREM MutexImplementsAbstractLock == Mutex!Spec => Mutex!ImplementsAbstractLock
<1>1. Mutex!Init => Mutex!Abstract!Init
  BY DEF Mutex!Init, Mutex!Abstract!Init, Mutex!Owner, Mutex!OwnerLocations
<1>2. QED
  BY <1>1, MutexInvariant, MutexStepRefines, PTL
     DEF Mutex!Spec, Mutex!ImplementsAbstractLock, Mutex!Abstract!Spec

-----------------------------------------------------------------------------
(*  The properties of FutexObjects.                                        *)

(***************************************************************************)
(* No permit of a semaphore is lost or invented, for every limit, initial  *)
(* value and number of threads.                                            *)
(***************************************************************************)
THEOREM EveryPermitConserved == Sem!Spec => []PermitsConserved
BY SemaphorePermitsConserved, PTL DEF PermitsConserved

(***************************************************************************)
(* A sleeper on a lock, a semaphore or a guard is covered by the mark in   *)
(* the word or by a wake on its way, for every set of threads.             *)
(***************************************************************************)
THEOREM NoWakeupLost == Lock!Spec /\ Sem!Spec /\ Guard!Spec => []NoLostWakeup
BY LockNoLostWakeup, SemaphoreNoLostWakeup, GuardNoLostWakeup, PTL DEF NoLostWakeup

(***************************************************************************)
(* owner_tid and the counter of a mutex tell exactly who holds it and how  *)
(* often, for every set of threads, every type and every limit of the      *)
(* counter.                                                                *)
(***************************************************************************)
THEOREM MutexFieldsAlwaysExact == Mutex!Spec => []FieldsExact
BY MutexFieldsExact, PTL DEF FieldsExact

(***************************************************************************)
(* Nobody is orphaned on the wait queue of a mutex, for every set of       *)
(* threads, through deadlines, barging, destruction and reuse.             *)
(***************************************************************************)
THEOREM NobodyEverOrphaned == Mutex!Spec => []NobodyOrphaned
BY MutexNobodyOrphaned, PTL DEF NobodyOrphaned

(***************************************************************************)
(* The internal lock and the mutexes of every type implement the abstract  *)
(* lock, for every set of threads.                                         *)
(***************************************************************************)
THEOREM LocksImplementAbstractLock == Lock!Spec /\ Mutex!Spec => ImplementsAbstractLock
BY LockImplementsAbstractLock, MutexImplementsAbstractLock, PTL DEF ImplementsAbstractLock

(***************************************************************************)
(* Guards and once controls implement the abstract one-time                *)
(* initialization, for every set of threads.                               *)
(***************************************************************************)
THEOREM InitializersImplementAbstractOnce == Guard!Spec /\ Once!Spec => ImplementsAbstractOnce
BY GuardImplementsAbstractOnce, OnceImplementsAbstractOnce, PTL DEF ImplementsAbstractOnce
=============================================================================
