---------------------------- MODULE WaitObjects ----------------------------
(***************************************************************************)
(* The objects of libc in which a thread waits for another one, those of   *)
(* FutexObjects and of MeetingObjects.  One run checks them side by side:  *)
(* a behaviour is a behaviour of one of them, the subject, while the       *)
(* others stay as they were initialised.                                   *)
(***************************************************************************)
EXTENDS FutexObjects, MeetingObjects

VARIABLE subject

vars == <<subject, lock, semaphore, guard, once, barrier, mutex, cache, timer>>

(***************************************************************************)
(* What is chosen for a mutex and for the hashes of the resolver is fixed  *)
(* where they are not the subject.                                         *)
(***************************************************************************)
Init ==
  /\ subject \in {"lock", "semaphore", "guard", "once", "barrier", "mutex", "cache", "timer"}
  /\ Lock!Init /\ Sem!Init /\ Guard!Init /\ Once!Init /\ Barrier!Init
  /\ Mutex!Init /\ Cache!Init /\ Timer!Init
  /\ subject # "mutex" => mutex_lp64 /\ mutex_type = "normal"
  /\ subject # "cache" => cache_hash = [q \in Queries |-> CHOOSE h \in Hashes : TRUE]

LockOnly == UNCHANGED <<subject, semaphore, guard, once, barrier, mutex, cache, timer>>
SemOnly == UNCHANGED <<subject, lock, guard, once, barrier, mutex, cache, timer>>
GuardOnly == UNCHANGED <<subject, lock, semaphore, once, barrier, mutex, cache, timer>>
OnceOnly == UNCHANGED <<subject, lock, semaphore, guard, barrier, mutex, cache, timer>>
BarrierOnly == UNCHANGED <<subject, lock, semaphore, guard, once, mutex, cache, timer>>
MutexOnly == UNCHANGED <<subject, lock, semaphore, guard, once, barrier, cache, timer>>
CacheOnly == UNCHANGED <<subject, lock, semaphore, guard, once, barrier, mutex, timer>>
TimerOnly == UNCHANGED <<subject, lock, semaphore, guard, once, barrier, mutex, cache>>

(***************************************************************************)
(* A barrier is used for so many cycles and destroyed, and a timer may be  *)
(* gone or have fired for the last time; nothing else may stop.            *)
(***************************************************************************)
Stops ==
  /\ \/ subject = "barrier" /\ \A t \in Threads : barrier_pc[t] = "idle"
     \/ subject = "timer" /\ (timer_timer = "freed" \/ timer_fires = MaxFires)
  /\ UNCHANGED vars

Next ==
  \/ subject = "lock" /\ Lock!Next /\ LockOnly
  \/ subject = "semaphore" /\ Sem!Next /\ SemOnly
  \/ subject = "guard" /\ Guard!Next /\ GuardOnly
  \/ subject = "once" /\ Once!Next /\ OnceOnly
  \/ subject = "barrier" /\ Barrier!Next /\ BarrierOnly
  \/ subject = "mutex" /\ Mutex!Next /\ MutexOnly
  \/ subject = "cache" /\ Cache!Next /\ CacheOnly
  \/ subject = "timer" /\ Timer!Next /\ TimerOnly
  \/ Stops

(***************************************************************************)
(* Each thread of the subject is scheduled; requests to name servers and   *)
(* callbacks of timers end.                                                *)
(***************************************************************************)
Progress(t) ==
  \/ subject = "lock" /\ Lock!Progress(t) /\ LockOnly
  \/ subject = "semaphore" /\ Sem!Progress(t) /\ SemOnly
  \/ subject = "guard" /\ Guard!Progress(t) /\ GuardOnly
  \/ subject = "once" /\ Once!Progress(t) /\ OnceOnly
  \/ subject = "barrier" /\ Barrier!Progress(t) /\ BarrierOnly
  \/ subject = "mutex" /\ t \in Few /\ Mutex!Progress(t) /\ MutexOnly
  \/ subject = "cache" /\ t \in Users /\ Cache!Proceed(t) /\ CacheOnly

FairSpec ==
  /\ Init /\ [][Next]_vars
  /\ \A t \in Threads : WF_vars(Progress(t))
  /\ WF_vars(subject = "timer" /\ Timer!Creates /\ TimerOnly)
  /\ WF_vars(subject = "timer" /\ Timer!Runs /\ TimerOnly)
  /\ WF_vars(subject = "timer" /\ Timer!Deletes /\ TimerOnly)

-----------------------------------------------------------------------------
(***************************************************************************)
(* Nobody sleeps forever on a lock or mutex that stays free, on a          *)
(* semaphore that keeps permits, on a guard whose constructor has ended,   *)
(* in pthread_once, or on a request that has ended.                        *)
(***************************************************************************)
NoForgottenSleeper ==
  /\ Lock!NoForgottenSleeper /\ Sem!NoForgottenSleeper /\ Mutex!NoForgottenSleeper
  /\ Guard!SleepersWake /\ Once!EveryCallReturns
  /\ Cache!WaitersResume

(***************************************************************************)
(* Everybody gets through all cycles of a barrier, although fast threads   *)
(* enter a cycle while slow ones leave the last, and its destruction       *)
(* returns.  A timer that could not be created, or has been deleted, is    *)
(* freed and its thread exits.                                             *)
(***************************************************************************)
CallsComplete ==
  /\ []<>(subject = "barrier" => Barrier!AllReturned)
  /\ Barrier!DestroyReturns
  /\ Timer!TimerIsFreed
=============================================================================
