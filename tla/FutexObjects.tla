---------------------------- MODULE FutexObjects ----------------------------
(***************************************************************************)
(* The objects of libc that one thread has while the others wait for it    *)
(* with futex: the internal lock, a semaphore, the guard of a static       *)
(* variable, a once control and a mutex.  Each is an instance of its       *)
(* module, over variables of its own.                                      *)
(***************************************************************************)
EXTENDS Integers, Actors, SemaphoreParams, MutexParams

CONSTANT
  Few                            \* The threads that use the mutex.

ASSUME FewAssumption == Few \subseteq Threads

VARIABLES
  lock_state, lock_pc,
  sem_value, sem_pc, sem_timed, sem_posts, sem_takes,
  guard_state, guard_pc,
  once_control, once_pc,
  mutex_lp64, mutex_type, mutex_lock, mutex_counter, mutex_owner_tid, mutex_pc,
  mutex_saved, mutex_timed, mutex_depth

lock == <<lock_state, lock_pc>>
semaphore == <<sem_value, sem_pc, sem_timed, sem_posts, sem_takes>>
guard == <<guard_state, guard_pc>>
once == <<once_control, once_pc>>
mutex ==
  <<mutex_lp64, mutex_type, mutex_lock, mutex_counter, mutex_owner_tid,
    mutex_pc, mutex_saved, mutex_timed, mutex_depth>>

Lock == INSTANCE BionicLock WITH state <- lock_state, pc <- lock_pc
Sem == INSTANCE Semaphore
         WITH value <- sem_value, pc <- sem_pc, timed <- sem_timed,
              posts <- sem_posts, takes <- sem_takes
Guard == INSTANCE CxaGuard WITH state <- guard_state, pc <- guard_pc
Once == INSTANCE PthreadOnce WITH pc <- once_pc
Mutex == INSTANCE PthreadMutex
           WITH Threads <- Few, lp64 <- mutex_lp64, type <- mutex_type,
                lock <- mutex_lock, counter <- mutex_counter,
                owner_tid <- mutex_owner_tid, pc <- mutex_pc,
                saved <- mutex_saved, timed <- mutex_timed, depth <- mutex_depth

-----------------------------------------------------------------------------
(***************************************************************************)
(* The value of a semaphore is its initial value plus the posts minus the  *)
(* successful waits, whatever sleepers, deadlines and the marker -1 do.    *)
(***************************************************************************)
PermitsConserved == Sem!PermitsConserved

(***************************************************************************)
(* While a thread sleeps on a lock, a semaphore or a guard, the word tells *)
(* whoever frees it to wake someone, or somebody is on the way to do so.   *)
(***************************************************************************)
NoLostWakeup == Lock!NoLostWakeup /\ Sem!NoLostWakeup /\ Guard!NoLostWakeup

(***************************************************************************)
(* owner_tid of a recursive or errorcheck mutex names its holder, and the  *)
(* counter the extra locks it has to undo: across unlock, destroy and      *)
(* reuse, and at the limit of the 11 bits of the counter.                  *)
(***************************************************************************)
FieldsExact == Mutex!FieldsExact

(***************************************************************************)
(* A sleeper on a mutex is covered by the contended mark or by a wake that *)
(* is still to come, although barging, deadlines and reuse interfere.      *)
(***************************************************************************)
NobodyOrphaned == Mutex!NobodyOrphaned

(***************************************************************************)
(* The internal lock and the mutexes are locks: they have one owner at a   *)
(* time, who alone gives them up.                                          *)
(***************************************************************************)
ImplementsAbstractLock == Lock!ImplementsAbstractLock /\ Mutex!ImplementsAbstractLock

(***************************************************************************)
(* A guard and a once control initialise once: one attempt at a time, none *)
(* after a success, and nobody goes ahead before one has succeeded.        *)
(***************************************************************************)
ImplementsAbstractOnce == Guard!ImplementsAbstractOnce /\ Once!ImplementsAbstractOnce
=============================================================================
