----------------------------- MODULE BionicLock -----------------------------
(***************************************************************************)
(* class Lock of libc/private/bionic_lock.h: the three-state futex lock    *)
(* that protects the pending members of a pthread_rwlock_t, the PI mutex   *)
(* allocator, the start of a new thread and other libc internals.          *)
(*                                                                         *)
(* Every step below is one atomic access to Lock::state or one futex       *)
(* system call; the control state between two of them is pc.               *)
(***************************************************************************)
EXTENDS Integers, Futex, Actors

(***************************************************************************)
(* enum LockState.                                                         *)
(***************************************************************************)
Unlocked            == 0
LockedWithoutWaiter == 1
LockedWithWaiter    == 2

VARIABLES
  state,            \* Lock::state
  pc                \* Where each thread is inside lock() and unlock().

vars == <<state, pc>>

(***************************************************************************)
(* idle      does not hold the lock and is not in a call;                  *)
(* exchange  in lock(), about to run the atomic_exchange of the loop;      *)
(* wait      in lock(), about to enter futex_wait;                         *)
(* asleep    in lock(), sleeping in futex_wait;                            *)
(* held      lock() or trylock() has succeeded;                            *)
(* wake      in unlock(), about to enter futex_wake.                       *)
(***************************************************************************)
Locations == {"idle", "exchange", "wait", "asleep", "held", "wake"}

At(l) == {t \in Threads : pc[t] = l}

Goto(t, l) == pc' = [pc EXCEPT ![t] = l]

-----------------------------------------------------------------------------
Init ==
  /\ state = Unlocked
  /\ pc = [t \in Threads |-> "idle"]

(***************************************************************************)
(* trylock(): one compare-and-swap.                                        *)
(***************************************************************************)
TryLock(t) ==
  /\ pc[t] = "idle"
  /\ state = Unlocked
  /\ state' = LockedWithoutWaiter
  /\ Goto(t, "held")

(***************************************************************************)
(* lock(), its first compare-and-swap failing (when it succeeds the call   *)
(* is TryLock): go to the loop that announces a waiter.                    *)
(***************************************************************************)
LockSlow(t) ==
  /\ pc[t] = "idle"
  /\ state # Unlocked
  /\ Goto(t, "exchange")
  /\ UNCHANGED state

(***************************************************************************)
(* Faulty variants of the loop of lock(): no mark left by a thread that    *)
(* finds the lock free, and a test that takes LockedWithoutWaiter for      *)
(* success.                                                                *)
(***************************************************************************)
ExchangeUncontended(t) ==
  /\ pc[t] = "exchange"
  /\ state' = IF state = Unlocked THEN LockedWithoutWaiter ELSE LockedWithWaiter
  /\ Goto(t, IF state = Unlocked THEN "held" ELSE "wait")

ExchangeWrongTest(t) ==
  /\ pc[t] = "exchange"
  /\ state' = LockedWithWaiter
  /\ Goto(t, IF state # LockedWithWaiter THEN "held" ELSE "wait")

(***************************************************************************)
(* The loop condition of lock().  A thread that finds the lock free here   *)
(* still leaves LockedWithWaiter behind, since others may be asleep.       *)
(***************************************************************************)
Exchange(t) ==
  /\ pc[t] = "exchange"
  /\ state' = LockedWithWaiter
  /\ Goto(t, IF state = Unlocked THEN "held" ELSE "wait")

(***************************************************************************)
(* __futex_wait_ex(&state, process_shared, LockedWithWaiter): sleeps only  *)
(* if the word still has the expected value, otherwise returns EAGAIN.     *)
(***************************************************************************)
FutexWait(t) ==
  /\ pc[t] = "wait"
  /\ Goto(t, IF state = LockedWithWaiter THEN "asleep" ELSE "exchange")
  /\ UNCHANGED state

(***************************************************************************)
(* A signal or a stray wake ends the sleep; lock() ignores the result.     *)
(***************************************************************************)
Interrupt(t) ==
  /\ pc[t] = "asleep"
  /\ Goto(t, "exchange")
  /\ UNCHANGED state

(***************************************************************************)
(* A faulty variant of unlock() without the wake.                          *)
(***************************************************************************)
UnlockNoWake(t) ==
  /\ pc[t] = "held"
  /\ state' = Unlocked
  /\ Goto(t, "idle")

(***************************************************************************)
(* unlock(): the exchange that frees the lock ...                          *)
(***************************************************************************)
Unlock(t) ==
  /\ pc[t] = "held"
  /\ state' = Unlocked
  /\ Goto(t, IF state = LockedWithWaiter THEN "wake" ELSE "idle")

(***************************************************************************)
(* ... and the wake of one sleeper, which happens after other threads may  *)
(* have taken the lock, and which reads no field of the Lock.              *)
(***************************************************************************)
Wake(t) ==
  /\ pc[t] = "wake"
  /\ \E woken \in WakeOne(At("asleep")) :
       pc' = [u \in Threads |-> IF u = t THEN "idle"
                                ELSE IF u \in woken THEN "exchange"
                                ELSE pc[u]]
  /\ UNCHANGED state

-----------------------------------------------------------------------------
(***************************************************************************)
(* What a thread that is inside a call does next.  A holder calls unlock():*)
(* the critical sections of libc that use this class are short and finite. *)
(***************************************************************************)
Progress(t) ==
  \/ Exchange(t)
  \/ FutexWait(t)
  \/ Unlock(t)
  \/ Wake(t)

Next ==
  \E t \in Threads :
    \/ TryLock(t)
    \/ LockSlow(t)
    \/ Progress(t)
    \/ Interrupt(t)

Spec == Init /\ [][Next]_vars

FairSpec == Spec /\ \A t \in Threads : WF_vars(Progress(t))

-----------------------------------------------------------------------------
TypeOK ==
  /\ state \in {Unlocked, LockedWithoutWaiter, LockedWithWaiter}
  /\ pc \in [Threads -> Locations]

(***************************************************************************)
(* At most one thread is past lock() and not yet past the exchange of      *)
(* unlock(), although the exchange in lock() overwrites the state of a     *)
(* lock that another thread holds.                                         *)
(***************************************************************************)
MutualExclusion ==
  \A t, u \in Threads : pc[t] = "held" /\ pc[u] = "held" => t = u

(***************************************************************************)
(* The word says "unlocked" exactly when no thread holds the lock.         *)
(***************************************************************************)
StateAgrees == state = Unlocked <=> At("held") = {}

(***************************************************************************)
(* No sleeper is forgotten: while a thread sleeps in lock(), either the    *)
(* word tells the holder to wake someone, or a thread is about to call     *)
(* futex_wake, or a thread is about to write LockedWithWaiter.             *)
(***************************************************************************)
NoLostWakeup ==
  At("asleep") # {} =>
    \/ state = LockedWithWaiter
    \/ At("wake") # {}
    \/ At("exchange") # {}

(***************************************************************************)
(* The inductive invariant behind the three.                               *)
(***************************************************************************)
Inv == TypeOK /\ MutualExclusion /\ StateAgrees /\ NoLostWakeup

(***************************************************************************)
(* A thread does not sleep forever in lock() while the lock stays free.    *)
(***************************************************************************)
NoForgottenSleeper ==
  \A t \in Threads : []<>(pc[t] # "asleep" \/ At("held") # {})

-----------------------------------------------------------------------------
(***************************************************************************)
(* The lock implements an abstract lock whose only state is its owner.     *)
(***************************************************************************)
Owner == IF At("held") = {} THEN NoThread ELSE CHOOSE t \in Threads : pc[t] = "held"

Abstract == INSTANCE AbstractLock WITH owner <- Owner

ImplementsAbstractLock == Abstract!Spec
=============================================================================
