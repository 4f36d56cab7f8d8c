---------------------------- MODULE PthreadCond -----------------------------
(***************************************************************************)
(* Condition variables, libc/bionic/pthread_cond.cpp, used the way POSIX   *)
(* asks for: threads put items into and take items from a store under a    *)
(* mutex; one that came to take waits while the store is empty, and does   *)
(* not go away without an item while there is one; one that has put        *)
(* something signals or broadcasts, before or after it unlocks the mutex.  *)
(*                                                                         *)
(* The mutex is the abstract lock that PthreadMutex implements.  A wait    *)
(* with an invalid deadline returns at once and is a stuttering step.      *)
(***************************************************************************)
EXTENDS Integers, Futex, Actors

CONSTANTS
  WordSize,            \* Number of values of the state word: 2^32.
  MaxMissed,           \* Most pulses between a waiter's load and its wait.
  MaxItems             \* Bound on the store.

ASSUME CondAssumption ==
  /\ WordSize \in Nat /\ WordSize > 4 /\ WordSize % 4 = 0
  /\ MaxMissed \in Nat /\ 4 * MaxMissed < WordSize
  /\ MaxItems \in Nat \ {0}
  /\ IsFiniteSet(Threads)

(***************************************************************************)
(* The two low bits of the word are flags.                                 *)
(***************************************************************************)
COND_COUNTER_STEP == 4

VARIABLES
  lp64,                \* Whether the process is a 64-bit one.
  owner,               \* The holder of the mutex.
  items,
  state,               \* The condition variable: its word ...
  waiters,             \* ... and, in a 64-bit process, a count.
  pc,
  old_state,           \* The word each waiter has loaded,
  missed,              \* History: and the pulses since then;
  thread_count         \* how many sleepers each pulse wakes.

cond == <<state, waiters>>
locals == <<old_state, missed, thread_count>>
vars == <<lp64, owner, items, cond, pc, locals>>

Mutex == INSTANCE AbstractLock

(***************************************************************************)
(* idle     does nothing;                                                  *)
(* in       holds the mutex, to put or to take;                            *)
(* look     holds the mutex again after a wait, to take;                   *)
(* count    in wait, has loaded the word;                                  *)
(* unlock   in wait, has counted itself;                                   *)
(* wait     in wait, about to enter futex_wait;                            *)
(* asleep   sleeping in futex_wait;                                        *)
(* uncount  in wait, back from futex_wait;                                 *)
(* relock   in wait, about to lock the mutex;                              *)
(* pulse    about to signal or broadcast;                                  *)
(* wake     in signal or broadcast, about to enter futex_wake;             *)
(* leave    about to unlock the mutex and be done.                         *)
(***************************************************************************)
Locations ==
  {"idle", "in", "look", "count", "unlock", "wait", "asleep", "uncount", "relock",
   "pulse", "wake", "leave"}

At(l) == {t \in Threads : pc[t] = l}

Goto(t, l) == pc' = [pc EXCEPT ![t] = l]

(***************************************************************************)
(* A loaded word that is not needed any more.                              *)
(***************************************************************************)
Forget(t) == old_state' = [old_state EXCEPT ![t] = 0]

(***************************************************************************)
(* Waiters whose wait has not been decided yet.                            *)
(***************************************************************************)
Waiting == At("count") \union At("unlock") \union At("wait")

Init ==
  /\ lp64 \in BOOLEAN
  /\ owner = NoThread
  /\ items = 0
  /\ state = 0
  /\ waiters = 0
  /\ pc = [t \in Threads |-> "idle"]
  /\ old_state = [t \in Threads |-> 0]
  /\ missed = [t \in Threads |-> 0]
  /\ thread_count = [t \in Threads |-> 0]

-----------------------------------------------------------------------------
(***************************************************************************)
(* The user of the condition variable.                                     *)
(***************************************************************************)
Enter(t) ==
  /\ pc[t] = "idle"
  /\ Mutex!Acquire(t)
  /\ Goto(t, "in")
  /\ UNCHANGED <<lp64, items, cond, locals>>

Take(t) ==
  /\ pc[t] \in {"in", "look"}
  /\ items > 0
  /\ items' = items - 1
  /\ Goto(t, "leave")
  /\ UNCHANGED <<lp64, owner, cond, locals>>

(***************************************************************************)
(* After one item signal or broadcast, after more broadcast, with the      *)
(* mutex locked or unlocked.                                               *)
(***************************************************************************)
Put(t) ==
  /\ pc[t] = "in"
  /\ \E k \in 1 .. MaxItems - items :
       /\ items' = items + k
       /\ \E n \in {1, Cardinality(Threads)} :
            /\ k = 1 \/ n = Cardinality(Threads)
            /\ thread_count' = [thread_count EXCEPT ![t] = n]
  /\ Mutex!Release(t) \/ UNCHANGED owner
  /\ Goto(t, "pulse")
  /\ UNCHANGED <<lp64, cond, old_state, missed>>

Leave(t) ==
  /\ pc[t] = "leave"
  /\ Mutex!Release(t)
  /\ Goto(t, "idle")
  /\ UNCHANGED <<lp64, items, cond, locals>>

-----------------------------------------------------------------------------
(***************************************************************************)
(* __pthread_cond_timedwait: load the word and count the waiter while the  *)
(* mutex is held ...                                                       *)
(***************************************************************************)
LoadState(t) ==
  /\ pc[t] \in {"in", "look"}
  /\ items = 0
  /\ old_state' = [old_state EXCEPT ![t] = state]
  /\ missed' = [missed EXCEPT ![t] = 0]
  /\ Goto(t, "count")
  /\ UNCHANGED <<lp64, owner, items, cond, thread_count>>

CountWaiter(t) ==
  /\ pc[t] = "count"
  /\ waiters' = IF lp64 THEN waiters + 1 ELSE waiters
  /\ Goto(t, "unlock")
  /\ UNCHANGED <<lp64, owner, items, state, locals>>

UnlockMutex(t) ==
  /\ pc[t] = "unlock"
  /\ Mutex!Release(t)
  /\ Goto(t, "wait")
  /\ UNCHANGED <<lp64, items, cond, locals>>

(***************************************************************************)
(* A faulty variant that sleeps whatever the word is.                      *)
(***************************************************************************)
FutexWaitBlindly(t) ==
  /\ pc[t] = "wait"
  /\ Goto(t, "asleep")
  /\ Forget(t)
  /\ UNCHANGED <<lp64, owner, items, cond, missed, thread_count>>

(***************************************************************************)
(* ... sleep if the word has not changed since ...                         *)
(***************************************************************************)
FutexWait(t) ==
  /\ pc[t] = "wait"
  /\ Goto(t, IF state = old_state[t] THEN "asleep" ELSE "uncount")
  /\ Forget(t)
  /\ UNCHANGED <<lp64, owner, items, cond, missed, thread_count>>

(***************************************************************************)
(* A signal handler ran, or the deadline passed.                           *)
(***************************************************************************)
Interrupt(t) ==
  /\ pc[t] = "asleep"
  /\ Goto(t, "uncount")
  /\ UNCHANGED <<lp64, owner, items, cond, locals>>

(***************************************************************************)
(* A deadline in the past is noticed before the system call.  The caller   *)
(* looks at the store once more in any case.                               *)
(***************************************************************************)
Timeout(t) ==
  /\ pc[t] = "wait"
  /\ Goto(t, "uncount")
  /\ Forget(t)
  /\ UNCHANGED <<lp64, owner, items, cond, missed, thread_count>>

(***************************************************************************)
(* ... and lock the mutex again.  A caller whose deadline has passed may   *)
(* give up if the store is still empty.                                    *)
(***************************************************************************)
UncountWaiter(t) ==
  /\ pc[t] = "uncount"
  /\ waiters' = IF lp64 THEN waiters - 1 ELSE waiters
  /\ missed' = [missed EXCEPT ![t] = 0]
  /\ Goto(t, "relock")
  /\ UNCHANGED <<lp64, owner, items, state, old_state, thread_count>>

RelockMutex(t) ==
  /\ pc[t] = "relock"
  /\ Mutex!Acquire(t)
  /\ \/ Goto(t, "look")
     \/ items = 0 /\ Goto(t, "leave")
  /\ UNCHANGED <<lp64, items, cond, locals>>

-----------------------------------------------------------------------------
AfterPulse(t) == IF owner = t THEN "leave" ELSE "idle"

(***************************************************************************)
(* Faulty variants: one forgets the last waiter, one forgets the step of   *)
(* the counter.                                                            *)
(***************************************************************************)
PulseOffByOne(t) ==
  /\ pc[t] = "pulse"
  /\ \A u \in Waiting : missed[u] < MaxMissed
  /\ IF lp64 /\ waiters <= 1
       THEN Goto(t, AfterPulse(t)) /\ UNCHANGED <<state, missed>>
       ELSE /\ state' = (state + COND_COUNTER_STEP) % WordSize
            /\ missed' = [u \in Threads |-> IF u \in Waiting THEN missed[u] + 1
                                            ELSE missed[u]]
            /\ Goto(t, "wake")
  /\ UNCHANGED <<lp64, owner, items, waiters, old_state, thread_count>>

PulseUncounted(t) ==
  /\ pc[t] = "pulse"
  /\ Goto(t, IF lp64 /\ waiters = 0 THEN AfterPulse(t) ELSE "wake")
  /\ UNCHANGED <<lp64, owner, items, cond, locals>>

(***************************************************************************)
(* __pthread_cond_pulse, from signal and broadcast.  The first conjunct on *)
(* missed is a bound of the model: fewer than 2^30 pulses happen while a   *)
(* waiter is between its load and its system call.                         *)
(***************************************************************************)
Pulse(t) ==
  /\ pc[t] = "pulse"
  /\ \A u \in Waiting : missed[u] < MaxMissed
  /\ IF lp64 /\ waiters = 0
       THEN Goto(t, AfterPulse(t)) /\ UNCHANGED <<state, missed>>
       ELSE /\ state' = (state + COND_COUNTER_STEP) % WordSize
            /\ missed' = [u \in Threads |-> IF u \in Waiting THEN missed[u] + 1
                                            ELSE missed[u]]
            /\ Goto(t, "wake")
  /\ UNCHANGED <<lp64, owner, items, waiters, old_state, thread_count>>

Wake(t) ==
  /\ pc[t] = "wake"
  /\ \E woken \in WakeUpTo(At("asleep"), thread_count[t]) :
       pc' = [u \in Threads |-> IF u = t THEN AfterPulse(t)
                                ELSE IF u \in woken THEN "uncount"
                                ELSE pc[u]]
  /\ thread_count' = [thread_count EXCEPT ![t] = 0]
  /\ UNCHANGED <<lp64, owner, items, cond, old_state, missed>>

Progress(t) ==
  \/ Take(t) \/ Leave(t) \/ LoadState(t) \/ CountWaiter(t) \/ UnlockMutex(t)
  \/ FutexWait(t) \/ UncountWaiter(t) \/ RelockMutex(t)
  \/ Pulse(t) \/ Wake(t)

Next ==
  \E t \in Threads :
    \/ Progress(t)
    \/ Enter(t) \/ Put(t)
    \/ Interrupt(t) \/ Timeout(t)

Spec == Init /\ [][Next]_vars

(***************************************************************************)
(* Every call goes on.  The mutex is not fair: a thread that wants it back *)
(* is sure to get it only if the others leave it alone.                    *)
(***************************************************************************)
FairSpec == Spec /\ \A t \in Threads : WF_vars(Progress(t))

-----------------------------------------------------------------------------
TypeOK ==
  /\ lp64 \in BOOLEAN
  /\ owner \in Threads \union {NoThread}
  /\ items \in 0 .. MaxItems
  /\ state \in 0 .. WordSize - 1
  /\ waiters \in 0 .. Cardinality(Threads)
  /\ pc \in [Threads -> Locations]
  /\ old_state \in [Threads -> 0 .. WordSize - 1]
  /\ missed \in [Threads -> 0 .. MaxMissed]
  /\ thread_count \in [Threads -> 0 .. Cardinality(Threads)]

(***************************************************************************)
(* A waiter never falls asleep on a pulse that came after it loaded the    *)
(* word, that is after it found the store empty: unlocking the mutex and   *)
(* starting to wait are atomic for whoever signals.                        *)
(***************************************************************************)
UnlockAndWaitAtomic == \A t \in At("asleep") : missed[t] = 0

(***************************************************************************)
(* While a thread sleeps, there is somebody for every item: about to wake  *)
(* a sleeper or on the way back from a wait.  A broadcast on its way does  *)
(* for any number of items.                                                *)
(***************************************************************************)
OnTheWay ==
  At("pulse") \union At("wake") \union At("uncount") \union At("relock") \union At("look")

Broadcasting(S) == \E t \in S : thread_count[t] = Cardinality(Threads)

NobodySleepsOnItems ==
  At("asleep") # {} =>
    items <= Cardinality(OnTheWay) \/ Broadcasting(At("pulse") \union At("wake"))

(***************************************************************************)
(* A signal or broadcast is not lost on a thread that has unlocked the     *)
(* mutex and is not yet asleep, nor on one whose wake another thread took. *)
(***************************************************************************)
NoSignalLost == UnlockAndWaitAtomic /\ NobodySleepsOnItems

-----------------------------------------------------------------------------
(***************************************************************************)
(* The inductive invariant.  Who has the mutex; a waiter that has it still *)
(* finds the store empty.                                                  *)
(***************************************************************************)
Ownership ==
  \A t \in Threads :
    /\ pc[t] \in {"in", "look", "count", "unlock", "leave"} => owner = t
    /\ owner = t => pc[t] \notin {"idle", "wait", "asleep", "uncount", "relock"}
    /\ pc[t] \in {"count", "unlock"} => items = 0

(***************************************************************************)
(* The count of a 64-bit process is that of the threads inside the wait,   *)
(* so a signal that finds it 0 has nobody to wake.                         *)
(***************************************************************************)
Counted == At("unlock") \union At("wait") \union At("asleep") \union At("uncount")

WaitersExact == waiters = IF lp64 THEN Cardinality(Counted) ELSE 0

(***************************************************************************)
(* The word is ahead of the one a waiter has loaded by the pulses since.   *)
(***************************************************************************)
WordKept ==
  \A t \in Waiting :
    LET ahead == old_state[t] + COND_COUNTER_STEP * missed[t] IN
      state = IF ahead < WordSize THEN ahead ELSE ahead - WordSize

(***************************************************************************)
(* For a waiter that no pulse has reached yet, there is somebody for every *)
(* item who is still to change the word.                                   *)
(***************************************************************************)
PulsesToCome ==
  \A t \in At("wait") :
    missed[t] = 0 => items <= Cardinality(At("pulse")) \/ Broadcasting(At("pulse"))

PulseCounts ==
  \A t \in At("pulse") \union At("wake") : thread_count[t] \in {1, Cardinality(Threads)}

Inv ==
  /\ TypeOK
  /\ Ownership
  /\ WaitersExact
  /\ WordKept
  /\ PulsesToCome
  /\ PulseCounts
  /\ NoSignalLost

(***************************************************************************)
(* No waiter sleeps forever while the store has items: a signal that finds *)
(* the count of waiters at 0 had nobody to wake, and one whose wake went   *)
(* to a latecomer was not needed any more.                                 *)
(***************************************************************************)
NoForgottenWaiter ==
  \A t \in Threads : []<>(pc[t] # "asleep" \/ items = 0)
=============================================================================
