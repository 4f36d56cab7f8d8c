---------------------------- MODULE PthreadMutex ----------------------------
(***************************************************************************)
(* Mutexes without priority inheritance, libc/bionic/pthread_mutex.cpp:    *)
(* normal, recursive and errorcheck, in 64-bit and in 32-bit processes,    *)
(* with deadlines, destruction and reuse of the memory.                    *)
(*                                                                         *)
(* The 16-bit word mutex->state is split into its lock and counter fields. *)
(* A load followed by a compare-and-swap that expects the loaded value is  *)
(* one step, at the swap that succeeds or at the load that is acted on.    *)
(* Calls that return an error without effect (EBUSY, EDEADLK, EPERM,       *)
(* EAGAIN at the recursion limit) are stuttering steps; an invalid         *)
(* deadline, which a recursive mutex notices after it has set the mark of  *)
(* contention, is a timeout.                                               *)
(***************************************************************************)
EXTENDS Integers, Futex, MutexParams

Types == {"normal", "recursive", "errorcheck"}

(***************************************************************************)
(* The lock field, and the word 0xffff of a destroyed mutex.               *)
(***************************************************************************)
Unlocked    == 0
Uncontended == 1
Contended   == 2
Destroyed   == 3

VARIABLES
  lp64,             \* Whether the process is a 64-bit one.
  type,             \* The type field, constant between init and destroy.
  lock,
  counter,
  owner_tid,
  pc,
  saved,            \* Counter and owner in the word given to futex_wait.
  timed,            \* Whether the current call has a deadline.
  depth             \* History: locks minus unlocks of the holder.

word == <<lock, counter, owner_tid>>
vars == <<lp64, type, word, pc, saved, timed, depth>>

(***************************************************************************)
(* idle       does not hold the mutex and is not in a call;                *)
(* loop       at the head of the loop of a lock;                           *)
(* loadowner  in the loop, about to load owner_tid (32-bit processes);     *)
(* wait       about to enter futex_wait;                                   *)
(* asleep     sleeping in futex_wait;                                      *)
(* settid     has taken the lock field, about to store owner_tid;          *)
(* held       holds the mutex;                                             *)
(* clear      in unlock, has reset owner_tid, about to free the lock field;*)
(* wake       in unlock, about to enter futex_wake.                        *)
(***************************************************************************)
OwnerLocations == {"settid", "held", "clear"}

Locations ==
  OwnerLocations \union {"idle", "loop", "loadowner", "wait", "asleep", "wake"}

At(l) == {t \in Threads : pc[t] = l}

Goto(t, l) == pc' = [pc EXCEPT ![t] = l]

NothingSaved == <<0, NoThread>>

-----------------------------------------------------------------------------
(***************************************************************************)
(* pthread_mutex_init with any type.                                       *)
(***************************************************************************)
Init ==
  /\ lp64 \in BOOLEAN
  /\ type \in Types
  /\ lock = Unlocked
  /\ counter = 0
  /\ owner_tid = NoThread
  /\ pc = [t \in Threads |-> "idle"]
  /\ saved = [t \in Threads |-> NothingSaved]
  /\ timed = [t \in Threads |-> FALSE]
  /\ depth = 0

(***************************************************************************)
(* Where a thread goes that has taken the lock field: only recursive and   *)
(* errorcheck mutexes record their owner.                                  *)
(***************************************************************************)
Acquired(t) ==
  /\ depth' = 1
  /\ Goto(t, IF type = "normal" THEN "held" ELSE "settid")

(***************************************************************************)
(* The compare-and-swap of trylock and of the fast paths of lock.          *)
(***************************************************************************)
TryLock(t) ==
  /\ pc[t] = "idle"
  /\ lock = Unlocked
  /\ lock' = Uncontended
  /\ Acquired(t)
  /\ UNCHANGED <<lp64, type, counter, owner_tid, saved, timed>>

(***************************************************************************)
(* lock and the timed locks when the mutex is taken.                       *)
(***************************************************************************)
LockSlow(t, d) ==
  /\ pc[t] = "idle"
  /\ lock \in {Uncontended, Contended}
  /\ timed' = [timed EXCEPT ![t] = d]
  /\ Goto(t, "loop")
  /\ UNCHANGED <<lp64, type, word, saved, depth>>

(***************************************************************************)
(* A faulty variant that lets the counter wrap.                            *)
(***************************************************************************)
LockAgainWraps(t) ==
  /\ pc[t] = "held"
  /\ type = "recursive"
  /\ owner_tid = t
  /\ counter' = (counter + 1) % (MaxCounter + 1)
  /\ depth' = depth + 1
  /\ UNCHANGED <<lp64, type, lock, owner_tid, pc, saved, timed>>

(***************************************************************************)
(* RecursiveIncrement: lock or trylock by the owner.                       *)
(***************************************************************************)
LockAgain(t) ==
  /\ pc[t] = "held"
  /\ type = "recursive"
  /\ owner_tid = t
  /\ counter < MaxCounter
  /\ counter' = counter + 1
  /\ depth' = depth + 1
  /\ UNCHANGED <<lp64, type, lock, owner_tid, pc, saved, timed>>

(***************************************************************************)
(* A faulty variant that leaves no mark of contention when it acquires.    *)
(***************************************************************************)
LoopUnmarked(t) ==
  /\ pc[t] = "loop"
  /\ IF lock = Unlocked
       THEN lock' = Uncontended /\ Acquired(t) /\ UNCHANGED saved
       ELSE /\ lock' = Contended
            /\ saved' = [saved EXCEPT ![t] = <<counter, NoThread>>]
            /\ Goto(t, IF lp64 \/ type = "normal" THEN "wait" ELSE "loadowner")
            /\ UNCHANGED depth
  /\ UNCHANGED <<lp64, type, counter, owner_tid, timed>>

(***************************************************************************)
(* A faulty variant that believes a woken thread finds the mutex free.     *)
(***************************************************************************)
LoopSteals(t) ==
  /\ pc[t] = "loop"
  /\ lock' = Contended
  /\ Acquired(t)
  /\ UNCHANGED <<lp64, type, counter, owner_tid, saved, timed>>

(***************************************************************************)
(* One round of the loops of NormalMutexLock (an exchange) and of          *)
(* MutexLockWithTimeout (compare-and-swaps): take a free mutex, leaving    *)
(* the mark of contention, or make sure that the mark is there and wait.   *)
(***************************************************************************)
Loop(t) ==
  /\ pc[t] = "loop"
  /\ lock' = Contended
  /\ IF lock = Unlocked
       THEN Acquired(t) /\ UNCHANGED saved
       ELSE /\ saved' = [saved EXCEPT ![t] = <<counter, NoThread>>]
            /\ Goto(t, IF lp64 \/ type = "normal" THEN "wait" ELSE "loadowner")
            /\ UNCHANGED depth
  /\ UNCHANGED <<lp64, type, counter, owner_tid, timed>>

(***************************************************************************)
(* RecursiveOrErrorcheckMutexWait in a 32-bit process, where owner_tid is  *)
(* part of the word the kernel compares but is loaded on its own.          *)
(***************************************************************************)
LoadOwner(t) ==
  /\ pc[t] = "loadowner"
  /\ saved' = [saved EXCEPT ![t][2] = owner_tid]
  /\ Goto(t, "wait")
  /\ UNCHANGED <<lp64, type, word, timed, depth>>

(***************************************************************************)
(* futex_wait: sleep if the whole 32-bit word is as expected.              *)
(***************************************************************************)
FutexWait(t) ==
  /\ pc[t] = "wait"
  /\ Goto(t, IF /\ lock = Contended
                /\ saved[t] = <<counter, IF lp64 THEN NoThread ELSE owner_tid>>
               THEN "asleep" ELSE "loop")
  /\ saved' = [saved EXCEPT ![t] = NothingSaved]
  /\ UNCHANGED <<lp64, type, word, timed, depth>>

(***************************************************************************)
(* A signal, or a wake that another use of the memory caused.              *)
(***************************************************************************)
Interrupt(t) ==
  /\ pc[t] = "asleep"
  /\ Goto(t, "loop")
  /\ UNCHANGED <<lp64, type, word, saved, timed, depth>>

Timeout(t) ==
  /\ pc[t] \in {"wait", "asleep"}
  /\ timed[t]
  /\ Goto(t, "idle")
  /\ saved' = [saved EXCEPT ![t] = NothingSaved]
  /\ UNCHANGED <<lp64, type, word, timed, depth>>

SetOwner(t) ==
  /\ pc[t] = "settid"
  /\ owner_tid' = t
  /\ Goto(t, "held")
  /\ UNCHANGED <<lp64, type, lock, counter, saved, timed, depth>>

-----------------------------------------------------------------------------
(***************************************************************************)
(* pthread_mutex_unlock of a recursive mutex held more than once.          *)
(***************************************************************************)
UnlockOnce(t) ==
  /\ pc[t] = "held"
  /\ type = "recursive"
  /\ owner_tid = t
  /\ counter # 0
  /\ counter' = counter - 1
  /\ depth' = depth - 1
  /\ UNCHANGED <<lp64, type, lock, owner_tid, pc, saved, timed>>

(***************************************************************************)
(* A faulty variant that forgets to reset the owner.                       *)
(***************************************************************************)
ClearOwnerNot(t) ==
  /\ pc[t] = "held"
  /\ type # "normal"
  /\ owner_tid = t
  /\ counter = 0
  /\ Goto(t, "clear")
  /\ UNCHANGED <<lp64, type, lock, counter, owner_tid, saved, timed, depth>>

(***************************************************************************)
(* The last unlock of a recursive or errorcheck mutex first forgets the    *)
(* owner ...                                                               *)
(***************************************************************************)
ClearOwner(t) ==
  /\ pc[t] = "held"
  /\ type # "normal"
  /\ owner_tid = t
  /\ counter = 0
  /\ owner_tid' = NoThread
  /\ Goto(t, "clear")
  /\ UNCHANGED <<lp64, type, lock, counter, saved, timed, depth>>

(***************************************************************************)
(* A faulty variant that does not look at the mark.                        *)
(***************************************************************************)
UnlockSilently(t) ==
  /\ pc[t] = IF type = "normal" THEN "held" ELSE "clear"
  /\ lock' = Unlocked
  /\ depth' = 0
  /\ Goto(t, "idle")
  /\ UNCHANGED <<lp64, type, counter, owner_tid, saved, timed>>

(***************************************************************************)
(* ... and then frees the lock field, as NormalMutexUnlock does.           *)
(***************************************************************************)
Unlock(t) ==
  /\ pc[t] = IF type = "normal" THEN "held" ELSE "clear"
  /\ lock' = Unlocked
  /\ depth' = 0
  /\ Goto(t, IF lock = Contended THEN "wake" ELSE "idle")
  /\ UNCHANGED <<lp64, type, counter, owner_tid, saved, timed>>

(***************************************************************************)
(* The wake of one sleeper on the address, whatever is there by now.       *)
(***************************************************************************)
Wake(t) ==
  /\ pc[t] = "wake"
  /\ \E woken \in WakeOne(At("asleep")) :
       pc' = [u \in Threads |-> IF u = t THEN "idle"
                                ELSE IF u \in woken THEN "loop"
                                ELSE pc[u]]
  /\ UNCHANGED <<lp64, type, word, saved, timed, depth>>

(***************************************************************************)
(* pthread_mutex_destroy.  POSIX lets a thread destroy a mutex as soon as  *)
(* nobody holds it or wants it, which is before the last unlock has sent   *)
(* its wake; a held mutex answers EBUSY.                                   *)
(***************************************************************************)
Destroy(t) ==
  /\ pc[t] = "idle"
  /\ \A u \in Threads \ {t} : pc[u] \in {"idle", "wake", "held"}
  /\ lock = Unlocked
  /\ lock' = Destroyed
  /\ UNCHANGED <<lp64, type, counter, owner_tid, pc, saved, timed, depth>>

(***************************************************************************)
(* pthread_mutex_init of a new mutex in the same memory.                   *)
(***************************************************************************)
Reinit(t) ==
  /\ pc[t] = "idle"
  /\ lock = Destroyed
  /\ type' \in Types
  /\ lock' = Unlocked
  /\ counter' = 0
  /\ owner_tid' = NoThread
  /\ UNCHANGED <<lp64, pc, saved, timed, depth>>

-----------------------------------------------------------------------------
Progress(t) ==
  \/ Loop(t) \/ LoadOwner(t) \/ FutexWait(t) \/ SetOwner(t)
  \/ UnlockOnce(t) \/ ClearOwner(t) \/ Unlock(t) \/ Wake(t)

Next ==
  \E t \in Threads :
    \/ TryLock(t)
    \/ \E d \in BOOLEAN : LockSlow(t, d)
    \/ LockAgain(t)
    \/ Progress(t)
    \/ Interrupt(t)
    \/ Timeout(t)
    \/ Destroy(t)
    \/ Reinit(t)

Spec == Init /\ [][Next]_vars

(***************************************************************************)
(* Every call goes on and every holder comes to unlock.                    *)
(***************************************************************************)
FairSpec == Spec /\ \A t \in Threads : WF_vars(Progress(t))

-----------------------------------------------------------------------------
TypeOK ==
  /\ lp64 \in BOOLEAN
  /\ type \in Types
  /\ lock \in {Unlocked, Uncontended, Contended, Destroyed}
  /\ counter \in 0 .. MaxCounter
  /\ owner_tid \in Threads \union {NoThread}
  /\ pc \in [Threads -> Locations]
  /\ saved \in [Threads -> (0 .. MaxCounter) \X (Threads \union {NoThread})]
  /\ timed \in [Threads -> BOOLEAN]
  /\ depth \in Nat

(***************************************************************************)
(* One thread at a time holds the mutex, and the lock field says so.       *)
(***************************************************************************)
MutualExclusion ==
  /\ \A t, u \in Threads :
       pc[t] \in OwnerLocations /\ pc[u] \in OwnerLocations => t = u
  /\ lock \in {Uncontended, Contended} <=>
       \E t \in Threads : pc[t] \in OwnerLocations

(***************************************************************************)
(* owner_tid of a recursive or errorcheck mutex names the thread that may  *)
(* lock it again or unlock it, and nobody else, through deadlines,         *)
(* destruction and reuse: EDEADLK, EPERM and the increments of the counter *)
(* are decided on it alone.                                                *)
(***************************************************************************)
OwnerExact ==
  \A t \in Threads : owner_tid = t <=> type # "normal" /\ pc[t] = "held"

(***************************************************************************)
(* The counter is the number of locks minus unlocks of the holder, less    *)
(* one: the unlock that frees the mutex is the one that matches its first  *)
(* lock.                                                                   *)
(***************************************************************************)
CounterExact == counter = IF depth = 0 THEN 0 ELSE depth - 1

(***************************************************************************)
(* The two together: what unlock, a recursive lock and the error checks    *)
(* read tells who holds the mutex and how often.                           *)
(***************************************************************************)
FieldsExact == OwnerExact /\ CounterExact

(***************************************************************************)
(* "Either way we have correct behavior and nobody is orphaned on the wait *)
(* queue": a sleeper is covered by the mark of contention, by a wake on    *)
(* its way, or by a thread about to set the mark.                          *)
(***************************************************************************)
NobodyOrphaned ==
  At("asleep") # {} =>
    lock = Contended \/ At("wake") # {} \/ At("loop") # {}

(***************************************************************************)
(* The inductive invariant: what the properties above need to know of each *)
(* location of the code.                                                   *)
(***************************************************************************)
LocationsAgree ==
  /\ depth = 0 <=> \A t \in Threads : pc[t] \notin OwnerLocations
  /\ depth > 1 => type = "recursive"
  /\ \A t \in Threads : pc[t] \in {"settid", "clear"} => type # "normal" /\ depth = 1
  /\ lock = Destroyed => \A t \in Threads : pc[t] \in {"idle", "wake"}

Inv ==
  /\ TypeOK
  /\ MutualExclusion
  /\ OwnerExact
  /\ CounterExact
  /\ NobodyOrphaned
  /\ LocationsAgree

(***************************************************************************)
(* No thread sleeps forever while the mutex stays free.                    *)
(***************************************************************************)
NoForgottenSleeper ==
  \A t \in Threads : []<>(pc[t] # "asleep" \/ lock \in {Uncontended, Contended})

Owner ==
  IF \E t \in Threads : pc[t] \in OwnerLocations
    THEN CHOOSE t \in Threads : pc[t] \in OwnerLocations
    ELSE NoThread

Abstract == INSTANCE AbstractLock WITH owner <- Owner

(***************************************************************************)
(* A mutex implements the abstract lock: it passes from thread to thread   *)
(* only through a state in which it is free.                               *)
(***************************************************************************)
ImplementsAbstractLock == Abstract!Spec
=============================================================================
