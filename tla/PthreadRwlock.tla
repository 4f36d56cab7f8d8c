--------------------------- MODULE PthreadRwlock ---------------------------
(***************************************************************************)
(* Read-write locks, libc/bionic/pthread_rwlock.cpp.                       *)
(*                                                                         *)
(* The word rwlock->state is split into its fields ownedByWriter,          *)
(* readerCount and havePending; each step reads or changes the word once.  *)
(* The reader and the writer paths have the same shape and share their     *)
(* actions, with the mode as a parameter.  The sections under pending_lock *)
(* (see BionicLock) contain one access that other threads can see outside  *)
(* it and are one step each.                                               *)
(*                                                                         *)
(* A wakeup serial is only compared with the value a waiter saved, so the  *)
(* counters are replaced by what the comparison finds: a waiter whose      *)
(* saved serial is out of date is at "stale" instead of "wait".  Bionic's  *)
(* 32-bit serials would have to wrap around for this to differ.            *)
(*                                                                         *)
(* Calls that return an error at once (EDEADLK to the writer, EPERM from   *)
(* unlock, EBUSY from a try, an invalid deadline) are stuttering steps.    *)
(***************************************************************************)
EXTENDS Integers, FiniteSets, Futex, Actors

CONSTANTS
  MaxReaders,       \* The largest reader count: 2^29 - 1 in the code.
  MaxHolds          \* How often one thread holds the lock for reading.

ASSUME RwlockAssumption ==
  /\ IsFiniteSet(Threads)
  /\ MaxReaders \in Nat \ {0}
  /\ MaxHolds \in Nat \ {0}

Modes == {"read", "write"}

VARIABLES
  ownedByWriter,    \* STATE_OWNED_BY_WRITER_FLAG
  readerCount,      \* reader_count
  havePending,      \* STATE_HAVE_PENDING_READERS_FLAG and _WRITERS_FLAG
  writer_tid,
  pendingCount,     \* pending_reader_count and pending_writer_count
  preferWriter,     \* writer_nonrecursive_preferred, chosen by init
  deadlines,        \* Whether the program makes timed calls at all.
  pc,
  mode,             \* Whether a thread's current call is for read or write.
  timed,            \* Whether that call has a deadline.
  reads             \* How often each thread holds the lock for reading.

word == <<ownedByWriter, readerCount, havePending>>
call == <<mode, timed>>
fixed == <<preferWriter, deadlines>>
vars == <<word, writer_tid, pendingCount, fixed, pc, call, reads>>

(***************************************************************************)
(* idle       not in a call and not holding the lock for writing;          *)
(* try        at the head of the loop of __pthread_rwlock_timed{rd,wr}lock;*)
(* reload     about to load the state again;                               *)
(* pend       about to enter pending_lock to become pending;               *)
(* wait       about to enter futex_wait, the saved serial up to date;      *)
(* stale      about to enter futex_wait, the saved serial out of date;     *)
(* asleep     sleeping in futex_wait;                                      *)
(* unpend     about to enter pending_lock to stop being pending;           *)
(* expired    the same, with the result ETIMEDOUT;                         *)
(* settid     has set the writer flag, about to store writer_tid;          *)
(* writing    holds the lock for writing;                                  *)
(* clear      in unlock, has reset writer_tid, about to clear the flag;    *)
(* handoff    in unlock, about to enter pending_lock;                      *)
(* wakeread, wakewrite  in unlock, about to enter futex_wake.              *)
(***************************************************************************)
PendingLocations == {"wait", "stale", "asleep", "unpend", "expired"}

WriterLocations == {"settid", "writing", "clear"}

Locations ==
  PendingLocations \union WriterLocations \union
  {"idle", "try", "reload", "pend", "handoff", "wakeread", "wakewrite"}

Goto(t, l) == pc' = [pc EXCEPT ![t] = l]

Asleep(m) == {t \in Threads : pc[t] = "asleep" /\ mode[t] = m}

Pending(m) == {t \in Threads : pc[t] \in PendingLocations /\ mode[t] = m}

(***************************************************************************)
(* One element for every time a thread holds the lock for reading.         *)
(***************************************************************************)
ReadHolds == {h \in Threads \X (1 .. MaxHolds) : h[2] <= reads[h[1]]}

-----------------------------------------------------------------------------
(***************************************************************************)
(* __can_acquire_read_lock and __can_acquire_write_lock.                   *)
(***************************************************************************)
CanAcquire(m) ==
  /\ ~ownedByWriter
  /\ m = "read" => ~(preferWriter /\ havePending["write"])
  /\ m = "write" => readerCount = 0

(***************************************************************************)
(* pthread_rwlock_init, with either preference.                            *)
(***************************************************************************)
Init ==
  /\ ownedByWriter = FALSE
  /\ readerCount = 0
  /\ havePending = [m \in Modes |-> FALSE]
  /\ writer_tid = NoThread
  /\ pendingCount = [m \in Modes |-> 0]
  /\ preferWriter \in BOOLEAN
  /\ deadlines \in BOOLEAN
  /\ pc = [t \in Threads |-> "idle"]
  /\ mode = [t \in Threads |-> "read"]
  /\ timed = [t \in Threads |-> FALSE]
  /\ reads = [t \in Threads |-> 0]

(***************************************************************************)
(* The compare-and-swap loops of __pthread_rwlock_tryrdlock and            *)
(* __pthread_rwlock_trywrlock, when they succeed.                          *)
(***************************************************************************)
AcquireRead(t) ==
  /\ CanAcquire("read")
  /\ readerCount < MaxReaders
  /\ readerCount' = readerCount + 1
  /\ reads' = [reads EXCEPT ![t] = @ + 1]
  /\ Goto(t, "idle")
  /\ UNCHANGED <<ownedByWriter, havePending>>

AcquireWrite(t) ==
  /\ CanAcquire("write")
  /\ ownedByWriter' = TRUE
  /\ Goto(t, "settid")
  /\ UNCHANGED <<readerCount, havePending, reads>>

(***************************************************************************)
(* Which calls the threads make: any number of nested read locks up to     *)
(* MaxHolds when readers are preferred, one otherwise, and a write lock    *)
(* only by a thread that holds no read lock (the file's header says that   *)
(* the call deadlocks in the other cases).                                 *)
(***************************************************************************)
MayCall(t, m) ==
  /\ pc[t] = "idle"
  /\ m = "read" => reads[t] < IF preferWriter THEN 1 ELSE MaxHolds
  /\ m = "write" => reads[t] = 0

(***************************************************************************)
(* pthread_rwlock_tryrdlock and trywrlock, and the fast paths of rdlock    *)
(* and wrlock, succeeding.                                                 *)
(***************************************************************************)
TryLock(t) ==
  /\ \/ MayCall(t, "read") /\ AcquireRead(t)
     \/ MayCall(t, "write") /\ AcquireWrite(t)
  /\ UNCHANGED <<writer_tid, pendingCount, fixed, call>>

(***************************************************************************)
(* rdlock and wrlock after a failed fast path, and the timed calls, which  *)
(* have no fast path.  writer_tid is not the caller's, who is idle.        *)
(***************************************************************************)
Lock(t, m, d) ==
  /\ MayCall(t, m)
  /\ d => deadlines
  /\ writer_tid # t
  /\ d \/ ~CanAcquire(m)
  /\ mode' = [mode EXCEPT ![t] = m]
  /\ timed' = [timed EXCEPT ![t] = d]
  /\ Goto(t, "try")
  /\ UNCHANGED <<word, writer_tid, pendingCount, fixed, reads>>

(***************************************************************************)
(* The try at the head of the loop.  A reader count at its limit makes the *)
(* call return EAGAIN.                                                     *)
(***************************************************************************)
Try(t) ==
  /\ pc[t] = "try"
  /\ \/ mode[t] = "read" /\ AcquireRead(t)
     \/ mode[t] = "write" /\ AcquireWrite(t)
     \/ /\ mode[t] = "read" /\ CanAcquire("read") /\ readerCount = MaxReaders
        /\ Goto(t, "idle")
        /\ UNCHANGED <<word, reads>>
     \/ /\ ~CanAcquire(mode[t])
        /\ Goto(t, "reload")
        /\ UNCHANGED <<word, reads>>
  /\ UNCHANGED <<writer_tid, pendingCount, fixed, call>>

(***************************************************************************)
(* The load after check_timespec.                                          *)
(***************************************************************************)
Reload(t) ==
  /\ pc[t] = "reload"
  /\ Goto(t, IF CanAcquire(mode[t]) THEN "try" ELSE "pend")
  /\ UNCHANGED <<word, writer_tid, pendingCount, fixed, call, reads>>

(***************************************************************************)
(* A faulty variant that decides to sleep without the state fetch_or       *)
(* returned.                                                               *)
(***************************************************************************)
PendBlindly(t) ==
  /\ pc[t] = "pend"
  /\ pendingCount' = [pendingCount EXCEPT ![mode[t]] = @ + 1]
  /\ havePending' = [havePending EXCEPT ![mode[t]] = TRUE]
  /\ Goto(t, "wait")
  /\ UNCHANGED <<ownedByWriter, readerCount, writer_tid, fixed, call, reads>>

(***************************************************************************)
(* The first section under pending_lock: count, set the flag, save the     *)
(* serial.  The state fetch_or returned decides whether to sleep.          *)
(***************************************************************************)
Pend(t) ==
  /\ pc[t] = "pend"
  /\ pendingCount' = [pendingCount EXCEPT ![mode[t]] = @ + 1]
  /\ havePending' = [havePending EXCEPT ![mode[t]] = TRUE]
  /\ Goto(t, IF CanAcquire(mode[t]) THEN "unpend" ELSE "wait")
  /\ UNCHANGED <<ownedByWriter, readerCount, writer_tid, fixed, call, reads>>

(***************************************************************************)
(* __futex_wait_ex on the serial.                                          *)
(***************************************************************************)
FutexWait(t) ==
  /\ pc[t] \in {"wait", "stale"}
  /\ Goto(t, IF pc[t] = "wait" THEN "asleep" ELSE "unpend")
  /\ UNCHANGED <<word, writer_tid, pendingCount, fixed, call, reads>>

Interrupt(t) ==
  /\ pc[t] = "asleep"
  /\ Goto(t, "unpend")
  /\ UNCHANGED <<word, writer_tid, pendingCount, fixed, call, reads>>

(***************************************************************************)
(* The deadline passes during the sleep, or FutexWithTimeout finds it      *)
(* passed before the system call.                                          *)
(***************************************************************************)
Timeout(t) ==
  /\ pc[t] \in {"wait", "stale", "asleep"}
  /\ timed[t]
  /\ Goto(t, "expired")
  /\ UNCHANGED <<word, writer_tid, pendingCount, fixed, call, reads>>

(***************************************************************************)
(* A faulty variant that clears the flag while others are pending.         *)
(***************************************************************************)
UnpendClearsAlways(t) ==
  /\ pc[t] \in {"unpend", "expired"}
  /\ pendingCount' = [pendingCount EXCEPT ![mode[t]] = @ - 1]
  /\ havePending' = [havePending EXCEPT ![mode[t]] = FALSE]
  /\ Goto(t, IF pc[t] = "expired" THEN "idle" ELSE "try")
  /\ UNCHANGED <<ownedByWriter, readerCount, writer_tid, fixed, call, reads>>

(***************************************************************************)
(* The second section under pending_lock; the last pending thread of its   *)
(* mode clears the flag.  A call that timed out then returns.              *)
(***************************************************************************)
Unpend(t) ==
  /\ pc[t] \in {"unpend", "expired"}
  /\ pendingCount' = [pendingCount EXCEPT ![mode[t]] = @ - 1]
  /\ havePending' =
       [havePending EXCEPT ![mode[t]] = @ /\ pendingCount[mode[t]] # 1]
  /\ Goto(t, IF pc[t] = "expired" THEN "idle" ELSE "try")
  /\ UNCHANGED <<ownedByWriter, readerCount, writer_tid, fixed, call, reads>>

(***************************************************************************)
(* __pthread_rwlock_trywrlock stores the owner after its compare-and-swap. *)
(***************************************************************************)
SetWriterTid(t) ==
  /\ pc[t] = "settid"
  /\ writer_tid' = t
  /\ Goto(t, "writing")
  /\ UNCHANGED <<word, pendingCount, fixed, call, reads>>

-----------------------------------------------------------------------------
(***************************************************************************)
(* pthread_rwlock_unlock by the writer: forget the owner ...               *)
(***************************************************************************)
UnlockClearTid(t) ==
  /\ pc[t] = "writing"
  /\ writer_tid = t
  /\ writer_tid' = NoThread
  /\ Goto(t, "clear")
  /\ UNCHANGED <<word, pendingCount, fixed, call, reads>>

AnyPending == havePending["read"] \/ havePending["write"]

(***************************************************************************)
(* ... and clear the flag.                                                 *)
(***************************************************************************)
UnlockWrite(t) ==
  /\ pc[t] = "clear"
  /\ ownedByWriter' = FALSE
  /\ Goto(t, IF AnyPending THEN "handoff" ELSE "idle")
  /\ UNCHANGED <<readerCount, havePending, writer_tid, pendingCount, fixed, call, reads>>

(***************************************************************************)
(* A faulty variant in which no reader looks at the pending flags.         *)
(***************************************************************************)
UnlockReadSilently(t) ==
  /\ pc[t] = "idle"
  /\ reads[t] > 0
  /\ readerCount' = readerCount - 1
  /\ reads' = [reads EXCEPT ![t] = @ - 1]
  /\ UNCHANGED <<ownedByWriter, havePending, writer_tid, pendingCount, fixed, pc, call>>

(***************************************************************************)
(* pthread_rwlock_unlock by a reader; only the last one looks further.     *)
(***************************************************************************)
UnlockRead(t) ==
  /\ pc[t] = "idle"
  /\ reads[t] > 0
  /\ readerCount' = readerCount - 1
  /\ reads' = [reads EXCEPT ![t] = @ - 1]
  /\ Goto(t, IF readerCount = 1 /\ AnyPending THEN "handoff" ELSE "idle")
  /\ UNCHANGED <<ownedByWriter, havePending, writer_tid, pendingCount, fixed, call>>

(***************************************************************************)
(* The section of unlock under pending_lock: a pending writer goes before  *)
(* the pending readers.  Incrementing a serial makes every value saved     *)
(* from it out of date.                                                    *)
(***************************************************************************)
HandoffTo(t, m) ==
  pc' = [u \in Threads |->
           IF u = t THEN IF m = "write" THEN "wakewrite" ELSE "wakeread"
           ELSE IF pc[u] = "wait" /\ mode[u] = m THEN "stale"
           ELSE pc[u]]

Handoff(t) ==
  /\ pc[t] = "handoff"
  /\ \/ pendingCount["write"] # 0 /\ HandoffTo(t, "write")
     \/ pendingCount["write"] = 0 /\ pendingCount["read"] # 0 /\ HandoffTo(t, "read")
     \/ pendingCount["write"] = 0 /\ pendingCount["read"] = 0 /\ Goto(t, "idle")
  /\ UNCHANGED <<word, writer_tid, pendingCount, fixed, call, reads>>

(***************************************************************************)
(* The futex_wake of one writer, or of all readers.                        *)
(***************************************************************************)
Wake(t) ==
  /\ pc[t] \in {"wakewrite", "wakeread"}
  /\ \E woken \in IF pc[t] = "wakewrite" THEN WakeOne(Asleep("write"))
                                         ELSE WakeAll(Asleep("read")) :
       pc' = [u \in Threads |-> IF u = t THEN "idle"
                                ELSE IF u \in woken THEN "unpend"
                                ELSE pc[u]]
  /\ UNCHANGED <<word, writer_tid, pendingCount, fixed, call, reads>>

-----------------------------------------------------------------------------
(***************************************************************************)
(* The steps of a call under way, and the unlock of a thread that holds    *)
(* the lock.                                                               *)
(***************************************************************************)
Progress(t) ==
  \/ Try(t) \/ Reload(t) \/ Pend(t) \/ FutexWait(t) \/ Unpend(t)
  \/ SetWriterTid(t) \/ UnlockClearTid(t) \/ UnlockWrite(t) \/ UnlockRead(t)
  \/ Handoff(t) \/ Wake(t)

Next ==
  \E t \in Threads :
    \/ TryLock(t)
    \/ \E m \in Modes, d \in BOOLEAN : Lock(t, m, d)
    \/ Progress(t)
    \/ Interrupt(t)
    \/ Timeout(t)

Spec == Init /\ [][Next]_vars

FairSpec == Spec /\ \A t \in Threads : WF_vars(Progress(t))

-----------------------------------------------------------------------------
TypeOK ==
  /\ ownedByWriter \in BOOLEAN
  /\ readerCount \in 0 .. MaxReaders
  /\ havePending \in [Modes -> BOOLEAN]
  /\ writer_tid \in Threads \union {NoThread}
  /\ pendingCount \in [Modes -> Nat]
  /\ preferWriter \in BOOLEAN
  /\ deadlines \in BOOLEAN
  /\ pc \in [Threads -> Locations]
  /\ mode \in [Threads -> Modes]
  /\ timed \in [Threads -> BOOLEAN]
  /\ reads \in [Threads -> 0 .. MaxHolds]

(***************************************************************************)
(* A writer, from its compare-and-swap to the fetch_and of its unlock, is  *)
(* alone: no reader and no other writer holds the lock.                    *)
(***************************************************************************)
WriterIsAlone ==
  \A t, u \in Threads :
    pc[t] \in WriterLocations =>
      /\ reads[u] = 0
      /\ pc[u] \in WriterLocations => u = t

(***************************************************************************)
(* The word agrees with what the threads hold: the flag is set exactly     *)
(* while there is a writer, and reader_count counts every nested hold, so  *)
(* that the last reader is recognised as the last one.                     *)
(***************************************************************************)
WordAgrees ==
  /\ ownedByWriter <=> \E t \in Threads : pc[t] \in WriterLocations
  /\ readerCount = Cardinality(ReadHolds)

(***************************************************************************)
(* writer_tid names the thread that holds the lock for writing and nobody  *)
(* else, at every moment: EDEADLK and EPERM are never answered wrongly.    *)
(***************************************************************************)
WriterTidExact ==
  \A t \in Threads : writer_tid = t <=> pc[t] = "writing"

(***************************************************************************)
(* The pending flags in the word and the counts under pending_lock agree   *)
(* with the threads that are pending, whatever way they stop waiting.      *)
(***************************************************************************)
PendingAgrees ==
  \A m \in Modes :
    /\ pendingCount[m] = Cardinality(Pending(m))
    /\ havePending[m] <=> Pending(m) # {}

(***************************************************************************)
(* A call under way is one the thread may make: until it acquires the lock *)
(* the thread's own holds stay what they were when it was made.            *)
(***************************************************************************)
CallsAllowed ==
  \A t \in Threads :
    pc[t] \in {"try", "reload", "pend"} \union PendingLocations =>
      /\ mode[t] = "read" => reads[t] < MaxHolds
      /\ mode[t] = "write" => reads[t] = 0

(***************************************************************************)
(* The hand-over, as the unlocking and the waiting threads arrange it in a *)
(* program without timed calls: while the lock is free and somebody waits, *)
(* some thread is about to see to it.  That thread is an unlocker that has *)
(* yet to look at the counts or to wake a sleeper who can then acquire the *)
(* lock, or one that is awake, can acquire the lock and will try to.       *)
(***************************************************************************)
SeesToIt(t) ==
  \/ pc[t] = "handoff"
  \/ pc[t] = "wakewrite" /\ Asleep("write") # {}
  \/ pc[t] = "wakeread" /\ Asleep("read") # {} /\ CanAcquire("read")
  \/ pc[t] \in {"try", "reload", "pend", "stale", "unpend"} /\ CanAcquire(mode[t])

Free == ~ownedByWriter /\ readerCount = 0

HandoverUnderway ==
  ~deadlines =>
    /\ \A t \in Threads : ~timed[t] /\ pc[t] # "expired"
    /\ Free /\ (\E t \in Threads : pc[t] \in {"wait", "asleep"}) => \E t \in Threads : SeesToIt(t)

(***************************************************************************)
(* What the calls rely on between any two of their steps: a writer is      *)
(* alone, the word, writer_tid and the counts under pending_lock all       *)
(* describe the threads that hold the lock or are pending on it, and a     *)
(* free lock is being handed over while somebody waits for it.             *)
(***************************************************************************)
Inv ==
  /\ TypeOK
  /\ WriterIsAlone
  /\ WordAgrees
  /\ WriterTidExact
  /\ PendingAgrees
  /\ CallsAllowed
  /\ HandoverUnderway

(***************************************************************************)
(* "If the pending flag is added before unlocking, the unlocking thread    *)
(* will wakeup the waiter" (the comment before the fetch_or): when nobody  *)
(* holds the lock and no call is under way but sleeping ones without a     *)
(* deadline, nobody sleeps.                                                *)
(***************************************************************************)
HandoverReachesWaiter ==
  ~ /\ readerCount = 0
    /\ \A t \in Threads : pc[t] = "idle" \/ (pc[t] = "asleep" /\ ~timed[t])
    /\ \E t \in Threads : pc[t] = "asleep"

(***************************************************************************)
(* In a program that makes no timed calls the hand-over of unlock never    *)
(* leaves a sleeper on a free lock.                                        *)
(***************************************************************************)
NobodySleepsOnFreeLock == ~deadlines => HandoverReachesWaiter

(***************************************************************************)
(* Without deadlines no thread sleeps forever while the lock is free.      *)
(***************************************************************************)
NoForgottenSleeper ==
  \A t \in Threads :
    []<>(deadlines \/ pc[t] # "asleep" \/ ownedByWriter \/ readerCount > 0)
=============================================================================
