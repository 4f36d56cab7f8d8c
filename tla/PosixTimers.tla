---------------------------- MODULE PosixTimers ----------------------------
(***************************************************************************)
(* A SIGEV_THREAD timer, libc/bionic/posix_timers.cpp: timer_create starts  *)
(* a thread and a kernel timer that signals it, timer_delete stops both.    *)
(* The PosixTimer structure is allocated by the creator and freed by the    *)
(* thread.  Its startup handshake is a Lock (libc/private/bionic_lock.h).   *)
(*                                                                          *)
(* The signals of the timer thread are blocked and taken in order by        *)
(* __rt_sigtimedwait.  The kernel queues one expiry of a timer at a time,   *)
(* and may or may not take a queued one back when the timer is deleted.     *)
(***************************************************************************)
EXTENDS Naturals, Sequences

CONSTANT MaxFires      \* bound: expiries of the kernel timer

VARIABLES
  timer,          \* the structure: "none", "live" or "freed"
  lock,           \* startup_handshake_lock.state: 0, 1, or 2 with a waiter
  kernel,         \* the kernel timer: "none", "failed", "running" or "deleted"
  deleted,
  creator,        \* where timer_create is
  thread,         \* where __timer_thread_start is
  deleter,        \* where timer_delete is
  self,           \* it was called from the timer's own callback
  signals,        \* TIMER_SIGNALs queued for the thread, by si_code
  fires,
  late            \* callbacks begun after timer_delete had returned

vars == <<timer, lock, kernel, deleted, creator, thread, deleter, self, signals, fires, late>>

TypeOK ==
  /\ timer \in {"none", "live", "freed"} /\ lock \in 0 .. 2
  /\ kernel \in {"none", "failed", "running", "deleted"}
  /\ signals \in Seq({"SI_TIMER", "SI_TKILL"})
  /\ fires \in 0 .. MaxFires /\ late \in Nat
  /\ {deleted, self} \subseteq BOOLEAN
  /\ creator \in {"idle", "failed", "kernel", "unlock", "wake", "created"}
  /\ thread \in {"none", "starting", "contended", "asleep", "locked", "waiting", "fired", "calling",
                 "callback", "exited"}
  /\ deleter \in {"idle", "flag", "kill", "returned"}

Init ==
  /\ timer = "none" /\ lock = 0 /\ kernel = "none" /\ deleted = FALSE
  /\ creator = "idle" /\ thread = "none" /\ deleter = "idle" /\ self = FALSE
  /\ signals = <<>> /\ fires = 0 /\ late = 0

(***************************************************************************)
(* timer_create: the structure, the lock taken for the thread to wait for,  *)
(* the thread (or nothing at all if it cannot be started), the kernel       *)
(* timer, which may fail, and the unlock.                                   *)
(***************************************************************************)
CreateThread ==
  /\ creator = "idle"
  /\ \/ timer' = "live" /\ lock' = 1 /\ thread' = "starting" /\ creator' = "kernel"
     \/ timer' = "freed" /\ creator' = "failed" /\ UNCHANGED <<lock, thread>>
  /\ UNCHANGED <<kernel, deleted, deleter, self, signals, fires, late>>

CreateKernelTimer ==
  /\ creator = "kernel"
  /\ kernel' \in {"running", "failed"}
  /\ creator' = "unlock"
  /\ UNCHANGED <<timer, lock, deleted, thread, deleter, self, signals, fires, late>>

(* A faulty variant of UnlockHandshake: a field of the lock is read only    *)
(* once the lock has been given up.                                         *)
UnlockHandshakeReadsLate ==
  /\ creator = "unlock"
  /\ lock' = 0
  /\ creator' = IF lock = 2 THEN "wake reading" ELSE "created"
  /\ UNCHANGED <<timer, kernel, deleted, thread, deleter, self, signals, fires, late>>

UnlockHandshake ==
  /\ creator = "unlock"
  /\ lock' = 0
  /\ creator' = IF lock = 2 THEN "wake" ELSE "created"
  /\ UNCHANGED <<timer, kernel, deleted, thread, deleter, self, signals, fires, late>>

WakeHandshake ==
  /\ creator \in {"wake", "wake reading"}
  /\ thread' = IF thread = "asleep" THEN "starting" ELSE thread
  /\ creator' = "created"
  /\ UNCHANGED <<timer, lock, kernel, deleted, deleter, self, signals, fires, late>>

(***************************************************************************)
(* __timer_thread_start: the handshake, then one signal after the other.    *)
(***************************************************************************)
LockHandshake ==
  /\ thread = "starting"
  /\ lock' = 2
  /\ thread' = IF lock = 0 THEN "locked" ELSE "contended"
  /\ UNCHANGED <<timer, kernel, deleted, creator, deleter, self, signals, fires, late>>

FutexWait ==
  /\ thread = "contended"
  /\ thread' = IF lock = 2 THEN "asleep" ELSE "starting"
  /\ UNCHANGED <<timer, lock, kernel, deleted, creator, deleter, self, signals, fires, late>>

CheckKernelTimer ==
  /\ thread = "locked"
  /\ IF kernel = "failed"
     THEN timer' = "freed" /\ thread' = "exited"
     ELSE timer' = timer /\ thread' = "waiting"
  /\ UNCHANGED <<lock, kernel, deleted, creator, deleter, self, signals, fires, late>>

WaitForSignal ==
  /\ thread = "waiting" /\ signals # <<>>
  /\ signals' = Tail(signals)
  /\ IF Head(signals) = "SI_TIMER"
     THEN thread' = "fired" /\ timer' = timer
     ELSE thread' = "exited" /\ timer' = "freed"
  /\ UNCHANGED <<lock, kernel, deleted, creator, deleter, self, fires, late>>

(* A faulty variant of CheckDeleted: it does not look.                      *)
CheckDeletedNot ==
  /\ thread = "fired"
  /\ thread' = "calling"
  /\ UNCHANGED <<timer, lock, kernel, deleted, creator, deleter, self, signals, fires, late>>

CheckDeleted ==
  /\ thread = "fired"
  /\ thread' = IF deleted THEN "waiting" ELSE "calling"
  /\ UNCHANGED <<timer, lock, kernel, deleted, creator, deleter, self, signals, fires, late>>

CallCallback ==
  /\ thread = "calling"
  /\ thread' = "callback"
  /\ late' = IF deleter = "returned" THEN late + 1 ELSE late
  /\ UNCHANGED <<timer, lock, kernel, deleted, creator, deleter, self, signals, fires>>

CallbackReturns ==
  /\ thread = "callback"
  /\ ~(self /\ deleter \notin {"idle", "returned"})
  /\ thread' = "waiting"
  /\ UNCHANGED <<timer, lock, kernel, deleted, creator, deleter, self, signals, fires, late>>

(***************************************************************************)
(* timer_delete, by any thread that has the timer once timer_create has     *)
(* returned, or by the callback itself: the kernel timer, the flag, and     *)
(* the signal that makes the thread exit.                                   *)
(***************************************************************************)
DeleteKernelTimer(fromCallback) ==
  /\ deleter = "idle" /\ kernel = "running"
  /\ IF fromCallback THEN thread = "callback" ELSE creator = "created"
  /\ self' = fromCallback
  /\ kernel' = "deleted"
  /\ signals' \in {signals, <<>>}
  /\ deleter' = "flag"
  /\ UNCHANGED <<timer, lock, deleted, creator, thread, fires, late>>

StoreDeleted ==
  /\ deleter = "flag"
  /\ deleted' = TRUE
  /\ deleter' = "kill"
  /\ UNCHANGED <<timer, lock, kernel, creator, thread, self, signals, fires, late>>

(* A faulty variant of KillThread: the thread is not told.                  *)
KillThreadNot ==
  /\ deleter = "kill"
  /\ deleter' = "returned"
  /\ UNCHANGED <<timer, lock, kernel, deleted, creator, thread, self, signals, fires, late>>

KillThread ==
  /\ deleter = "kill"
  /\ signals' = Append(signals, "SI_TKILL")
  /\ deleter' = "returned"
  /\ UNCHANGED <<timer, lock, kernel, deleted, creator, thread, self, fires, late>>

(* The kernel timer expires.                                                *)
Fire ==
  /\ kernel = "running" /\ fires < MaxFires
  /\ fires' = fires + 1
  /\ signals' = IF signals = <<>> THEN <<"SI_TIMER">> ELSE signals
  /\ UNCHANGED <<timer, lock, kernel, deleted, creator, thread, deleter, self, late>>

Creates == CreateThread \/ CreateKernelTimer \/ UnlockHandshake \/ WakeHandshake
Runs == LockHandshake \/ FutexWait \/ CheckKernelTimer \/ WaitForSignal \/ CheckDeleted \/ CallCallback \/ CallbackReturns
Deletes == StoreDeleted \/ KillThread

Next ==
  \/ Creates \/ Runs \/ Deletes
  \/ \E fromCallback \in BOOLEAN : DeleteKernelTimer(fromCallback)
  \/ Fire

(* A call that has begun goes on, and a callback returns.                   *)
Fairness == WF_vars(Creates) /\ WF_vars(Runs) /\ WF_vars(Deletes)
Spec == Init /\ [][Next]_vars /\ Fairness

-----------------------------------------------------------------------------
(***************************************************************************)
(* Whoever still reads the structure finds it allocated: the creator up to  *)
(* its unlock, but not at the futex wake after it; the thread until it      *)
(* frees it; and timer_delete up to its pthread_kill.  After timer_delete   *)
(* has returned, at most the one callback begins whose check of deleted     *)
(* came before.                                                             *)
(***************************************************************************)
TimerOutlivesItsUsers ==
  /\ \/ creator \in {"kernel", "unlock", "wake reading"}
     \/ thread \in {"starting", "contended", "asleep", "locked", "waiting", "fired", "calling"}
     \/ deleter \in {"flag", "kill"}
     => timer = "live"
  /\ late <= 1

(***************************************************************************)
(* The inductive invariant.  The structure lives as long as the thread.     *)
(* The thread gets past the handshake only after the unlock, and exits only *)
(* because there is no kernel timer or because timer_delete has sent its    *)
(* signal, the last thing it does.  A thread that is about to call back     *)
(* after that has read deleted before, and reads it again before the next.  *)
(***************************************************************************)
Handshake ==
  /\ creator = "idle" => timer = "none"
  /\ creator \in {"idle", "failed"} <=> thread = "none"
  /\ creator \in {"idle", "failed", "kernel"} <=> kernel = "none"
  /\ creator \in {"kernel", "unlock"} => lock # 0 /\ thread \in {"starting", "contended", "asleep"}

FreedLast ==
  /\ timer = "live" <=> thread \notin {"none", "exited"}
  /\ thread = "exited" => kernel = "failed" \/ deleter = "returned"
  /\ deleter # "idle" <=> kernel = "deleted"
  /\ deleter # "returned" => \A i \in 1 .. Len(signals) : signals[i] # "SI_TKILL"

OneLate ==
  /\ deleted <=> deleter \in {"kill", "returned"}
  /\ late = 0 \/ (late = 1 /\ deleter = "returned" /\ thread # "calling")

Inv == TypeOK /\ Handshake /\ FreedLast /\ OneLate

(***************************************************************************)
(* A timer that could not be created, or has been deleted, is freed and its *)
(* thread exits.                                                            *)
(***************************************************************************)
TimerIsFreed ==
  []<>(creator = "failed" \/ kernel = "failed" \/ deleter = "returned"
         => timer = "freed" /\ thread \in {"none", "exited"})
=============================================================================
