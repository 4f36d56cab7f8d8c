----------------------------- MODULE Semaphore -----------------------------
(***************************************************************************)
(* POSIX semaphores, libc/bionic/semaphore.cpp.  The word holds a signed   *)
(* value whose -1 means "no permit, and somebody may be asleep".           *)
(*                                                                         *)
(* Each retry loop around a compare-and-swap is one step.  A call that     *)
(* fails without changing the word or its caller's place (EAGAIN of        *)
(* sem_trywait, EOVERFLOW of sem_post) is a stuttering step.               *)
(***************************************************************************)
EXTENDS Integers, Futex, SemaphoreParams

CONSTANT Threads

VARIABLES
  value,            \* SEMCOUNT_TO_VALUE(sem->count)
  pc,               \* Where each thread is inside its call.
  timed,            \* Whether that call is __sem_timedwait.
  posts,            \* History: permits added so far.
  takes             \* History: waits that have succeeded so far.

vars == <<value, pc, timed, posts, takes>>

(***************************************************************************)
(* idle    not in a call;                                                  *)
(* dec     about to run __sem_dec in the loop of a wait;                   *)
(* wait    about to enter futex_wait;                                      *)
(* asleep  sleeping in futex_wait;                                         *)
(* wake    in sem_post, about to enter futex_wake.                         *)
(***************************************************************************)
Locations == {"idle", "dec", "wait", "asleep", "wake"}

At(l) == {t \in Threads : pc[t] = l}

Goto(t, l) == pc' = [pc EXCEPT ![t] = l]

-----------------------------------------------------------------------------
Init ==
  /\ value = InitialValue
  /\ pc = [t \in Threads |-> "idle"]
  /\ timed = [t \in Threads |-> FALSE]
  /\ posts = 0
  /\ takes = 0

(***************************************************************************)
(* sem_wait enters its loop.                                               *)
(***************************************************************************)
Wait(t) ==
  /\ pc[t] = "idle"
  /\ Goto(t, "dec")
  /\ timed' = [timed EXCEPT ![t] = FALSE]
  /\ UNCHANGED <<value, posts, takes>>

(***************************************************************************)
(* __sem_trydec with a permit to take: sem_trywait, or a timed wait before *)
(* it looks at its deadline.                                               *)
(***************************************************************************)
TryWait(t) ==
  /\ pc[t] = "idle"
  /\ value > 0
  /\ value' = value - 1
  /\ takes' = takes + 1
  /\ UNCHANGED <<pc, timed, posts>>

(***************************************************************************)
(* __sem_timedwait without one: if check_timespec accepts the deadline the *)
(* call goes on to the loop, otherwise it returns the error.               *)
(***************************************************************************)
TimedWait(t) ==
  /\ pc[t] = "idle"
  /\ value <= 0
  /\ Goto(t, "dec")
  /\ timed' = [timed EXCEPT ![t] = TRUE]
  /\ UNCHANGED <<value, posts, takes>>

(***************************************************************************)
(* __sem_dec in the loop: a positive value is a permit, 0 becomes -1, and  *)
(* -1 stays.                                                               *)
(***************************************************************************)
Dec(t) ==
  /\ pc[t] = "dec"
  /\ value' = IF value >= 0 THEN value - 1 ELSE value
  /\ IF value > 0
       THEN Goto(t, "idle") /\ takes' = takes + 1
       ELSE Goto(t, "wait") /\ UNCHANGED takes
  /\ UNCHANGED <<timed, posts>>

(***************************************************************************)
(* __futex_wait_ex on the value -1; EAGAIN sends the thread back.          *)
(***************************************************************************)
FutexWait(t) ==
  /\ pc[t] = "wait"
  /\ Goto(t, IF value = -1 THEN "asleep" ELSE "dec")
  /\ UNCHANGED <<value, timed, posts, takes>>

(***************************************************************************)
(* The sleep ends with EINTR: a timed wait returns, an untimed one returns *)
(* only in programs for SDK 24 or later.                                   *)
(***************************************************************************)
Interrupt(t) ==
  /\ pc[t] = "asleep"
  /\ Goto(t, IF timed[t] \/ ReturnsEintr THEN "idle" ELSE "dec")
  /\ UNCHANGED <<value, timed, posts, takes>>

(***************************************************************************)
(* The deadline of a timed wait passes while it sleeps, or lies so far     *)
(* back that FutexWithTimeout returns ETIMEDOUT without a system call.     *)
(***************************************************************************)
Timeout(t) ==
  /\ pc[t] \in {"wait", "asleep"}
  /\ timed[t]
  /\ Goto(t, "idle")
  /\ UNCHANGED <<value, timed, posts, takes>>

(***************************************************************************)
(* Faulty variants of sem_post: -1 incremented like any value, and a wake  *)
(* only when the value was 0.                                              *)
(***************************************************************************)
PostIncrements(t) ==
  /\ pc[t] = "idle"
  /\ value < SEM_VALUE_MAX
  /\ posts < MaxPosts
  /\ value' = value + 1
  /\ posts' = posts + 1
  /\ Goto(t, IF value < 0 THEN "wake" ELSE "idle")
  /\ UNCHANGED <<timed, takes>>

PostWakesAtZero(t) ==
  /\ pc[t] = "idle"
  /\ value < SEM_VALUE_MAX
  /\ posts < MaxPosts
  /\ value' = IF value < 0 THEN 1 ELSE value + 1
  /\ posts' = posts + 1
  /\ Goto(t, IF value = 0 THEN "wake" ELSE "idle")
  /\ UNCHANGED <<timed, takes>>

(***************************************************************************)
(* sem_post: __sem_inc below the limit, from -1 directly to 1.             *)
(***************************************************************************)
Post(t) ==
  /\ pc[t] = "idle"
  /\ value < SEM_VALUE_MAX
  /\ posts < MaxPosts
  /\ value' = IF value < 0 THEN 1 ELSE value + 1
  /\ posts' = posts + 1
  /\ Goto(t, IF value < 0 THEN "wake" ELSE "idle")
  /\ UNCHANGED <<timed, takes>>

(***************************************************************************)
(* A faulty variant that wakes one sleeper only.                           *)
(***************************************************************************)
WakeOnlyOne(t) ==
  /\ pc[t] = "wake"
  /\ \E woken \in WakeOne(At("asleep")) :
       pc' = [u \in Threads |-> IF u = t THEN "idle"
                                ELSE IF u \in woken THEN "dec"
                                ELSE pc[u]]
  /\ UNCHANGED <<value, timed, posts, takes>>

(***************************************************************************)
(* sem_post after an increment from -1: wake every sleeper.                *)
(***************************************************************************)
Wake(t) ==
  /\ pc[t] = "wake"
  /\ \E woken \in WakeAll(At("asleep")) :
       pc' = [u \in Threads |-> IF u = t THEN "idle"
                                ELSE IF u \in woken THEN "dec"
                                ELSE pc[u]]
  /\ UNCHANGED <<value, timed, posts, takes>>

(***************************************************************************)
(* sem_getvalue: the marker is reported as 0.                              *)
(***************************************************************************)
GetValue == IF value < 0 THEN 0 ELSE value

-----------------------------------------------------------------------------
Progress(t) == Dec(t) \/ FutexWait(t) \/ Wake(t)

Next ==
  \E t \in Threads :
    \/ Wait(t)
    \/ TryWait(t)
    \/ TimedWait(t)
    \/ Post(t)
    \/ Progress(t)
    \/ Interrupt(t)
    \/ Timeout(t)

Spec == Init /\ [][Next]_vars

FairSpec == Spec /\ \A t \in Threads : WF_vars(Progress(t))

-----------------------------------------------------------------------------
TypeOK ==
  /\ value \in -1 .. SEM_VALUE_MAX
  /\ pc \in [Threads -> Locations]
  /\ timed \in [Threads -> BOOLEAN]
  /\ posts \in Nat
  /\ takes \in Nat

(***************************************************************************)
(* No permit is lost or invented: what sem_getvalue reports is the initial *)
(* value plus the posts minus the successful waits, through every mark     *)
(* left by waiters that sleep, time out or are interrupted.                *)
(***************************************************************************)
PermitsConserved == GetValue = InitialValue + posts - takes

(***************************************************************************)
(* While a thread sleeps, either the marker -1 is in place, so that the    *)
(* next sem_post wakes it, or a sem_post is about to wake it.              *)
(***************************************************************************)
NoLostWakeup == At("asleep") # {} => value = -1 \/ At("wake") # {}

Inv == TypeOK /\ PermitsConserved /\ NoLostWakeup

(***************************************************************************)
(* No thread sleeps forever on a semaphore that keeps a permit: the wake   *)
(* of all sleepers lets each compete for the permits there are.            *)
(***************************************************************************)
NoForgottenSleeper ==
  \A t \in Threads : []<>(pc[t] # "asleep" \/ value <= 0)
=============================================================================
