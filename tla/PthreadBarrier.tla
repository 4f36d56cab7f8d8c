--------------------------- MODULE PthreadBarrier ---------------------------
(***************************************************************************)
(* Barriers, libc/bionic/pthread_barrier.cpp, used for several cycles by   *)
(* exactly init_count threads (more in one cycle is undefined, says the    *)
(* code), and destroyed by a thread that has returned from its last wait.  *)
(*                                                                         *)
(* A loop that loads the state and sleeps on the value it saw is one step: *)
(* the kernel's comparison is the load that counts.                        *)
(***************************************************************************)
EXTENDS Integers, FiniteSets, Futex

CONSTANTS
  Threads,          \* The threads of every cycle.
  Cycles            \* How many cycles they go through.

VARIABLES
  init_count,       \* Set by init, and to 0 by destroy.
  state,            \* "WAIT" or "RELEASE"
  wait_count,
  pc,
  entered,          \* History: cycles each thread has entered,
  returned          \* and returned from.

vars == <<init_count, state, wait_count, pc, entered, returned>>

(***************************************************************************)
(* idle       between two calls;                                           *)
(* enter      waits for the previous cycle to end (asleepEnter: asleep);   *)
(* count      about to increment wait_count;                               *)
(* release    the last to enter, about to store RELEASE;                   *)
(* wake       about to wake the others of this cycle;                      *)
(* wait       waits for the release (asleepWait: asleep);                  *)
(* leave      about to decrement wait_count;                               *)
(* reset      the last to leave, about to store WAIT;                      *)
(* wakeNext   about to read pshared and init_count and wake the sleepers;  *)
(* destroy    in destroy, waits for the cycle to end (asleepDestroy);      *)
(* check      in destroy, about to load wait_count and to clear init_count.*)
(***************************************************************************)
Locations ==
  {"idle", "enter", "asleepEnter", "count", "release", "wake", "wait",
   "asleepWait", "leave", "reset", "wakeNext", "destroy", "asleepDestroy", "check"}

Goto(t, l) == pc' = [pc EXCEPT ![t] = l]

(***************************************************************************)
(* Where a sleeper continues.                                              *)
(***************************************************************************)
Resume(l) ==
  CASE l = "asleepEnter" -> "enter"
    [] l = "asleepWait" -> "wait"
    [] l = "asleepDestroy" -> "destroy"

Sleepers == {t \in Threads : pc[t] \in {"asleepEnter", "asleepWait", "asleepDestroy"}}

WakeThenGoto(t, l, n) ==
  \E woken \in WakeUpTo(Sleepers, n) :
    pc' = [u \in Threads |-> IF u = t THEN l
                             ELSE IF u \in woken THEN Resume(pc[u])
                             ELSE pc[u]]

Return(t) == returned' = [returned EXCEPT ![t] = @ + 1]

-----------------------------------------------------------------------------
Init ==
  /\ init_count = Cardinality(Threads)
  /\ state = "WAIT"
  /\ wait_count = 0
  /\ pc = [t \in Threads |-> "idle"]
  /\ entered = [t \in Threads |-> 0]
  /\ returned = [t \in Threads |-> 0]

Wait(t) ==
  /\ pc[t] = "idle"
  /\ returned[t] < Cycles
  /\ Goto(t, "enter")
  /\ UNCHANGED <<init_count, state, wait_count, entered, returned>>

(***************************************************************************)
(* A faulty variant that does not wait for the previous cycle.             *)
(***************************************************************************)
EnterAtOnce(t) ==
  /\ pc[t] = "enter"
  /\ Goto(t, "count")
  /\ UNCHANGED <<init_count, state, wait_count, entered, returned>>

(***************************************************************************)
(* The first loop of pthread_barrier_wait.                                 *)
(***************************************************************************)
Enter(t) ==
  /\ pc[t] = "enter"
  /\ Goto(t, IF state = "RELEASE" THEN "asleepEnter" ELSE "count")
  /\ UNCHANGED <<init_count, state, wait_count, entered, returned>>

(***************************************************************************)
(* The compare-and-swap loop on wait_count.  The last thread to enter      *)
(* releases the others, if there are any.  The EINVAL for more than        *)
(* init_count threads is the negation of the guard; see NobodyTurnedAway.  *)
(***************************************************************************)
Count(t) ==
  /\ pc[t] = "count"
  /\ wait_count < init_count
  /\ wait_count' = wait_count + 1
  /\ entered' = [entered EXCEPT ![t] = @ + 1]
  /\ Goto(t, IF wait_count + 1 < init_count THEN "wait"
             ELSE IF wait_count > 0 THEN "release" ELSE "leave")
  /\ UNCHANGED <<init_count, state, returned>>

Release(t) ==
  /\ pc[t] = "release"
  /\ state' = "RELEASE"
  /\ Goto(t, "wake")
  /\ UNCHANGED <<init_count, wait_count, entered, returned>>

(***************************************************************************)
(* A faulty variant that wakes only one of the others.                     *)
(***************************************************************************)
WakeFew(t) ==
  /\ pc[t] = "wake"
  /\ WakeThenGoto(t, "leave", 1)
  /\ UNCHANGED <<init_count, state, wait_count, entered, returned>>

(***************************************************************************)
(* The wake of prev_wait_count threads.                                    *)
(***************************************************************************)
Wake(t) ==
  /\ pc[t] = "wake"
  /\ WakeThenGoto(t, "leave", Cardinality(Threads) - 1)
  /\ UNCHANGED <<init_count, state, wait_count, entered, returned>>

(***************************************************************************)
(* The loop of the threads that did not enter last.                        *)
(***************************************************************************)
AwaitRelease(t) ==
  /\ pc[t] = "wait"
  /\ Goto(t, IF state = "WAIT" THEN "asleepWait" ELSE "leave")
  /\ UNCHANGED <<init_count, state, wait_count, entered, returned>>

Interrupt(t) ==
  /\ t \in Sleepers
  /\ Goto(t, Resume(pc[t]))
  /\ UNCHANGED <<init_count, state, wait_count, entered, returned>>

(***************************************************************************)
(* The decrement of wait_count; the last thread ends the cycle.            *)
(***************************************************************************)
Leave(t) ==
  /\ pc[t] = "leave"
  /\ wait_count' = wait_count - 1
  /\ IF wait_count = 1
       THEN Goto(t, "reset") /\ UNCHANGED returned
       ELSE Goto(t, "idle") /\ Return(t)
  /\ UNCHANGED <<init_count, state, entered>>

Reset(t) ==
  /\ pc[t] = "reset"
  /\ state' = "WAIT"
  /\ Goto(t, "wakeNext")
  /\ UNCHANGED <<init_count, wait_count, entered, returned>>

(***************************************************************************)
(* A faulty variant without the wake after the store of WAIT.              *)
(***************************************************************************)
WakeNextSkipped(t) ==
  /\ pc[t] = "wakeNext"
  /\ Goto(t, "idle")
  /\ Return(t)
  /\ UNCHANGED <<init_count, state, wait_count, entered>>

(***************************************************************************)
(* The wake of the threads of the next cycle and of a destroying thread;   *)
(* its arguments are read from the barrier after the store of WAIT.        *)
(***************************************************************************)
WakeNext(t) ==
  /\ pc[t] = "wakeNext"
  /\ WakeThenGoto(t, "idle", init_count)
  /\ Return(t)
  /\ UNCHANGED <<init_count, state, wait_count, entered>>

-----------------------------------------------------------------------------
(***************************************************************************)
(* pthread_barrier_destroy by a thread that has gone through all cycles;   *)
(* a barrier already destroyed answers EINVAL.                             *)
(***************************************************************************)
Destroy(t) ==
  /\ pc[t] = "idle"
  /\ returned[t] = Cycles
  /\ init_count # 0
  /\ \A u \in Threads : pc[u] \notin {"destroy", "asleepDestroy", "check"}
  /\ Goto(t, "destroy")
  /\ UNCHANGED <<init_count, state, wait_count, entered, returned>>

AwaitCycleEnd(t) ==
  /\ pc[t] = "destroy"
  /\ Goto(t, IF state = "RELEASE" THEN "asleepDestroy" ELSE "check")
  /\ UNCHANGED <<init_count, state, wait_count, entered, returned>>

(***************************************************************************)
(* EBUSY while the barrier is in use, otherwise the barrier is destroyed.  *)
(***************************************************************************)
FinishDestroy(t) ==
  /\ pc[t] = "check"
  /\ init_count' = IF wait_count # 0 THEN init_count ELSE 0
  /\ Goto(t, "idle")
  /\ UNCHANGED <<state, wait_count, entered, returned>>

-----------------------------------------------------------------------------
Progress(t) ==
  \/ Wait(t) \/ Enter(t) \/ Count(t) \/ Release(t) \/ Wake(t)
  \/ AwaitRelease(t) \/ Leave(t) \/ Reset(t) \/ WakeNext(t)
  \/ AwaitCycleEnd(t) \/ FinishDestroy(t)

Next == \E t \in Threads : Progress(t) \/ Interrupt(t) \/ Destroy(t)

Spec == Init /\ [][Next]_vars

(***************************************************************************)
(* Every thread keeps calling pthread_barrier_wait until its last cycle.   *)
(***************************************************************************)
FairSpec == Spec /\ \A t \in Threads : WF_vars(Progress(t))

-----------------------------------------------------------------------------
TypeOK ==
  /\ init_count \in {0, Cardinality(Threads)}
  /\ state \in {"WAIT", "RELEASE"}
  /\ wait_count \in 0 .. Cardinality(Threads)
  /\ pc \in [Threads -> Locations]
  /\ entered \in [Threads -> 0 .. Cycles]
  /\ returned \in [Threads -> 0 .. Cycles]

(***************************************************************************)
(* "In each cycle, [init_count] threads must call pthread_barrier_wait()   *)
(* before any of them successfully return": nobody returns from a cycle    *)
(* that some thread has not entered, however the cycles overlap.           *)
(***************************************************************************)
NobodyReturnsEarly == \A t, u \in Threads : returned[t] <= entered[u]

(***************************************************************************)
(* No thread of a legal use gets the EINVAL meant for a thread too many:   *)
(* whoever is past the first loop finds room in wait_count.                *)
(***************************************************************************)
NobodyTurnedAway ==
  \A t \in Threads : pc[t] = "count" => wait_count < init_count

-----------------------------------------------------------------------------
(***************************************************************************)
(* The inductive invariant.  wait_count is the number of threads inside a  *)
(* cycle.  While a cycle fills, the threads inside it are one cycle ahead  *)
(* of the others; once it is released, all have entered equally often.     *)
(***************************************************************************)
Inside == {t \in Threads : pc[t] \in {"release", "wake", "wait", "asleepWait", "leave"}}

CountExact == wait_count = Cardinality(Inside)

InStep ==
  \A t, u \in Threads :
    /\ state = "RELEASE" \/ (t \in Inside <=> u \in Inside) => entered[t] = entered[u]
    /\ state = "WAIT" /\ t \in Inside /\ u \notin Inside => entered[t] = entered[u] + 1

(***************************************************************************)
(* Who fills and who ends a cycle, and that nobody enters one until the    *)
(* last has ended.  A thread that uses the barrier alone needs no release. *)
(***************************************************************************)
Phases ==
  \A t \in Threads :
    /\ pc[t] = "count" => state = "WAIT"
    /\ pc[t] = "release" =>
         /\ state = "WAIT" /\ Inside = Threads /\ Threads # {t}
         /\ \A u \in Threads \ {t} : pc[u] # "release"
    /\ pc[t] \in {"wake", "leave", "reset"} => state = "RELEASE" \/ Threads = {t}
    /\ pc[t] = "reset" => Inside = {} /\ \A u \in Threads \ {t} : pc[u] # "reset"

(***************************************************************************)
(* The legal use: a thread enters Cycles cycles, and destroys the barrier  *)
(* only when it has returned from the last.                                *)
(***************************************************************************)
LegalUse ==
  /\ \A t \in Threads :
       /\ entered[t] = IF t \in Inside \/ pc[t] \in {"reset", "wakeNext"} THEN returned[t] + 1 ELSE returned[t]
       /\ pc[t] \in {"enter", "asleepEnter", "count"} => returned[t] < Cycles
       /\ pc[t] \in {"destroy", "asleepDestroy", "check"} => returned[t] = Cycles
  /\ init_count = 0 => \E t \in Threads : returned[t] = Cycles

Inv == TypeOK /\ CountExact /\ InStep /\ Phases /\ LegalUse

(***************************************************************************)
(* Every thread gets through all its cycles: no thread of one cycle        *)
(* consumes the wake meant for a thread of the next, or is left behind.    *)
(***************************************************************************)
AllReturned == \A t \in Threads : returned[t] = Cycles

AllCyclesComplete == <>AllReturned

(***************************************************************************)
(* A thread that calls destroy gets an answer: it is not left asleep on a  *)
(* state whose change has already been announced.                          *)
(***************************************************************************)
DestroyReturns ==
  \A t \in Threads : []<>(pc[t] \notin {"destroy", "asleepDestroy", "check"})

=============================================================================
