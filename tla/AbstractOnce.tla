---------------------------- MODULE AbstractOnce ----------------------------
(***************************************************************************)
(* What one-time initialization promises: one thread at a time runs the    *)
(* initializer, nobody runs it again once it has completed, and a caller   *)
(* that is told to go ahead is told so after it has completed.             *)
(***************************************************************************)
CONSTANTS Threads, NoThread

VARIABLES
  runner,           \* The thread that runs the initializer.
  done,             \* Whether it has completed.
  returned          \* The threads that went ahead.

vars == <<runner, done, returned>>

Init ==
  /\ runner = NoThread
  /\ done = FALSE
  /\ returned = {}

Start(t) ==
  /\ runner = NoThread
  /\ ~done
  /\ runner' = t
  /\ UNCHANGED <<done, returned>>

(***************************************************************************)
(* The thread that has run the initializer goes ahead itself.              *)
(***************************************************************************)
Finish(t) ==
  /\ runner = t
  /\ runner' = NoThread
  /\ done' = TRUE
  /\ returned' = returned \union {t}

(***************************************************************************)
(* The initializer fails, and may be run again.                            *)
(***************************************************************************)
Abort(t) ==
  /\ runner = t
  /\ runner' = NoThread
  /\ UNCHANGED <<done, returned>>

Return(t) ==
  /\ done
  /\ returned' = returned \union {t}
  /\ UNCHANGED <<runner, done>>

Next ==
  \E t \in Threads : Start(t) \/ Finish(t) \/ Abort(t) \/ Return(t)

Spec == Init /\ [][Next]_vars
=============================================================================
