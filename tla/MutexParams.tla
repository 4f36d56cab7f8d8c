---------------------------- MODULE MutexParams ----------------------------
(***************************************************************************)
(* The parameters of PthreadMutex.                                         *)
(***************************************************************************)
EXTENDS Naturals, Actors

CONSTANT
  MaxCounter        \* The largest value of the counter field: 2^11 - 1.

ASSUME MutexAssumption ==
  /\ NoThread \notin Threads
  /\ MaxCounter \in Nat
=============================================================================
