-------------------------- MODULE SemaphoreParams --------------------------
(***************************************************************************)
(* The parameters of Semaphore.                                            *)
(***************************************************************************)
EXTENDS Naturals

CONSTANTS
  SEM_VALUE_MAX,    \* 0x3fffffff in the code.
  InitialValue,     \* The argument of sem_init.
  ReturnsEintr,     \* Target SDK version 24 or later.
  MaxPosts          \* A bound on the number of calls of sem_post.

ASSUME SemaphoreAssumption ==
  /\ SEM_VALUE_MAX \in Nat \ {0}
  /\ InitialValue \in 0 .. SEM_VALUE_MAX
  /\ ReturnsEintr \in BOOLEAN
  /\ MaxPosts \in Nat
=============================================================================
