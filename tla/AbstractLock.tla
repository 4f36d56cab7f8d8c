---------------------------- MODULE AbstractLock ----------------------------
(***************************************************************************)
(* What a lock promises its users: it has at most one owner, a thread      *)
(* becomes the owner only of a free lock, and only the owner gives it up.  *)
(***************************************************************************)
CONSTANTS Threads, NoThread

VARIABLE owner

Init == owner = NoThread

Acquire(t) ==
  /\ owner = NoThread
  /\ owner' = t

Release(t) ==
  /\ owner = t
  /\ owner' = NoThread

Next == \E t \in Threads : Acquire(t) \/ Release(t)

Spec == Init /\ [][Next]_owner
=============================================================================
