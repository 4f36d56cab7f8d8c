------------------------------- MODULE Futex -------------------------------
(***************************************************************************)
(* The kernel's futex(2), as the code reaches it through                   *)
(* private/bionic_futex.h and bionic_futex.cpp.  A thread sleeping in      *)
(* FUTEX_WAIT_BITSET is a member of the set of sleepers of one address;    *)
(* FUTEX_WAKE removes threads from it.  The kernel promises nothing about  *)
(* which sleepers a bounded wake picks, so a wake is a choice among sets.  *)
(* The comparison FUTEX_WAIT makes before it sleeps is part of the waiting *)
(* module's action: it is atomic with the enqueueing.                      *)
(***************************************************************************)

EXTENDS Integers, FiniteSets

(***************************************************************************)
(* __futex_wake_ex(addr, shared, n): at most n sleepers are woken.         *)
(***************************************************************************)
WakeUpTo(sleepers, n) ==
  IF Cardinality(sleepers) <= n
    THEN {sleepers}
    ELSE {woken \in SUBSET sleepers : Cardinality(woken) = n}

(***************************************************************************)
(* __futex_wake_ex(addr, shared, 1): at most one sleeper is woken.         *)
(***************************************************************************)
WakeOne(sleepers) ==
  IF sleepers = {} THEN {{}} ELSE {{t} : t \in sleepers}

(***************************************************************************)
(* __futex_wake_ex(addr, shared, INT_MAX): every sleeper is woken.         *)
(***************************************************************************)
WakeAll(sleepers) == {sleepers}
=============================================================================
