------------------------------- MODULE Actors -------------------------------
(***************************************************************************)
(* The threads of a process, and the value of an owner field that names    *)
(* none of them.                                                           *)
(***************************************************************************)
CONSTANTS
  Threads,
  NoThread

ASSUME ActorsAssumption == NoThread \notin Threads
=============================================================================
