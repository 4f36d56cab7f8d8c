--------------------------- MODULE ProcessTables ---------------------------
(***************************************************************************)
(* Tables libc keeps for a whole process: the dispatch tables of malloc    *)
(* and the tags of file descriptors.  Each is an instance of its module,   *)
(* over variables of its own.                                              *)
(***************************************************************************)
EXTENDS Integers, FiniteSets, Actors

CONSTANTS
  MaxPending, Overlap,                                  \* MallocDispatch
  Openers, NoTag, InlineFds, MaxFds, LowFds, PageEntries \* Fdsan

VARIABLES
  started, fresh, gHeapprofdState, gGlobalsMutateLock, gGlobalsMutating, writable,
  default_dispatch_table, current_dispatch_table, gPreviousDefaultDispatchTable,
  gEphemeralDispatch, backing, gwp, limit_enabled, pending, op, malloc_pc,
  malloc_table,
  open, rlim_max, overflow, len, close_tag, fdsan_pc, fd, fdsan_owner, fdsan_table,
  fdsan_error

malloc ==
  <<started, fresh, gHeapprofdState, gGlobalsMutateLock, gGlobalsMutating, writable,
    default_dispatch_table, current_dispatch_table, gPreviousDefaultDispatchTable,
    gEphemeralDispatch, backing, gwp, limit_enabled, pending, op, malloc_pc,
    malloc_table>>
fdsan ==
  <<open, rlim_max, overflow, len, close_tag, fdsan_pc, fd, fdsan_owner,
    fdsan_table, fdsan_error>>

Malloc == INSTANCE MallocDispatch
      WITH pc <- malloc_pc, table <- malloc_table
Fds == INSTANCE Fdsan
      WITH Threads <- Openers, pc <- fdsan_pc, owner <- fdsan_owner,
           table <- fdsan_table

ASSUME MallocAssumption ==
  MaxPending \in Nat /\ Overlap \in BOOLEAN

(***************************************************************************)
(* A process can have a descriptor, and tag 0 is nobody's.                 *)
(***************************************************************************)
ASSUME FdsanAssumption ==
  /\ NoTag \notin Openers \cup {Fds!Inline}
  /\ InlineFds \in Nat /\ LowFds \in Nat /\ MaxFds \in Nat \ {0}
  /\ LowFds <= MaxFds /\ PageEntries \in Nat \ {0}

-----------------------------------------------------------------------------
(***************************************************************************)
(* Threads that change the protected globals of malloc at the same time do *)
(* not close the page on each other.                                       *)
(***************************************************************************)
StoresFindPageOpen == Malloc!StoresFindPageOpen

(***************************************************************************)
(* Once GWP-ASan serves allocations every dispatch table in force,         *)
(* remembered or already loaded still leads to it, unless it was enabled   *)
(* after a profiler had failed to load; and none leads back to itself,     *)
(* however often the profiler comes and goes.                              *)
(***************************************************************************)
AllocatorKept == Malloc!AllocatorKept

(***************************************************************************)
(* An allocation limit, once in force, is never swapped out again by the   *)
(* profiler.                                                               *)
(***************************************************************************)
LimitStays == Malloc!LimitStays

(***************************************************************************)
(* fdsan reports no descriptor below the limit in a program that closes    *)
(* each once with the tag it gave it, whatever is reused, allocated at     *)
(* once, vforked or limited meanwhile.                                     *)
(***************************************************************************)
NoFalseAlarm == Fds!NoFalseAlarm
=============================================================================
