-------------------------- MODULE ProcessServices --------------------------
(***************************************************************************)
(* What libc keeps for a whole process and several threads change: the     *)
(* exit and fork handlers, dynamic and static TLS, and ProcessTables.      *)
(* One run checks them side by side: a behaviour is a behaviour of one of  *)
(* them, the subject, while the others stay as they were initialised.      *)
(***************************************************************************)
EXTENDS ProcessTables, StaticTls

CONSTANTS
  Libraries, Exe, PageSize, EntrySize, MaxAtexit, MaxAtfork, MaxForks,  \* ProcessHandlers
  Libs, NoLib, MainThread, MaxGeneration                                \* ElfTls

ASSUME ProcessServicesAssumption ==
  /\ Exe \notin Libraries /\ NoLib \notin Libs
  /\ MainThread \in Threads
  /\ {PageSize, EntrySize, MaxAtexit, MaxAtfork, MaxForks, MaxGeneration} \subseteq Nat

VARIABLES
  subject,
  array, capacity, dso, call_depth, handlers_frames, exiting, unloaded, list,
  forkDso, handlers_owner, walk, prepared, finished, alive, process,
  signals, tlsdesc, generation, generation_copy, tls_table, module, dtvs, block,
  tls_frames, address, exited

handlers ==
  <<array, capacity, dso, call_depth, handlers_frames, exiting, unloaded, list,
    forkDso, handlers_owner, walk, prepared, finished, alive, process>>
tls ==
  <<signals, tlsdesc, generation, generation_copy, tls_table, module, dtvs, block,
    tls_frames, address, exited>>

vars == <<subject, handlers, malloc, tls, layout, fdsan>>

Handlers == INSTANCE ProcessHandlers
      WITH frames <- handlers_frames, owner <- handlers_owner
Tls == INSTANCE ElfTls
      WITH table <- tls_table, frames <- tls_frames

(***************************************************************************)
(* Architecture and kind of access are fixed where they do not matter.     *)
(***************************************************************************)
Init ==
  /\ subject \in {"handlers", "malloc", "tls", "layout", "fdsan"}
  /\ Handlers!Init /\ Malloc!Init /\ Tls!Init /\ Layout!Init /\ Fds!Init
  /\ subject # "tls" => ~signals /\ ~tlsdesc
  /\ subject # "layout" => arch = "arm64"

Next ==
  \/ /\ subject = "handlers" /\ Handlers!Next
     /\ UNCHANGED <<subject, malloc, tls, layout, fdsan>>
  \/ /\ subject = "malloc" /\ Malloc!Next
     /\ UNCHANGED <<subject, handlers, tls, layout, fdsan>>
  \/ /\ subject = "tls" /\ Tls!Next
     /\ UNCHANGED <<subject, handlers, malloc, layout, fdsan>>
  \/ /\ subject = "layout" /\ Layout!Next
     /\ UNCHANGED <<subject, handlers, malloc, tls, fdsan>>
  \/ /\ subject = "fdsan" /\ Fds!Next
     /\ UNCHANGED <<subject, handlers, malloc, tls, layout>>

Spec == Init /\ [][Next]_vars

-----------------------------------------------------------------------------
(***************************************************************************)
(* Once __cxa_finalize for a library has returned, no function of it is    *)
(* still to be called at exit or at a fork, and the array of exit          *)
(* functions keeps its order and fits its memory.                          *)
(***************************************************************************)
NothingOfUnloaded == Handlers!NothingOfUnloaded

(***************************************************************************)
(* Exit functions are called in the reverse order of their registration,   *)
(* once each, although callbacks run without the lock, register more and   *)
(* unload libraries.                                                       *)
(***************************************************************************)
CalledInReverse == Handlers!CalledInReverse

(***************************************************************************)
(* Every prepare handler of a fork is followed by its parent or child      *)
(* handler, in the opposite order, and the fork leaves the handlers' mutex *)
(* usable on both sides.                                                   *)
(***************************************************************************)
ForkIsPaired == Handlers!ForkIsPaired

(***************************************************************************)
(* The TLS block a thread got for a loaded library stays allocated and its *)
(* own; every block that is allocated can still be found by an update of   *)
(* the DTV or by the exit of the thread, and is freed then.                *)
(***************************************************************************)
TlsBlocksKept == Tls!AddressStaysValid /\ Tls!BlocksAreReachable

(***************************************************************************)
(* As long as a library stays loaded a thread gets the same TLS block for  *)
(* it, also when a signal handler grows the DTV in the middle of an access.*)
(***************************************************************************)
AddressIsStable == Tls!AddressIsStable

=============================================================================
