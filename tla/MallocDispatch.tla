--------------------------- MODULE MallocDispatch ---------------------------
(***************************************************************************)
(* The dispatch tables behind malloc() and who may swap them at run time:   *)
(* libc/bionic/malloc_heapprofd.cpp (the heap profiler, requested by a      *)
(* signal), malloc_limit.cpp (the allocation limit), gwp_asan_wrappers.cpp  *)
(* and malloc_common_dynamic.cpp (what libc installs as it starts).         *)
(*                                                                          *)
(* A table is a pointer: "null" (the native allocator), "gwp", "debug"      *)
(* (malloc_debug or malloc_hooks), "ephemeral" (gEphemeralDispatch, whose   *)
(* malloc sets the profiler up), "heapprofd" and "limit".  The globals live *)
(* in a write-protected page that mutate() opens and closes again.  One     *)
(* step is one access to an atomic, a lock operation or an mprotect.  A     *)
(* signal handler is one more thread here: it takes no lock, so running it  *)
(* on top of another frame only removes interleavings.                      *)
(***************************************************************************)
EXTENDS Naturals

CONSTANTS
  Threads,
  NoThread,
  MaxPending,     \* bound: heapprofdinit threads created and not yet running
  Overlap         \* other threads run while one is in mallopt(M_DECAY_TIME)

VARIABLES
  started,        \* MallocInitImpl has run
  fresh,          \* and no other operation has, yet
  gHeapprofdState,
  gGlobalsMutateLock,
  gGlobalsMutating,
  writable,       \* the protection of the page of __libc_globals
  default_dispatch_table,
  current_dispatch_table,
  gPreviousDefaultDispatchTable,
  gEphemeralDispatch,   \* base: the table it was copied from; hooked: its malloc
  backing,        \* the table the library behind malloc_dispatch_table was initialised with
  gwp,            \* GwpAsanInitialized: "off", "on", or "late" when a profiler had
                  \* failed to load before
  limit_enabled,
  pending,        \* heapprofdinit threads still to run
  op, pc,         \* what each thread does, and where it is
  table           \* the table its malloc() has loaded

hooks == <<gHeapprofdState, gPreviousDefaultDispatchTable, gEphemeralDispatch, backing, pending>>
tables == <<default_dispatch_table, current_dispatch_table>>
guard == <<gGlobalsMutateLock, gGlobalsMutating, writable>>
vars == <<started, fresh, hooks, tables, guard, gwp, limit_enabled, op, pc, table>>

States == {"Initial", "InstallingEphemeral", "EphemeralInstalled", "RemovingEphemeral",
           "Installing", "Installed", "Uninstalling", "Incompatible"}
Tables == {"null", "gwp", "debug", "ephemeral", "heapprofd", "limit"}
Ops == {"none", "malloc", "signal", "hook", "init", "reset", "limit", "decay"}

(***************************************************************************)
(* Where an allocation made through table t ends up: the tables it passes,  *)
(* and whether that ends at the native allocator.                           *)
(***************************************************************************)
Behind(t) == IF t = "ephemeral" THEN gEphemeralDispatch.base
             ELSE IF t \in {"debug", "heapprofd"} THEN backing
             ELSE IF t = "limit" THEN default_dispatch_table
             ELSE "null"
Passes(t) == {t, Behind(t), Behind(Behind(t)), Behind(Behind(Behind(t)))}
Ends(t) == Behind(Behind(Behind(t))) = "null"

Init ==
  /\ started = FALSE /\ fresh = TRUE
  /\ gHeapprofdState = "Initial"
  /\ gGlobalsMutateLock = NoThread /\ gGlobalsMutating = FALSE /\ writable = FALSE
  /\ default_dispatch_table = "null" /\ current_dispatch_table = "null"
  /\ gPreviousDefaultDispatchTable = "null"
  /\ gEphemeralDispatch = [base |-> "null", hooked |-> FALSE]
  /\ backing = "null"
  /\ gwp = "off" /\ limit_enabled = FALSE
  /\ pending = 0
  /\ op = [t \in Threads |-> "none"]
  /\ pc = [t \in Threads |-> "idle"]
  /\ table = [t \in Threads |-> "null"]

(***************************************************************************)
(* libc's start, on one thread: GWP-ASan first, then malloc_debug or        *)
(* malloc_hooks, else the profiler when a property asks for it.  A library  *)
(* that does not load leaves its table out; the profiler's state becomes    *)
(* kHookInstalled all the same.                                             *)
(***************************************************************************)
MallocInitImpl ==
  /\ ~started
  /\ started' = TRUE
  /\ \E asan, debug, profile, loads \in BOOLEAN :
       LET first == IF asan THEN "gwp" ELSE "null"
           last  == IF debug THEN "debug" ELSE IF profile /\ loads THEN "heapprofd" ELSE first
       IN /\ gwp' = IF asan THEN "on" ELSE "off"
          /\ default_dispatch_table' = last
          /\ current_dispatch_table' = last
          /\ gHeapprofdState' = IF debug THEN "Incompatible"
                                ELSE IF profile THEN "Installed" ELSE "Initial"
          /\ gPreviousDefaultDispatchTable' = IF ~debug /\ profile THEN first ELSE "null"
          /\ backing' = IF last \in {"debug", "heapprofd"} THEN first ELSE "null"
  /\ UNCHANGED <<fresh, gEphemeralDispatch, pending, guard, limit_enabled, op, pc, table>>

Go(t, to) == pc' = [pc EXCEPT ![t] = to]

Begin(t, o, at) ==
  /\ started /\ pc[t] = "idle"
  /\ Overlap \/ \A u \in Threads : op[u] # "decay"
  /\ op' = [op EXCEPT ![t] = o]
  /\ Go(t, at)
  /\ fresh' = FALSE
  /\ UNCHANGED started

(* EnableGwpAsan: a zygote's child, still single-threaded, asks for it when *)
(* it starts.                                                               *)
EnableGwpAsan ==
  /\ started /\ fresh /\ gwp = "off"
  /\ default_dispatch_table = "null"
  /\ fresh' = FALSE
  /\ gwp' = IF gHeapprofdState = "Installed" THEN "late" ELSE "on"
  /\ default_dispatch_table' = "gwp"
  /\ current_dispatch_table' = IF current_dispatch_table = "null" THEN "gwp" ELSE current_dispatch_table
  /\ UNCHANGED <<started, hooks, guard, limit_enabled, op, pc, table>>

(***************************************************************************)
(* The five operations that swap a table, up to MaybeModifyGlobals: the     *)
(* signal and M_RESET_HOOKS look at the state first; the heapprofdinit      *)
(* thread runs once created; the limit can be set once.                     *)
(***************************************************************************)
SignalArrives(t) ==
  /\ Begin(t, "signal", "exchange")
  /\ gHeapprofdState # "Incompatible"
  /\ UNCHANGED <<hooks, tables, guard, gwp, limit_enabled, table>>

InitThreadStarts(t) ==
  /\ pending > 0
  /\ pending' = pending - 1
  /\ Begin(t, "init", "lock")
  /\ UNCHANGED <<gHeapprofdState, gPreviousDefaultDispatchTable, gEphemeralDispatch, backing,
                 tables, guard, gwp, limit_enabled, table>>

ResetHooks(t) ==
  /\ Begin(t, "reset", "lock")
  /\ gHeapprofdState # "Initial"
  /\ UNCHANGED <<hooks, tables, guard, gwp, limit_enabled, table>>

LimitEnable(t) ==
  /\ ~limit_enabled
  /\ limit_enabled' = TRUE
  /\ Begin(t, "limit", "lock")
  /\ UNCHANGED <<hooks, tables, guard, gwp, table>>

MalloptDecayTime(t) ==
  /\ Overlap \/ \A u \in Threads : pc[u] = "idle"
  /\ Begin(t, "decay", "open")
  /\ UNCHANGED <<hooks, tables, guard, gwp, limit_enabled, table>>

(***************************************************************************)
(* malloc(): load the current table, through the limit's the default one;   *)
(* calling the ephemeral table's malloc enters MallocInitHeapprofdHook.     *)
(***************************************************************************)
Malloc(t) ==
  /\ Begin(t, "malloc", "call")
  /\ table' = [table EXCEPT ![t] = current_dispatch_table]
  /\ UNCHANGED <<hooks, tables, guard, gwp, limit_enabled>>

MallocCall(t) ==
  /\ pc[t] = "call"
  /\ \/ /\ table[t] = "limit"
        /\ table' = [table EXCEPT ![t] = default_dispatch_table]
        /\ UNCHANGED <<op, pc>>
     \/ /\ table[t] = "ephemeral" /\ gEphemeralDispatch.hooked
        /\ op' = [op EXCEPT ![t] = "hook"]
        /\ Go(t, "lock")
        /\ UNCHANGED table
     \/ /\ table[t] # "limit" /\ ~(table[t] = "ephemeral" /\ gEphemeralDispatch.hooked)
        /\ op' = [op EXCEPT ![t] = "none"]
        /\ Go(t, "idle")
        /\ table' = [table EXCEPT ![t] = "null"]
  /\ UNCHANGED <<started, fresh, hooks, tables, guard, gwp, limit_enabled>>

(***************************************************************************)
(* MaybeModifyGlobals and EnableLimitDispatchTable: the mutex (not in the   *)
(* signal handler), then the exchange on gGlobalsMutating, which only a     *)
(* caller without the mutex can make fail.  The limit retries for a while   *)
(* and then gives up, so that it may be tried again later.                  *)
(***************************************************************************)
Lock(t) ==
  /\ pc[t] = "lock"
  /\ gGlobalsMutateLock = NoThread
  /\ gGlobalsMutateLock' = t
  /\ Go(t, "exchange")
  /\ UNCHANGED <<started, fresh, hooks, tables, gGlobalsMutating, writable, gwp, limit_enabled, op, table>>

(* A faulty variant of Exchange: it goes on whatever it found.              *)
ExchangeIgnored(t) ==
  /\ pc[t] = "exchange"
  /\ gGlobalsMutating' = TRUE
  /\ Go(t, IF op[t] = "limit" THEN "open" ELSE "transition")
  /\ UNCHANGED <<started, fresh, hooks, tables, gGlobalsMutateLock, writable, gwp, limit_enabled, op, table>>

Exchange(t) ==
  /\ pc[t] = "exchange"
  /\ gGlobalsMutating' = TRUE
  /\ \/ /\ ~gGlobalsMutating
        /\ Go(t, IF op[t] = "limit" THEN "open" ELSE "transition")
        /\ UNCHANGED limit_enabled
     \/ /\ gGlobalsMutating
        /\ Go(t, "unlock")
        /\ limit_enabled' = IF op[t] = "limit" THEN FALSE ELSE limit_enabled
  /\ UNCHANGED <<started, fresh, hooks, tables, gGlobalsMutateLock, writable, gwp, op, table>>

(* A compare-exchange on gHeapprofdState; a failure leaves f().             *)
Transition(t, o, from, to, next) ==
  /\ pc[t] = "transition" /\ op[t] = o
  /\ IF gHeapprofdState = from
     THEN gHeapprofdState' = to /\ Go(t, next)
     ELSE gHeapprofdState' = gHeapprofdState /\ Go(t, "clear")
  /\ UNCHANGED <<started, fresh, gPreviousDefaultDispatchTable, gEphemeralDispatch, backing, pending,
                 tables, guard, gwp, limit_enabled, op, table>>

MallocInitHeapprofdHook(t) == Transition(t, "hook", "EphemeralInstalled", "RemovingEphemeral", "open")
InitHeapprofd(t) == Transition(t, "init", "Initial", "Installing", "open")
DispatchReset(t) == Transition(t, "reset", "Installed", "Uninstalling", "open")

(***************************************************************************)
(* HandleHeapprofdSignal: from kInitialState it decides what stands behind  *)
(* the ephemeral table and remembers it; while the profiler's hooks are     *)
(* installed it keeps the earlier decision.                                 *)
(***************************************************************************)
Decide(t, previous) ==
  /\ gHeapprofdState' = "InstallingEphemeral"
  /\ gPreviousDefaultDispatchTable' = previous
  /\ gEphemeralDispatch' = [base |-> previous, hooked |-> FALSE]
  /\ Go(t, "arm")

GwpOrNull == IF default_dispatch_table = "gwp" THEN "gwp" ELSE "null"

(* A faulty variant of HandleHeapprofdSignal: it decides anew each time.    *)
HandleHeapprofdSignalAnew(t) ==
  /\ pc[t] = "transition" /\ op[t] = "signal"
  /\ \/ gHeapprofdState \in {"Initial", "Installed"} /\ Decide(t, GwpOrNull)
     \/ /\ gHeapprofdState \notin {"Initial", "Installed"}
        /\ Go(t, "clear")
        /\ UNCHANGED <<gHeapprofdState, gPreviousDefaultDispatchTable, gEphemeralDispatch>>
  /\ UNCHANGED <<started, fresh, backing, pending, tables, guard, gwp, limit_enabled, op, table>>

HandleHeapprofdSignal(t) ==
  /\ pc[t] = "transition" /\ op[t] = "signal"
  /\ \/ gHeapprofdState = "Initial" /\ Decide(t, GwpOrNull)
     \/ gHeapprofdState = "Installed" /\ Decide(t, gPreviousDefaultDispatchTable)
     \/ /\ gHeapprofdState \notin {"Initial", "Installed"}
        /\ Go(t, "clear")
        /\ UNCHANGED <<gHeapprofdState, gPreviousDefaultDispatchTable, gEphemeralDispatch>>
  /\ UNCHANGED <<started, fresh, backing, pending, tables, guard, gwp, limit_enabled, op, table>>

ArmEphemeral(t) ==
  /\ pc[t] = "arm"
  /\ gEphemeralDispatch' = [gEphemeralDispatch EXCEPT !.hooked = TRUE]
  /\ Go(t, "open")
  /\ UNCHANGED <<started, fresh, gHeapprofdState, gPreviousDefaultDispatchTable, backing, pending,
                 tables, guard, gwp, limit_enabled, op, table>>

(***************************************************************************)
(* WriteProtected::mutate: open the page, run the body, close it.           *)
(***************************************************************************)
Open(t) ==
  /\ pc[t] = "open"
  /\ writable' = TRUE
  /\ \/ op[t] = "init" /\ Go(t, "load")
     \/ op[t] \in {"limit", "decay"} /\ Go(t, op[t])
     \/ op[t] \in {"signal", "hook", "reset"} /\ Go(t, "default")
  /\ UNCHANGED <<started, fresh, hooks, tables, gGlobalsMutateLock, gGlobalsMutating, gwp, limit_enabled, op, table>>

(* CommonInstallHooks and FinishInstallHooks: load the profiler's library   *)
(* and initialise it with the table now in place; either may fail.          *)
LoadProfiler(t) ==
  /\ pc[t] = "load"
  /\ \/ backing' = default_dispatch_table /\ Go(t, "default")
     \/ backing' = backing /\ Go(t, "close")
  /\ UNCHANGED <<started, fresh, gHeapprofdState, gPreviousDefaultDispatchTable, gEphemeralDispatch, pending,
                 tables, guard, gwp, limit_enabled, op, table>>

TableOf(t) == IF op[t] = "signal" THEN "ephemeral"
              ELSE IF op[t] = "init" THEN "heapprofd"
              ELSE gPreviousDefaultDispatchTable

StoreDefault(t) ==
  /\ pc[t] = "default"
  /\ default_dispatch_table' = TableOf(t)
  /\ Go(t, "installed?")
  /\ UNCHANGED <<started, fresh, hooks, current_dispatch_table, guard, gwp, limit_enabled, op, table>>

(* A faulty variant of CheckLimitInstalled: it takes no notice of a limit.  *)
CheckLimitInstalledNever(t) ==
  /\ pc[t] = "installed?"
  /\ Go(t, "current")
  /\ UNCHANGED <<started, fresh, hooks, tables, guard, gwp, limit_enabled, op, table>>

CheckLimitInstalled(t) ==
  /\ pc[t] = "installed?"
  /\ Go(t, IF current_dispatch_table = "limit" THEN "close" ELSE "current")
  /\ UNCHANGED <<started, fresh, hooks, tables, guard, gwp, limit_enabled, op, table>>

StoreCurrent(t) ==
  /\ pc[t] = "current"
  /\ current_dispatch_table' = TableOf(t)
  /\ Go(t, "close")
  /\ UNCHANGED <<started, fresh, hooks, default_dispatch_table, guard, gwp, limit_enabled, op, table>>

StoreLimit(t) ==
  /\ pc[t] = "limit"
  /\ current_dispatch_table' = "limit"
  /\ Go(t, "close")
  /\ UNCHANGED <<started, fresh, hooks, default_dispatch_table, guard, gwp, limit_enabled, op, table>>

StoreDecayTime(t) ==
  /\ pc[t] = "decay"
  /\ Go(t, "close")
  /\ UNCHANGED <<started, fresh, hooks, tables, guard, gwp, limit_enabled, op, table>>

Close(t) ==
  /\ pc[t] = "close"
  /\ writable' = FALSE
  /\ \/ op[t] = "limit" /\ Go(t, "clear")
     \/ op[t] = "decay" /\ Go(t, "unlock")
     \/ op[t] \notin {"limit", "decay"} /\ Go(t, "state")
  /\ UNCHANGED <<started, fresh, hooks, tables, gGlobalsMutateLock, gGlobalsMutating, gwp, limit_enabled, op, table>>

(***************************************************************************)
(* The end of f(): the final state, and the thread that is to install the   *)
(* hooks, if it can be created.                                             *)
(***************************************************************************)
StoreState(t) ==
  /\ pc[t] = "state"
  /\ \/ op[t] = "signal" /\ gHeapprofdState' = "EphemeralInstalled"
     \/ op[t] = "init" /\ gHeapprofdState' = "Installed"
     \/ op[t] \in {"hook", "reset"} /\ gHeapprofdState' = "Initial"
  /\ pending' \in IF op[t] = "hook" THEN {pending, pending + 1} ELSE {pending}
  /\ pending' <= MaxPending
  /\ Go(t, "clear")
  /\ UNCHANGED <<started, fresh, gPreviousDefaultDispatchTable, gEphemeralDispatch, backing,
                 tables, guard, gwp, limit_enabled, op, table>>

ClearMutating(t) ==
  /\ pc[t] = "clear"
  /\ gGlobalsMutating' = FALSE
  /\ Go(t, "unlock")
  /\ UNCHANGED <<started, fresh, hooks, tables, gGlobalsMutateLock, writable, gwp, limit_enabled, op, table>>

Unlock(t) ==
  /\ pc[t] = "unlock"
  /\ gGlobalsMutateLock' = IF gGlobalsMutateLock = t THEN NoThread ELSE gGlobalsMutateLock
  /\ Go(t, IF op[t] = "hook" THEN "serve" ELSE "idle")
  /\ op' = [op EXCEPT ![t] = IF op[t] = "hook" THEN "malloc" ELSE "none"]
  /\ UNCHANGED <<started, fresh, hooks, tables, gGlobalsMutating, writable, gwp, limit_enabled, table>>

(* The allocation that met the ephemeral hook is served by the table that   *)
(* was in place before.                                                     *)
Serve(t) ==
  /\ pc[t] = "serve"
  /\ table' = [table EXCEPT ![t] = gPreviousDefaultDispatchTable]
  /\ Go(t, "call")
  /\ UNCHANGED <<started, fresh, hooks, tables, guard, gwp, limit_enabled, op>>

Next ==
  \/ MallocInitImpl
  \/ EnableGwpAsan
  \/ \E t \in Threads :
       \/ SignalArrives(t) \/ InitThreadStarts(t) \/ ResetHooks(t) \/ LimitEnable(t) \/ MalloptDecayTime(t)
       \/ Malloc(t) \/ MallocCall(t) \/ Lock(t) \/ Exchange(t)
       \/ MallocInitHeapprofdHook(t) \/ InitHeapprofd(t) \/ DispatchReset(t) \/ HandleHeapprofdSignal(t)
       \/ ArmEphemeral(t) \/ Open(t) \/ LoadProfiler(t) \/ StoreDefault(t) \/ CheckLimitInstalled(t)
       \/ StoreCurrent(t) \/ StoreLimit(t) \/ StoreDecayTime(t) \/ Close(t)
       \/ StoreState(t) \/ ClearMutating(t) \/ Unlock(t) \/ Serve(t)

Spec == Init /\ [][Next]_vars

TypeOK ==
  /\ gHeapprofdState \in States
  /\ {default_dispatch_table, current_dispatch_table, gPreviousDefaultDispatchTable, backing} \subseteq Tables
  /\ gEphemeralDispatch \in [base : Tables, hooked : BOOLEAN]
  /\ gGlobalsMutateLock \in Threads \cup {NoThread}
  /\ pending \in 0 .. MaxPending
  /\ op \in [Threads -> Ops] /\ table \in [Threads -> Tables]

-----------------------------------------------------------------------------
Stores == {"default", "installed?", "current", "limit", "decay"}

(***************************************************************************)
(* A store to __libc_globals finds its page writable: no other mutate()     *)
(* closes it in between.                                                    *)
(***************************************************************************)
StoresFindPageOpen == \A t \in Threads : pc[t] \in Stores => writable

(***************************************************************************)
(* Once GWP-ASan serves allocations, every table in force, remembered or    *)
(* already loaded by a malloc() in progress still leads to it, so that a    *)
(* pointer GWP-ASan handed out is also freed by it, unless it was enabled   *)
(* after a profiler had failed to load, whose state remembers the native    *)
(* allocator; and in no case does a table lead back to itself.              *)
(***************************************************************************)
InForce == {current_dispatch_table, default_dispatch_table} \cup {table[t] : t \in {u \in Threads : pc[u] = "call"}}

AllocatorKept ==
  \A d \in InForce : Ends(d) /\ (gwp = "on" => "gwp" \in Passes(d))

(***************************************************************************)
(* An allocation limit, once in force, is never swapped out again by the    *)
(* profiler's comings and goings.                                           *)
(***************************************************************************)
LimitStays == [][current_dispatch_table = "limit" => current_dispatch_table' = "limit"]_vars
-----------------------------------------------------------------------------
(***************************************************************************)
(* The inductive invariant.  Which places of which operation there are:     *)
(***************************************************************************)
Mutates == {"transition", "arm", "open", "load", "default", "installed?", "current",
            "limit", "decay", "close", "state", "clear"}
Changes == {"arm", "open", "load", "default", "installed?", "current", "close", "state"}
Places == {"idle", "call", "serve", "lock", "exchange", "unlock"} \cup Mutates

Fits(o, x) ==
  /\ o = "none"   => x = "idle"
  /\ o = "malloc" => x \in {"call", "serve"}
  /\ o = "decay"  => x \in {"open", "decay", "close", "unlock"}
  /\ o = "limit"  => x \in {"lock", "exchange", "open", "limit", "close", "clear", "unlock"}
  /\ o \in {"signal", "init", "hook", "reset"} =>
       x \in {"lock", "exchange", "transition", "clear", "unlock"} \cup Changes
  /\ x = "arm"    => o = "signal"
  /\ x = "load"   => o = "init"

PlacesOK ==
  /\ op \in [Threads -> Ops] /\ pc \in [Threads -> Places] /\ table \in [Threads -> Tables]
  /\ default_dispatch_table \in Tables /\ current_dispatch_table \in Tables
  /\ gPreviousDefaultDispatchTable \in Tables /\ pending \in Nat
  /\ \A t \in Threads : Fits(op[t], pc[t])

(***************************************************************************)
(* One thread at a time is between the exchange of gGlobalsMutating and its *)
(* reset, and M_DECAY_TIME runs alone; so what one of them opened is open,  *)
(* and the limit is not installed between a look for it and a store.        *)
(***************************************************************************)
OneMutates ==
  /\ \A t, u \in Threads : pc[t] \in Mutates /\ pc[u] \in Mutates => t = u
  /\ \A t \in Threads : pc[t] \in Mutates => gGlobalsMutating \/ op[t] = "decay"
  /\ \A t, u \in Threads : op[t] = "decay" /\ u # t => op[u] = "none"
  /\ \A t \in Threads : pc[t] \in Stores \cup {"load", "close"} => writable
  /\ \A t \in Threads : pc[t] = "current" => current_dispatch_table # "limit"

(***************************************************************************)
(* The tables that are an allocator, and those that lead to one.            *)
(***************************************************************************)
Allocators ==
  IF gwp = "off" THEN {"null"} ELSE IF gwp = "on" THEN {"gwp"} ELSE {"null", "gwp"}

Leads(d) == \/ d \in Allocators \cup {"limit"}
            \/ d = "ephemeral" /\ gEphemeralDispatch.base \in Allocators
            \/ d \in {"debug", "heapprofd"} /\ backing \in Allocators

(***************************************************************************)
(* What the state of the profiler says of the table it has remembered, of   *)
(* the default table and of the thread that changes them.                   *)
(***************************************************************************)
Restored == {"installed?", "current", "close", "state"}

Agrees(o, x) ==
  /\ x \in Changes => /\ o = "signal" => gHeapprofdState = "InstallingEphemeral"
                      /\ o = "init"   => gHeapprofdState = "Installing"
                      /\ o = "hook"   => gHeapprofdState = "RemovingEphemeral"
                      /\ o = "reset"  => gHeapprofdState = "Uninstalling"
  /\ o \in {"hook", "reset"} /\ x \in Restored => default_dispatch_table \in Allocators
  /\ o = "init" /\ x \in {"open", "load"} => default_dispatch_table \in Allocators
  /\ o = "init" /\ x \in {"default", "installed?", "current"} => backing \in Allocators
  /\ o \in {"hook", "init"} \/ x = "serve" => gPreviousDefaultDispatchTable \in Allocators
  /\ o = "signal" /\ x \in Changes => gEphemeralDispatch.base \in Allocators

Remembered ==
  /\ gHeapprofdState = "Initial" => default_dispatch_table \in Allocators
  /\ gHeapprofdState \notin {"Initial", "Incompatible"} => gPreviousDefaultDispatchTable \in Allocators
  /\ pending > 0 \/ "ephemeral" \in {default_dispatch_table, current_dispatch_table} =>
       gPreviousDefaultDispatchTable \in Allocators

StateAgrees ==
  /\ Remembered
  /\ \A t \in Threads :
       /\ Agrees(op[t], pc[t])
       /\ pc[t] = "call" /\ table[t] = "ephemeral" => gPreviousDefaultDispatchTable \in Allocators

TablesLead ==
  /\ default_dispatch_table # "limit" /\ Leads(default_dispatch_table)
  /\ Leads(current_dispatch_table)
  /\ \A t \in Threads : pc[t] = "call" => Leads(table[t])

(***************************************************************************)
(* Before the first operation every thread is idle and nothing is hooked.   *)
(***************************************************************************)
FreshIsQuiet ==
  /\ fresh => /\ \A t \in Threads : op[t] = "none"
              /\ pending = 0
              /\ current_dispatch_table = default_dispatch_table
              /\ default_dispatch_table # "ephemeral"
              /\ gHeapprofdState \in {"Initial", "Installed", "Incompatible"}
  /\ ~started => fresh /\ gwp = "off" /\ default_dispatch_table = "null"

(***************************************************************************)
(* Who is where, and, resting on it, where the tables lead.                 *)
(***************************************************************************)
Control == PlacesOK /\ OneMutates /\ FreshIsQuiet
Inv == Control /\ StateAgrees /\ TablesLead
=============================================================================
