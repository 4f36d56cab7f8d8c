----------------------- MODULE ProcessTablesProofs -----------------------
(***************************************************************************)
(* Proofs about the tables libc keeps for a process: the dispatch tables   *)
(* of malloc (MallocDispatch) and the tags of descriptors (Fdsan).         *)
(***************************************************************************)
EXTENDS ProcessTables, TLAPS

-----------------------------------------------------------------------------
(*  The dispatch tables of malloc (MallocDispatch).                        *)

(***************************************************************************)
(* A step of thread t leaves the other threads where they are.             *)
(***************************************************************************)
OthersStay(t) ==
  \A u \in Threads : u # t =>
    op'[u] = op[u] /\ malloc_pc'[u] = malloc_pc[u] /\ malloc_table'[u] = malloc_table[u]

(***************************************************************************)
(* The steps outside the section that gGlobalsMutating guards, and those   *)
(* within it up to its reset.                                              *)
(***************************************************************************)
Arrives(t) ==
  \/ Malloc!SignalArrives(t) \/ Malloc!InitThreadStarts(t) \/ Malloc!ResetHooks(t)
  \/ Malloc!LimitEnable(t) \/ Malloc!Malloc(t)
Outside(t) == Malloc!MallocCall(t) \/ Malloc!Lock(t) \/ Malloc!Unlock(t) \/ Malloc!Serve(t)
Transits(t) == Malloc!MallocInitHeapprofdHook(t) \/ Malloc!InitHeapprofd(t) \/ Malloc!DispatchReset(t)
Within(t) ==
  \/ Malloc!ArmEphemeral(t) \/ Malloc!Open(t) \/ Malloc!LoadProfiler(t) \/ Malloc!StoreDefault(t)
  \/ Malloc!CheckLimitInstalled(t) \/ Malloc!StoreCurrent(t) \/ Malloc!StoreLimit(t)
  \/ Malloc!StoreDecayTime(t) \/ Malloc!Close(t) \/ Malloc!StoreState(t) \/ Malloc!ClearMutating(t)

(***************************************************************************)
(* As libc starts nobody is in malloc and no table is installed.           *)
(***************************************************************************)
LEMMA MallocInitInv == Malloc!Init => Malloc!Inv
<1> USE Zenon
<1> SUFFICES ASSUME Malloc!Init PROVE Malloc!Inv
  OBVIOUS
<1> USE DEF Malloc!Init
<1>0. 0 \in Nat /\ ~(0 > 0)
  BY SMT
<1>1. Malloc!PlacesOK
  BY <1>0 DEF Malloc!PlacesOK, Malloc!Fits, Malloc!Ops, Malloc!Tables, Malloc!Places
<1>2. Malloc!OneMutates
  BY DEF Malloc!OneMutates, Malloc!Mutates, Malloc!Stores
<1>3. Malloc!FreshIsQuiet
  BY DEF Malloc!FreshIsQuiet
<1>4. Malloc!StateAgrees
  BY <1>0 DEF Malloc!StateAgrees, Malloc!Agrees, Malloc!Remembered, Malloc!Changes, Malloc!Restored,
     Malloc!Allocators
<1>5. Malloc!TablesLead
  BY DEF Malloc!TablesLead, Malloc!Leads, Malloc!Allocators
<1>6. QED
  BY <1>1, <1>2, <1>3, <1>4, <1>5 DEF Malloc!Inv, Malloc!Control

(***************************************************************************)
(* Each operation stays in its own places when one thread moves to a place *)
(* that fits what it does.                                                 *)
(***************************************************************************)
LEMMA PlacesKept ==
  ASSUME Malloc!PlacesOK, NEW t \in Threads, OthersStay(t),
         op' \in [Threads -> Malloc!Ops], malloc_pc' \in [Threads -> Malloc!Places],
         malloc_table' \in [Threads -> Malloc!Tables],
         default_dispatch_table' \in Malloc!Tables, current_dispatch_table' \in Malloc!Tables,
         gPreviousDefaultDispatchTable' \in Malloc!Tables, pending' \in Nat,
         Malloc!Fits(op'[t], malloc_pc'[t])
  PROVE  Malloc!PlacesOK'
<1> USE Zenon
<1>1. ASSUME NEW u \in Threads PROVE Malloc!Fits(op'[u], malloc_pc'[u])
  <2>1. CASE u = t
    BY <2>1
  <2>2. CASE u # t
    BY <2>2 DEF OthersStay, Malloc!PlacesOK
  <2>3. QED
    BY <2>1, <2>2
<1>2. QED
  BY <1>1 DEF Malloc!PlacesOK, Malloc!Fits

(***************************************************************************)
(* The thread inside the section may move on: no other is there.           *)
(***************************************************************************)
LEMMA InsiderMoves ==
  ASSUME Malloc!OneMutates, NEW t \in Threads, OthersStay(t), op' = op,
         malloc_pc[t] \in Malloc!Mutates,
         malloc_pc'[t] \in Malloc!Mutates /\ gGlobalsMutating => gGlobalsMutating',
         malloc_pc'[t] \in Malloc!Stores \cup {"load", "close"} => writable',
         malloc_pc'[t] = "current" => current_dispatch_table' # "limit"
  PROVE  Malloc!OneMutates'
<1> USE Zenon
<1>1. ASSUME NEW u \in Threads, u # t PROVE malloc_pc'[u] = malloc_pc[u] /\ malloc_pc[u] \notin Malloc!Mutates
  BY <1>1 DEF OthersStay, Malloc!OneMutates
<1>2. Malloc!Stores \cup {"load", "close"} \subseteq Malloc!Mutates /\ "current" \in Malloc!Mutates
  BY DEF Malloc!Stores, Malloc!Mutates
<1>3. \A u \in Threads : malloc_pc'[u] \in Malloc!Mutates => u = t
  BY <1>1
<1>4. \A u \in Threads : malloc_pc'[u] \in Malloc!Mutates => gGlobalsMutating' \/ op'[u] = "decay"
  BY <1>3 DEF Malloc!OneMutates
<1>5. \A u, v \in Threads : op'[u] = "decay" /\ v # u => op'[v] = "none"
  BY DEF Malloc!OneMutates
<1>6. QED
  BY <1>2, <1>3, <1>4, <1>5 DEF Malloc!OneMutates, Malloc!Mutates, Malloc!Stores

(***************************************************************************)
(* A thread outside the section may move there, and begin an operation     *)
(* when no other is in mallopt(M_DECAY_TIME).                              *)
(***************************************************************************)
LEMMA OutsiderMoves ==
  ASSUME Malloc!OneMutates, NEW t \in Threads, OthersStay(t),
         malloc_pc'[t] \notin Malloc!Mutates, op'[t] # "decay",
         op'[t] # "none" => \A u \in Threads : u # t => op[u] # "decay",
         gGlobalsMutating => gGlobalsMutating', writable' = writable,
         current_dispatch_table' = current_dispatch_table
  PROVE  Malloc!OneMutates'
<1> USE Zenon
<1>1. ASSUME NEW u \in Threads, u # t PROVE malloc_pc'[u] = malloc_pc[u] /\ op'[u] = op[u]
  BY <1>1 DEF OthersStay
<1>2. Malloc!Stores \cup {"load", "close"} \subseteq Malloc!Mutates /\ "current" \in Malloc!Mutates
  BY DEF Malloc!Stores, Malloc!Mutates
<1>3. \A u \in Threads : malloc_pc'[u] \in Malloc!Mutates =>
        u # t /\ malloc_pc'[u] = malloc_pc[u] /\ op'[u] = op[u]
  BY <1>1
<1>4. ASSUME NEW u \in Threads, NEW v \in Threads, op'[u] = "decay", v # u
      PROVE  op'[v] = "none"
  <2>1. u # t /\ op[u] = "decay"
    BY <1>1, <1>4
  <2>2. CASE v = t
    BY <2>1, <2>2
  <2>3. CASE v # t
    BY <1>1, <1>4, <2>1, <2>3 DEF Malloc!OneMutates
  <2>4. QED
    BY <2>2, <2>3
<1>5. \A u, v \in Threads : malloc_pc'[u] \in Malloc!Mutates /\ malloc_pc'[v] \in Malloc!Mutates => u = v
  BY <1>3 DEF Malloc!OneMutates
<1>6. \A u \in Threads : malloc_pc'[u] \in Malloc!Mutates => gGlobalsMutating' \/ op'[u] = "decay"
  BY <1>3 DEF Malloc!OneMutates
<1>7. \A u \in Threads : malloc_pc'[u] \in Malloc!Stores \cup {"load", "close"} => writable'
  <2> SUFFICES ASSUME NEW u \in Threads, malloc_pc'[u] \in Malloc!Stores \cup {"load", "close"} PROVE writable
    OBVIOUS
  <2>1. malloc_pc'[u] = malloc_pc[u]
    BY <1>2, <1>3
  <2>2. QED
    BY <2>1 DEF Malloc!OneMutates
<1>8. \A u \in Threads : malloc_pc'[u] = "current" => current_dispatch_table' # "limit"
  BY <1>2, <1>3 DEF Malloc!OneMutates
<1>9. QED
  BY <1>4, <1>5, <1>6, <1>7, <1>8 DEF Malloc!OneMutates, Malloc!Mutates, Malloc!Stores

(***************************************************************************)
(* The thread in the section goes on to x.                                 *)
(***************************************************************************)
Proceeds(t, x) ==
  /\ malloc_pc[t] \in Malloc!Mutates /\ x \in Malloc!Places /\ Malloc!Fits(op[t], x)
  /\ malloc_pc' = [malloc_pc EXCEPT ![t] = x]
  /\ op' = op /\ malloc_table' = malloc_table /\ started' = started /\ fresh' = fresh
  /\ x \in Malloc!Mutates /\ gGlobalsMutating => gGlobalsMutating'
  /\ x \in Malloc!Stores \cup {"load", "close"} => writable'
  /\ x = "current" => current_dispatch_table' # "limit"
  /\ default_dispatch_table' \in Malloc!Tables /\ current_dispatch_table' \in Malloc!Tables
  /\ gPreviousDefaultDispatchTable' \in Malloc!Tables /\ pending' \in Nat

(***************************************************************************)
(* A thread outside of it begins o at x, or goes on with it there.         *)
(***************************************************************************)
Turns(t, o, x) ==
  /\ o \in Malloc!Ops \ {"decay"} /\ x \in Malloc!Places \ Malloc!Mutates /\ Malloc!Fits(o, x)
  /\ op' = [op EXCEPT ![t] = o] /\ malloc_pc' = [malloc_pc EXCEPT ![t] = x]
  /\ o # "none" => \A u \in Threads : u # t => op[u] # "decay"
  /\ gGlobalsMutating => gGlobalsMutating'
  /\ writable' = writable
  /\ default_dispatch_table' = default_dispatch_table
  /\ current_dispatch_table' = current_dispatch_table
  /\ gPreviousDefaultDispatchTable' = gPreviousDefaultDispatchTable /\ pending' \in Nat
  /\ malloc_table' \in [Threads -> Malloc!Tables]
  /\ \A u \in Threads : u # t => malloc_table'[u] = malloc_table[u]

(***************************************************************************)
(* A thread in an operation is not idle, so the first operation is past.   *)
(***************************************************************************)
LEMMA BusyNotFresh ==
  ASSUME Malloc!Control, NEW t \in Threads, malloc_pc[t] # "idle", started' = started, fresh' = fresh
  PROVE  Malloc!FreshIsQuiet' /\ started /\ ~fresh
<1> USE Zenon
<1>1. op[t] # "none"
  BY DEF Malloc!Control, Malloc!PlacesOK, Malloc!Fits
<1>2. ~fresh /\ started
  BY <1>1 DEF Malloc!Control, Malloc!FreshIsQuiet
<1>3. QED
  BY <1>2 DEF Malloc!FreshIsQuiet

(***************************************************************************)
(* Going on within the section keeps who may be where.                     *)
(***************************************************************************)
LEMMA ProceedsKeepsControl ==
  ASSUME Malloc!Control, NEW t \in Threads, NEW x, Proceeds(t, x)
  PROVE  Malloc!Control' /\ OthersStay(t) /\ malloc_pc'[t] = x
<1> USE Zenon
<1> USE DEF Proceeds
<1>1. Malloc!PlacesOK /\ Malloc!OneMutates
  BY DEF Malloc!Control
<1>2. malloc_pc \in [Threads -> Malloc!Places] /\ op \in [Threads -> Malloc!Ops]
      /\ malloc_table \in [Threads -> Malloc!Tables]
  BY <1>1 DEF Malloc!PlacesOK
<1>3. malloc_pc' \in [Threads -> Malloc!Places] /\ malloc_pc'[t] = x
  BY <1>2
<1>4. OthersStay(t)
  BY <1>2 DEF OthersStay
<1>5. Malloc!PlacesOK'
  BY <1>1, <1>2, <1>3, <1>4, PlacesKept
<1>6. Malloc!OneMutates'
  BY <1>1, <1>3, <1>4, InsiderMoves
<1>7. malloc_pc[t] # "idle"
  BY DEF Malloc!Mutates
<1>8. QED
  BY <1>3, <1>4, <1>5, <1>6, <1>7, BusyNotFresh DEF Malloc!Control

(***************************************************************************)
(* So does a step outside of it.                                           *)
(***************************************************************************)
LEMMA TurnsKeepsControl ==
  ASSUME Malloc!Control, NEW t \in Threads, NEW o, NEW x, Turns(t, o, x), Malloc!FreshIsQuiet'
  PROVE  Malloc!Control' /\ OthersStay(t) /\ op'[t] = o /\ malloc_pc'[t] = x
<1> USE Zenon
<1> USE DEF Turns
<1>1. Malloc!PlacesOK /\ Malloc!OneMutates
  BY DEF Malloc!Control
<1>2. malloc_pc \in [Threads -> Malloc!Places] /\ op \in [Threads -> Malloc!Ops]
      /\ default_dispatch_table \in Malloc!Tables /\ current_dispatch_table \in Malloc!Tables
      /\ gPreviousDefaultDispatchTable \in Malloc!Tables
  BY <1>1 DEF Malloc!PlacesOK
<1>3. malloc_pc' \in [Threads -> Malloc!Places] /\ malloc_pc'[t] = x
      /\ op' \in [Threads -> Malloc!Ops] /\ op'[t] = o
  BY <1>2
<1>4. OthersStay(t)
  BY <1>2 DEF OthersStay
<1>5. Malloc!PlacesOK'
  BY <1>1, <1>2, <1>3, <1>4, PlacesKept
<1>6. Malloc!OneMutates'
  BY <1>1, <1>3, <1>4, OutsiderMoves
<1>7. QED
  BY <1>3, <1>4, <1>5, <1>6 DEF Malloc!Control

(***************************************************************************)
(* An operation begins while no other thread is in mallopt(M_DECAY_TIME).  *)
(***************************************************************************)
LEMMA BeginTurns ==
  ASSUME ~Overlap, Malloc!Control, NEW t \in Threads, NEW o, NEW x, Malloc!Begin(t, o, x),
         o \in Malloc!Ops, o # "decay", x \in Malloc!Places, x \notin Malloc!Mutates, Malloc!Fits(o, x),
         UNCHANGED <<gGlobalsMutating, writable, default_dispatch_table, current_dispatch_table,
                     gPreviousDefaultDispatchTable>>,
         pending' \in Nat, malloc_table' \in [Threads -> Malloc!Tables],
         \A u \in Threads : u # t => malloc_table'[u] = malloc_table[u]
  PROVE  Turns(t, o, x) /\ Malloc!FreshIsQuiet'
<1> USE Zenon
<1>1. Malloc!FreshIsQuiet'
  BY DEF Malloc!Begin, Malloc!FreshIsQuiet
<1>2. \A u \in Threads : op[u] # "decay"
  BY DEF Malloc!Begin
<1>3. QED
  BY <1>1, <1>2 DEF Malloc!Begin, Malloc!Go, Turns, Malloc!guard

(***************************************************************************)
(* The operations and where they begin.                                    *)
(***************************************************************************)
LEMMA ArrivesTurns ==
  ASSUME ~Overlap, Malloc!Control, NEW t \in Threads
  PROVE  /\ Malloc!SignalArrives(t)    => Turns(t, "signal", "exchange") /\ Malloc!FreshIsQuiet'
         /\ Malloc!InitThreadStarts(t) => Turns(t, "init", "lock")       /\ Malloc!FreshIsQuiet'
         /\ Malloc!ResetHooks(t)       => Turns(t, "reset", "lock")      /\ Malloc!FreshIsQuiet'
         /\ Malloc!LimitEnable(t)      => Turns(t, "limit", "lock")      /\ Malloc!FreshIsQuiet'
         /\ Malloc!Malloc(t)           => Turns(t, "malloc", "call")     /\ Malloc!FreshIsQuiet'
<1> USE DEF Malloc!hooks, Malloc!tables, Malloc!guard
<1>1. pending \in Nat /\ malloc_table \in [Threads -> Malloc!Tables] /\ current_dispatch_table \in Malloc!Tables
  BY Zenon DEF Malloc!Control, Malloc!PlacesOK
<1>2. Malloc!SignalArrives(t) => Turns(t, "signal", "exchange") /\ Malloc!FreshIsQuiet'
  <2> USE Zenon
  <2>1. Malloc!Fits("signal", "exchange")
    BY DEF Malloc!Fits
  <2>2. "signal" \in Malloc!Ops /\ "exchange" \in Malloc!Places /\ "exchange" \notin Malloc!Mutates
    BY DEF Malloc!Ops, Malloc!Places, Malloc!Mutates
  <2>3. QED
    BY <1>1, <2>1, <2>2, BeginTurns DEF Malloc!SignalArrives
<1>0. "lock" \in Malloc!Places /\ "lock" \notin Malloc!Mutates
  BY Zenon DEF Malloc!Places, Malloc!Mutates
<1>3. Malloc!InitThreadStarts(t) => Turns(t, "init", "lock") /\ Malloc!FreshIsQuiet'
  <2>1. Malloc!Fits("init", "lock") /\ "init" \in Malloc!Ops
    BY Zenon DEF Malloc!Fits, Malloc!Ops
  <2>2. Malloc!InitThreadStarts(t) => pending' \in Nat
    BY <1>1 DEF Malloc!InitThreadStarts
  <2>3. QED
    BY <1>0, <1>1, <2>1, <2>2, BeginTurns, Zenon DEF Malloc!InitThreadStarts
<1>4. Malloc!ResetHooks(t) => Turns(t, "reset", "lock") /\ Malloc!FreshIsQuiet'
  <2> USE Zenon
  <2>1. Malloc!Fits("reset", "lock") /\ "reset" \in Malloc!Ops
    BY DEF Malloc!Fits, Malloc!Ops
  <2>2. QED
    BY <1>0, <1>1, <2>1, BeginTurns DEF Malloc!ResetHooks
<1>5. Malloc!LimitEnable(t) => Turns(t, "limit", "lock") /\ Malloc!FreshIsQuiet'
  <2> USE Zenon
  <2>1. Malloc!Fits("limit", "lock") /\ "limit" \in Malloc!Ops
    BY DEF Malloc!Fits, Malloc!Ops
  <2>2. QED
    BY <1>0, <1>1, <2>1, BeginTurns DEF Malloc!LimitEnable
<1>6. Malloc!Malloc(t) => Turns(t, "malloc", "call") /\ Malloc!FreshIsQuiet'
  <2> USE Zenon
  <2>1. Malloc!Fits("malloc", "call") /\ "malloc" \in Malloc!Ops
    BY DEF Malloc!Fits, Malloc!Ops
  <2>2. "call" \in Malloc!Places /\ "call" \notin Malloc!Mutates
    BY DEF Malloc!Places, Malloc!Mutates
  <2>3. Malloc!Malloc(t) => malloc_table' \in [Threads -> Malloc!Tables]
                            /\ \A u \in Threads : u # t => malloc_table'[u] = malloc_table[u]
    BY <1>1 DEF Malloc!Malloc
  <2>4. QED
    BY <1>0, <1>1, <2>1, <2>2, <2>3, BeginTurns DEF Malloc!Malloc
<1>7. QED
  BY <1>2, <1>3, <1>4, <1>5, <1>6, Zenon

(***************************************************************************)
(* While a thread is in an operation of its own no other is in             *)
(* mallopt(M_DECAY_TIME).                                                  *)
(***************************************************************************)
LEMMA NobodyDecays ==
  ASSUME Malloc!Control, NEW t \in Threads, malloc_pc[t] # "idle"
  PROVE  /\ op[t] # "none" /\ op[t] \in Malloc!Ops /\ op = [op EXCEPT ![t] = op[t]]
         /\ \A u \in Threads : u # t => op[u] # "decay"
<1>1. op[t] # "none" /\ op[t] \in Malloc!Ops /\ op \in [Threads -> Malloc!Ops]
  BY Zenon DEF Malloc!Control, Malloc!PlacesOK, Malloc!Fits
<1>2. op = [op EXCEPT ![t] = op[t]]
  BY <1>1
<1>3. QED
  BY <1>1, <1>2, Zenon DEF Malloc!Control, Malloc!OneMutates

(***************************************************************************)
(* The steps of malloc() itself, of the mutex and of a failed exchange.    *)
(***************************************************************************)
LEMMA OutsideTurns ==
  ASSUME Malloc!Control, NEW t \in Threads
  PROVE  /\ Malloc!MallocCall(t) => \/ Turns(t, "malloc", "call") /\ malloc_table[t] = "limit"
                                    \/ Turns(t, "hook", "lock") /\ malloc_table[t] = "ephemeral"
                                    \/ Turns(t, "none", "idle")
         /\ Malloc!Lock(t)       => Turns(t, op[t], "exchange")
         /\ Malloc!Exchange(t) /\ gGlobalsMutating => Turns(t, op[t], "unlock")
         /\ Malloc!Unlock(t)     => IF op[t] = "hook" THEN Turns(t, "malloc", "serve")
                                                       ELSE Turns(t, "none", "idle")
         /\ Malloc!Serve(t)      => Turns(t, "malloc", "call")
<1> USE DEF Malloc!hooks, Malloc!tables, Malloc!guard, Malloc!Go
<1>1. /\ pending \in Nat /\ malloc_table \in [Threads -> Malloc!Tables]
      /\ default_dispatch_table \in Malloc!Tables /\ gPreviousDefaultDispatchTable \in Malloc!Tables
      /\ op \in [Threads -> Malloc!Ops] /\ malloc_pc \in [Threads -> Malloc!Places]
      /\ Malloc!Fits(op[t], malloc_pc[t])
  BY Zenon DEF Malloc!Control, Malloc!PlacesOK
<1>2. "null" \in Malloc!Tables
  BY Zenon DEF Malloc!Tables
<1>3. /\ "malloc" \in Malloc!Ops \ {"decay"} /\ "hook" \in Malloc!Ops \ {"decay"}
      /\ "none" \in Malloc!Ops \ {"decay"}
  BY Zenon DEF Malloc!Ops
<1>4. /\ "call" \in Malloc!Places \ Malloc!Mutates /\ "lock" \in Malloc!Places \ Malloc!Mutates
      /\ "idle" \in Malloc!Places \ Malloc!Mutates /\ "serve" \in Malloc!Places \ Malloc!Mutates
      /\ "exchange" \in Malloc!Places \ Malloc!Mutates /\ "unlock" \in Malloc!Places \ Malloc!Mutates
  BY Zenon DEF Malloc!Places, Malloc!Mutates
<1>5. /\ Malloc!Fits("malloc", "call") /\ Malloc!Fits("hook", "lock") /\ Malloc!Fits("none", "idle")
      /\ Malloc!Fits("malloc", "serve")
  BY Zenon DEF Malloc!Fits
<1>6. Malloc!MallocCall(t) => \/ Turns(t, "malloc", "call") /\ malloc_table[t] = "limit"
                              \/ Turns(t, "hook", "lock") /\ malloc_table[t] = "ephemeral"
                              \/ Turns(t, "none", "idle")
  <2> SUFFICES ASSUME Malloc!MallocCall(t)
               PROVE  \/ Turns(t, "malloc", "call") /\ malloc_table[t] = "limit"
                      \/ Turns(t, "hook", "lock") /\ malloc_table[t] = "ephemeral"
                      \/ Turns(t, "none", "idle")
    BY Zenon
  <2>1. malloc_pc[t] = "call"
    BY Zenon DEF Malloc!MallocCall
  <2>2. op[t] = "malloc"
    BY <1>1, <2>1, Zenon DEF Malloc!Fits, Malloc!Ops, Malloc!Changes
  <2>3. malloc_pc = [malloc_pc EXCEPT ![t] = "call"] /\ op = [op EXCEPT ![t] = "malloc"]
    BY <1>1, <2>1, <2>2
  <2>4. \A u \in Threads : u # t => op[u] # "decay"
    BY <2>1, NobodyDecays, Zenon
  <2>5. /\ malloc_table' \in [Threads -> Malloc!Tables]
        /\ \A u \in Threads : u # t => malloc_table'[u] = malloc_table[u]
    BY <1>1, <1>2, Zenon DEF Malloc!MallocCall
  <2>6. QED
    BY <1>1, <1>3, <1>4, <1>5, <2>3, <2>4, <2>5, Zenon DEF Malloc!MallocCall, Turns
<1>7. Malloc!Lock(t) => Turns(t, op[t], "exchange")
  <2> USE Zenon
  <2> SUFFICES ASSUME Malloc!Lock(t) PROVE Turns(t, op[t], "exchange")
    OBVIOUS
  <2>1. malloc_pc[t] = "lock"
    BY DEF Malloc!Lock
  <2>2. op[t] # "decay" /\ Malloc!Fits(op[t], "exchange")
    BY <1>1, <2>1 DEF Malloc!Fits
  <2>3. QED
    BY <1>1, <1>4, <2>1, <2>2, NobodyDecays DEF Malloc!Lock, Turns
<1>8. Malloc!Exchange(t) /\ gGlobalsMutating => Turns(t, op[t], "unlock")
  <2> USE Zenon
  <2> SUFFICES ASSUME Malloc!Exchange(t), gGlobalsMutating PROVE Turns(t, op[t], "unlock")
    OBVIOUS
  <2>1. malloc_pc[t] = "exchange"
    BY DEF Malloc!Exchange
  <2>2. op[t] # "decay" /\ Malloc!Fits(op[t], "unlock")
    BY <1>1, <2>1 DEF Malloc!Fits
  <2>3. QED
    BY <1>1, <1>4, <2>1, <2>2, NobodyDecays DEF Malloc!Exchange, Turns
<1>9. Malloc!Unlock(t) => IF op[t] = "hook" THEN Turns(t, "malloc", "serve") ELSE Turns(t, "none", "idle")
  <2> USE Zenon
  <2> SUFFICES ASSUME Malloc!Unlock(t)
               PROVE  IF op[t] = "hook" THEN Turns(t, "malloc", "serve") ELSE Turns(t, "none", "idle")
    OBVIOUS
  <2>1. malloc_pc[t] = "unlock"
    BY DEF Malloc!Unlock
  <2>2. \A u \in Threads : u # t => op[u] # "decay"
    BY <2>1, NobodyDecays
  <2>3. CASE op[t] = "hook"
    BY <1>1, <1>3, <1>4, <1>5, <2>2, <2>3 DEF Malloc!Unlock, Turns
  <2>4. CASE op[t] # "hook"
    BY <1>1, <1>3, <1>4, <1>5, <2>2, <2>4 DEF Malloc!Unlock, Turns
  <2>5. QED
    BY <2>3, <2>4
<1>10. Malloc!Serve(t) => Turns(t, "malloc", "call")
  <2> USE Zenon
  <2> SUFFICES ASSUME Malloc!Serve(t) PROVE Turns(t, "malloc", "call")
    OBVIOUS
  <2>1. malloc_pc[t] = "serve"
    BY DEF Malloc!Serve
  <2>2. op[t] = "malloc"
    BY <1>1, <2>1 DEF Malloc!Fits, Malloc!Ops, Malloc!Changes
  <2>3. /\ malloc_table' \in [Threads -> Malloc!Tables]
        /\ \A u \in Threads : u # t => malloc_table'[u] = malloc_table[u]
    BY <1>1 DEF Malloc!Serve
  <2>4. QED
    BY <1>1, <1>3, <1>4, <1>5, <2>1, <2>2, <2>3, NobodyDecays DEF Malloc!Serve, Turns
<1>11. QED
  BY <1>6, <1>7, <1>8, <1>9, <1>10, Zenon

(***************************************************************************)
(* The steps within the section and where each goes on.                    *)
(***************************************************************************)
LEMMA WithinProceeds ==
  ASSUME Malloc!Control, NEW t \in Threads
  PROVE
    /\ Transits(t) => Proceeds(t, "open") \/ Proceeds(t, "clear")
    /\ Malloc!HandleHeapprofdSignal(t) => Proceeds(t, "arm") \/ Proceeds(t, "clear")
    /\ Malloc!ArmEphemeral(t) => Proceeds(t, "open")
    /\ Malloc!Open(t) =>
         Proceeds(t, "load") \/ Proceeds(t, "limit") \/ Proceeds(t, "decay") \/ Proceeds(t, "default")
    /\ Malloc!LoadProfiler(t) => Proceeds(t, "default") \/ Proceeds(t, "close")
    /\ Malloc!StoreDefault(t) => Proceeds(t, "installed?")
    /\ Malloc!CheckLimitInstalled(t) => Proceeds(t, "close") \/ Proceeds(t, "current")
    /\ Malloc!StoreCurrent(t) => Proceeds(t, "close")
    /\ Malloc!StoreLimit(t) => Proceeds(t, "close")
    /\ Malloc!StoreDecayTime(t) => Proceeds(t, "close")
    /\ Malloc!Close(t) =>
         Proceeds(t, "clear") \/ Proceeds(t, "unlock") \/ Proceeds(t, "state")
    /\ Malloc!StoreState(t) => Proceeds(t, "clear")
    /\ Malloc!ClearMutating(t) => Proceeds(t, "unlock")
<1>a. /\ pending \in Nat /\ default_dispatch_table \in Malloc!Tables /\ current_dispatch_table \in Malloc!Tables
      /\ gPreviousDefaultDispatchTable \in Malloc!Tables
      /\ op[t] \in Malloc!Ops /\ Malloc!Fits(op[t], malloc_pc[t])
  BY Zenon DEF Malloc!Control, Malloc!PlacesOK
<1>b. "null" \in Malloc!Tables /\ "gwp" \in Malloc!Tables /\ "ephemeral" \in Malloc!Tables
      /\ "heapprofd" \in Malloc!Tables /\ "limit" \in Malloc!Tables
  BY Zenon DEF Malloc!Tables
<1>c. malloc_pc[t] \in Malloc!Stores \cup {"load", "close"} => writable
  BY Zenon DEF Malloc!Control, Malloc!OneMutates
<1>d. Malloc!Mutates \subseteq Malloc!Places /\ "unlock" \in Malloc!Places
  BY Zenon DEF Malloc!Places
<1>1. Transits(t) => Proceeds(t, "open") \/ Proceeds(t, "clear")
  <2> USE Zenon
  <2> SUFFICES ASSUME Transits(t) PROVE Proceeds(t, "open") \/ Proceeds(t, "clear")
    OBVIOUS
  <2>1. malloc_pc[t] = "transition" /\ malloc_pc[t] \in Malloc!Mutates
    BY DEF Transits, Malloc!MallocInitHeapprofdHook, Malloc!InitHeapprofd, Malloc!DispatchReset,
       Malloc!Transition, Malloc!Mutates
  <2>2. Malloc!Fits(op[t], "open")
    BY <1>a, <2>1 DEF Transits, Malloc!MallocInitHeapprofdHook, Malloc!InitHeapprofd,
       Malloc!DispatchReset, Malloc!Transition, Malloc!Fits, Malloc!Ops, Malloc!Changes
  <2>3. Malloc!Fits(op[t], "clear")
    BY <1>a, <2>1 DEF Transits, Malloc!MallocInitHeapprofdHook, Malloc!InitHeapprofd,
       Malloc!DispatchReset, Malloc!Transition, Malloc!Fits, Malloc!Ops, Malloc!Changes
  <2>4. QED
    BY <1>a, <1>b, <1>d, <2>1, <2>2, <2>3 DEF Transits, Malloc!MallocInitHeapprofdHook,
       Malloc!InitHeapprofd, Malloc!DispatchReset, Malloc!Transition, Proceeds, Malloc!Stores,
       Malloc!Mutates, Malloc!hooks, Malloc!tables, Malloc!guard, Malloc!Go
<1>2. Malloc!HandleHeapprofdSignal(t) => Proceeds(t, "arm") \/ Proceeds(t, "clear")
  <2> USE Zenon
  <2> SUFFICES ASSUME Malloc!HandleHeapprofdSignal(t) PROVE Proceeds(t, "arm") \/ Proceeds(t, "clear")
    OBVIOUS
  <2>1. malloc_pc[t] = "transition" /\ malloc_pc[t] \in Malloc!Mutates
    BY DEF Malloc!HandleHeapprofdSignal, Malloc!Decide, Malloc!GwpOrNull, Malloc!Mutates
  <2>2. Malloc!Fits(op[t], "arm")
    BY <1>a, <2>1 DEF Malloc!HandleHeapprofdSignal, Malloc!Decide, Malloc!GwpOrNull, Malloc!Fits,
       Malloc!Ops, Malloc!Changes
  <2>3. Malloc!Fits(op[t], "clear")
    BY <1>a, <2>1 DEF Malloc!HandleHeapprofdSignal, Malloc!Decide, Malloc!GwpOrNull, Malloc!Fits,
       Malloc!Ops, Malloc!Changes
  <2>4. QED
    BY <1>a, <1>b, <1>d, <2>1, <2>2, <2>3 DEF Malloc!HandleHeapprofdSignal, Malloc!Decide,
       Malloc!GwpOrNull, Proceeds, Malloc!Stores, Malloc!Mutates, Malloc!hooks, Malloc!tables,
       Malloc!guard, Malloc!Go
<1>3. Malloc!ArmEphemeral(t) => Proceeds(t, "open")
  <2> USE Zenon
  <2> SUFFICES ASSUME Malloc!ArmEphemeral(t) PROVE Proceeds(t, "open")
    OBVIOUS
  <2>1. malloc_pc[t] = "arm" /\ malloc_pc[t] \in Malloc!Mutates
    BY DEF Malloc!ArmEphemeral, Malloc!Mutates
  <2>2. Malloc!Fits(op[t], "open")
    BY <1>a, <2>1 DEF Malloc!Fits, Malloc!Ops, Malloc!Changes
  <2>3. QED
    BY <1>a, <1>d, <2>1, <2>2 DEF Malloc!ArmEphemeral, Proceeds, Malloc!Stores, Malloc!Mutates,
       Malloc!hooks, Malloc!tables, Malloc!guard, Malloc!Go
<1>4. Malloc!Open(t) => Proceeds(t, "load") \/ Proceeds(t, "limit") \/ Proceeds(t, "decay") \/ Proceeds(t, "default")
  <2> USE Zenon
  <2> SUFFICES ASSUME Malloc!Open(t)
               PROVE  \/ Proceeds(t, "load") \/ Proceeds(t, "limit")
                      \/ Proceeds(t, "decay") \/ Proceeds(t, "default")
    OBVIOUS
  <2>1. malloc_pc[t] = "open" /\ malloc_pc[t] \in Malloc!Mutates
    BY DEF Malloc!Open, Malloc!Mutates
  <2>2. CASE op[t] = "init"
    <3>1. Malloc!Fits(op[t], "load")
      BY <1>a, <2>1, <2>2 DEF Malloc!Fits, Malloc!Ops, Malloc!Changes
    <3>2. QED
      BY <1>a, <1>c, <1>d, <2>1, <2>2, <3>1 DEF Malloc!Open, Proceeds, Malloc!Stores,
         Malloc!Mutates, Malloc!hooks, Malloc!tables, Malloc!guard, Malloc!Go
  <2>3. CASE op[t] = "limit"
    <3>1. Malloc!Fits(op[t], "limit")
      BY <1>a, <2>1, <2>3 DEF Malloc!Fits, Malloc!Ops, Malloc!Changes
    <3>2. QED
      BY <1>a, <1>c, <1>d, <2>1, <2>3, <3>1 DEF Malloc!Open, Proceeds, Malloc!Stores,
         Malloc!Mutates, Malloc!hooks, Malloc!tables, Malloc!guard, Malloc!Go
  <2>4. CASE op[t] = "decay"
    <3>1. Malloc!Fits(op[t], "decay")
      BY <1>a, <2>1, <2>4 DEF Malloc!Fits, Malloc!Ops, Malloc!Changes
    <3>2. QED
      BY <1>a, <1>c, <1>d, <2>1, <2>4, <3>1 DEF Malloc!Open, Proceeds, Malloc!Stores,
         Malloc!Mutates, Malloc!hooks, Malloc!tables, Malloc!guard, Malloc!Go
  <2>5. CASE op[t] \in {"signal", "hook", "reset"}
    <3>1. Malloc!Fits(op[t], "default")
      BY <1>a, <2>1, <2>5 DEF Malloc!Fits, Malloc!Ops, Malloc!Changes
    <3>2. QED
      BY <1>a, <1>c, <1>d, <2>1, <2>5, <3>1 DEF Malloc!Open, Proceeds, Malloc!Stores,
         Malloc!Mutates, Malloc!hooks, Malloc!tables, Malloc!guard, Malloc!Go
  <2>6. QED
    BY <2>2, <2>3, <2>4, <2>5 DEF Malloc!Open
<1>5. Malloc!LoadProfiler(t) => Proceeds(t, "default") \/ Proceeds(t, "close")
  <2> USE Zenon
  <2> SUFFICES ASSUME Malloc!LoadProfiler(t) PROVE Proceeds(t, "default") \/ Proceeds(t, "close")
    OBVIOUS
  <2>1. malloc_pc[t] = "load" /\ malloc_pc[t] \in Malloc!Mutates
    BY DEF Malloc!LoadProfiler, Malloc!Mutates
  <2>2. Malloc!Fits(op[t], "default")
    BY <1>a, <2>1 DEF Malloc!Fits, Malloc!Ops, Malloc!Changes
  <2>3. Malloc!Fits(op[t], "close")
    BY <1>a, <2>1 DEF Malloc!Fits, Malloc!Ops, Malloc!Changes
  <2>4. QED
    BY <1>a, <1>d, <1>c, <2>1, <2>2, <2>3 DEF Malloc!LoadProfiler, Proceeds, Malloc!Stores,
       Malloc!Mutates, Malloc!hooks, Malloc!tables, Malloc!guard, Malloc!Go
<1>6. Malloc!StoreDefault(t) => Proceeds(t, "installed?")
  <2> USE Zenon
  <2> SUFFICES ASSUME Malloc!StoreDefault(t) PROVE Proceeds(t, "installed?")
    OBVIOUS
  <2>1. malloc_pc[t] = "default" /\ malloc_pc[t] \in Malloc!Mutates
    BY DEF Malloc!StoreDefault, Malloc!TableOf, Malloc!Mutates
  <2>2. Malloc!Fits(op[t], "installed?")
    BY <1>a, <2>1 DEF Malloc!Fits, Malloc!Ops, Malloc!Changes
  <2>3. QED
    BY <1>a, <1>b, <1>d, <1>c, <2>1, <2>2 DEF Malloc!StoreDefault, Malloc!TableOf, Proceeds,
       Malloc!Stores, Malloc!Mutates, Malloc!hooks, Malloc!tables, Malloc!guard, Malloc!Go
<1>7. Malloc!CheckLimitInstalled(t) => Proceeds(t, "close") \/ Proceeds(t, "current")
  <2> USE Zenon
  <2> SUFFICES ASSUME Malloc!CheckLimitInstalled(t) PROVE Proceeds(t, "close") \/ Proceeds(t, "current")
    OBVIOUS
  <2>1. malloc_pc[t] = "installed?" /\ malloc_pc[t] \in Malloc!Mutates
    BY DEF Malloc!CheckLimitInstalled, Malloc!Mutates
  <2>2. Malloc!Fits(op[t], "close")
    BY <1>a, <2>1 DEF Malloc!Fits, Malloc!Ops, Malloc!Changes
  <2>3. Malloc!Fits(op[t], "current")
    BY <1>a, <2>1 DEF Malloc!Fits, Malloc!Ops, Malloc!Changes
  <2>4. QED
    BY <1>a, <1>d, <1>c, <2>1, <2>2, <2>3 DEF Malloc!CheckLimitInstalled, Proceeds, Malloc!Stores,
       Malloc!Mutates, Malloc!hooks, Malloc!tables, Malloc!guard, Malloc!Go
<1>8. Malloc!StoreCurrent(t) => Proceeds(t, "close")
  <2> USE Zenon
  <2> SUFFICES ASSUME Malloc!StoreCurrent(t) PROVE Proceeds(t, "close")
    OBVIOUS
  <2>1. malloc_pc[t] = "current" /\ malloc_pc[t] \in Malloc!Mutates
    BY DEF Malloc!StoreCurrent, Malloc!TableOf, Malloc!Mutates
  <2>2. Malloc!Fits(op[t], "close")
    BY <1>a, <2>1 DEF Malloc!Fits, Malloc!Ops, Malloc!Changes
  <2>3. QED
    BY <1>a, <1>b, <1>d, <1>c, <2>1, <2>2 DEF Malloc!StoreCurrent, Malloc!TableOf, Proceeds,
       Malloc!Stores, Malloc!Mutates, Malloc!hooks, Malloc!tables, Malloc!guard, Malloc!Go
<1>9. Malloc!StoreLimit(t) => Proceeds(t, "close")
  <2> USE Zenon
  <2> SUFFICES ASSUME Malloc!StoreLimit(t) PROVE Proceeds(t, "close")
    OBVIOUS
  <2>1. malloc_pc[t] = "limit" /\ malloc_pc[t] \in Malloc!Mutates
    BY DEF Malloc!StoreLimit, Malloc!Mutates
  <2>2. Malloc!Fits(op[t], "close")
    BY <1>a, <2>1 DEF Malloc!Fits, Malloc!Ops, Malloc!Changes
  <2>3. QED
    BY <1>a, <1>b, <1>d, <1>c, <2>1, <2>2 DEF Malloc!StoreLimit, Proceeds, Malloc!Stores,
       Malloc!Mutates, Malloc!hooks, Malloc!tables, Malloc!guard, Malloc!Go
<1>10. Malloc!StoreDecayTime(t) => Proceeds(t, "close")
  <2> USE Zenon
  <2> SUFFICES ASSUME Malloc!StoreDecayTime(t) PROVE Proceeds(t, "close")
    OBVIOUS
  <2>1. malloc_pc[t] = "decay" /\ malloc_pc[t] \in Malloc!Mutates
    BY DEF Malloc!StoreDecayTime, Malloc!Mutates
  <2>2. Malloc!Fits(op[t], "close")
    BY <1>a, <2>1 DEF Malloc!Fits, Malloc!Ops, Malloc!Changes
  <2>3. QED
    BY <1>a, <1>d, <1>c, <2>1, <2>2 DEF Malloc!StoreDecayTime, Proceeds, Malloc!Stores,
       Malloc!Mutates, Malloc!hooks, Malloc!tables, Malloc!guard, Malloc!Go
<1>11. Malloc!Close(t) => Proceeds(t, "clear") \/ Proceeds(t, "unlock") \/ Proceeds(t, "state")
  <2> USE Zenon
  <2> SUFFICES ASSUME Malloc!Close(t) PROVE Proceeds(t, "clear") \/ Proceeds(t, "unlock") \/ Proceeds(t, "state")
    OBVIOUS
  <2>1. malloc_pc[t] = "close" /\ malloc_pc[t] \in Malloc!Mutates
    BY DEF Malloc!Close, Malloc!Mutates
  <2>2. CASE op[t] = "limit"
    <3>1. Malloc!Fits(op[t], "clear")
      BY <1>a, <2>1, <2>2 DEF Malloc!Fits, Malloc!Ops, Malloc!Changes
    <3>2. QED
      BY <1>a, <1>c, <1>d, <2>1, <2>2, <3>1 DEF Malloc!Close, Proceeds, Malloc!Stores,
         Malloc!Mutates, Malloc!hooks, Malloc!tables, Malloc!guard, Malloc!Go
  <2>3. CASE op[t] = "decay"
    <3>1. Malloc!Fits(op[t], "unlock")
      BY <1>a, <2>1, <2>3 DEF Malloc!Fits, Malloc!Ops, Malloc!Changes
    <3>2. QED
      BY <1>a, <1>c, <1>d, <2>1, <2>3, <3>1 DEF Malloc!Close, Proceeds, Malloc!Stores,
         Malloc!Mutates, Malloc!hooks, Malloc!tables, Malloc!guard, Malloc!Go
  <2>4. CASE op[t] \notin {"limit", "decay"}
    <3>1. Malloc!Fits(op[t], "state")
      BY <1>a, <2>1, <2>4 DEF Malloc!Fits, Malloc!Ops, Malloc!Changes
    <3>2. QED
      BY <1>a, <1>c, <1>d, <2>1, <2>4, <3>1 DEF Malloc!Close, Proceeds, Malloc!Stores,
         Malloc!Mutates, Malloc!hooks, Malloc!tables, Malloc!guard, Malloc!Go
  <2>5. QED
    BY <2>2, <2>3, <2>4
<1>12. Malloc!StoreState(t) => Proceeds(t, "clear")
  <2> SUFFICES ASSUME Malloc!StoreState(t) PROVE Proceeds(t, "clear")
    BY Zenon
  <2>1. malloc_pc[t] = "state" /\ malloc_pc[t] \in Malloc!Mutates
    BY Zenon DEF Malloc!StoreState, Malloc!Mutates
  <2>2. Malloc!Fits(op[t], "clear")
    BY <1>a, <2>1, Zenon DEF Malloc!Fits, Malloc!Ops, Malloc!Changes
  <2>3. pending' \in Nat
    BY <1>a DEF Malloc!StoreState
  <2>4. QED
    BY <1>a, <1>d, <2>1, <2>2, <2>3, Zenon DEF Malloc!StoreState, Proceeds, Malloc!Stores,
       Malloc!Mutates, Malloc!hooks, Malloc!tables, Malloc!guard, Malloc!Go
<1>13. Malloc!ClearMutating(t) => Proceeds(t, "unlock")
  <2> USE Zenon
  <2> SUFFICES ASSUME Malloc!ClearMutating(t) PROVE Proceeds(t, "unlock")
    OBVIOUS
  <2>1. malloc_pc[t] = "clear" /\ malloc_pc[t] \in Malloc!Mutates
    BY DEF Malloc!ClearMutating, Malloc!Mutates
  <2>2. Malloc!Fits(op[t], "unlock")
    BY <1>a, <2>1 DEF Malloc!Fits, Malloc!Ops, Malloc!Changes
  <2>3. QED
    BY <1>a, <1>d, <2>1, <2>2 DEF Malloc!ClearMutating, Proceeds, Malloc!Stores, Malloc!Mutates,
       Malloc!hooks, Malloc!tables, Malloc!guard, Malloc!Go
<1>99. QED
  BY <1>1, <1>2, <1>3, <1>4, <1>5, <1>6, <1>7, <1>8, <1>9, <1>10, <1>11, <1>12, <1>13, Zenon

(***************************************************************************)
(* The exchange that finds gGlobalsMutating clear admits its thread into   *)
(* an empty section.                                                       *)
(***************************************************************************)
LEMMA ExchangeEnters ==
  ASSUME Malloc!Control, NEW t \in Threads, Malloc!Exchange(t), ~gGlobalsMutating
  PROVE  /\ Malloc!Control' /\ OthersStay(t)
         /\ malloc_pc'[t] = IF op[t] = "limit" THEN "open" ELSE "transition"
<1> USE Zenon
<1> USE DEF Malloc!hooks, Malloc!tables, Malloc!guard, Malloc!Go
<1> DEFINE x == IF op[t] = "limit" THEN "open" ELSE "transition"
<1>1. malloc_pc[t] = "exchange" /\ malloc_pc' = [malloc_pc EXCEPT ![t] = x] /\ gGlobalsMutating'
      /\ UNCHANGED <<started, fresh, op, malloc_table, pending, default_dispatch_table,
                     current_dispatch_table, gPreviousDefaultDispatchTable>>
  BY DEF Malloc!Exchange
<1>2. Malloc!PlacesOK /\ Malloc!OneMutates
  BY DEF Malloc!Control
<1>3. /\ op \in [Threads -> Malloc!Ops] /\ malloc_pc \in [Threads -> Malloc!Places]
      /\ malloc_table \in [Threads -> Malloc!Tables] /\ pending \in Nat
      /\ default_dispatch_table \in Malloc!Tables /\ current_dispatch_table \in Malloc!Tables
      /\ gPreviousDefaultDispatchTable \in Malloc!Tables /\ Malloc!Fits(op[t], malloc_pc[t])
  BY <1>2 DEF Malloc!PlacesOK
<1>4. x \in Malloc!Places /\ Malloc!Fits(op[t], x)
  <2>1. CASE op[t] = "limit"
    BY <2>1 DEF Malloc!Places, Malloc!Mutates, Malloc!Fits
  <2>2. CASE op[t] # "limit"
    BY <1>1, <1>3, <2>2 DEF Malloc!Places, Malloc!Mutates, Malloc!Fits, Malloc!Ops
  <2>3. QED
    BY <2>1, <2>2
<1> HIDE DEF x
<1>5. malloc_pc' \in [Threads -> Malloc!Places] /\ malloc_pc'[t] = x /\ OthersStay(t)
  BY <1>1, <1>3, <1>4 DEF OthersStay
<1>6. Malloc!PlacesOK'
  BY <1>1, <1>2, <1>3, <1>4, <1>5, PlacesKept
<1>7. \A u \in Threads : malloc_pc[u] \notin Malloc!Mutates
  <2>1. malloc_pc[t] \notin Malloc!Mutates /\ malloc_pc[t] # "idle"
    BY <1>1 DEF Malloc!Mutates
  <2>2. QED
    BY <1>2, <2>1, NobodyDecays DEF Malloc!OneMutates
<1>8. Malloc!OneMutates'
  <2>1. \A u \in Threads : malloc_pc'[u] \in Malloc!Mutates => u = t
    BY <1>5, <1>7 DEF OthersStay
  <2>2. malloc_pc'[t] \notin Malloc!Stores \cup {"load", "close"} /\ malloc_pc'[t] # "current"
    BY <1>5 DEF x, Malloc!Stores
  <2>3. Malloc!Stores \cup {"load", "close"} \subseteq Malloc!Mutates /\ "current" \in Malloc!Mutates
    BY DEF Malloc!Stores, Malloc!Mutates
  <2>4. \A u, v \in Threads : op'[u] = "decay" /\ v # u => op'[v] = "none"
    BY <1>1, <1>2 DEF Malloc!OneMutates
  <2>5. QED
    BY <1>1, <2>1, <2>2, <2>3, <2>4 DEF Malloc!OneMutates, Malloc!Mutates, Malloc!Stores
<1>9. Malloc!FreshIsQuiet'
  BY <1>1, BusyNotFresh
<1>10. QED
  BY <1>5, <1>6, <1>8, <1>9 DEF Malloc!Control, x

(***************************************************************************)
(* mallopt(M_DECAY_TIME) begins when every thread is idle.                 *)
(***************************************************************************)
LEMMA DecayBegins ==
  ASSUME ~Overlap, Malloc!Control, NEW t \in Threads, Malloc!MalloptDecayTime(t)
  PROVE  Malloc!Control' /\ OthersStay(t) /\ op'[t] = "decay" /\ malloc_pc'[t] = "open"
<1> USE Zenon
<1> USE DEF Malloc!hooks, Malloc!tables, Malloc!guard, Malloc!Go
<1>1. /\ \A u \in Threads : malloc_pc[u] = "idle"
      /\ op' = [op EXCEPT ![t] = "decay"] /\ malloc_pc' = [malloc_pc EXCEPT ![t] = "open"]
      /\ started /\ started' /\ ~fresh'
      /\ UNCHANGED <<malloc_table, pending, default_dispatch_table,
                     current_dispatch_table, gPreviousDefaultDispatchTable>>
  BY DEF Malloc!MalloptDecayTime, Malloc!Begin
<1>2. Malloc!PlacesOK
  BY DEF Malloc!Control
<1>3. /\ op \in [Threads -> Malloc!Ops] /\ malloc_pc \in [Threads -> Malloc!Places]
      /\ malloc_table \in [Threads -> Malloc!Tables] /\ pending \in Nat
      /\ default_dispatch_table \in Malloc!Tables /\ current_dispatch_table \in Malloc!Tables
      /\ gPreviousDefaultDispatchTable \in Malloc!Tables
      /\ \A u \in Threads : Malloc!Fits(op[u], malloc_pc[u])
  BY <1>2 DEF Malloc!PlacesOK
<1>4. "open" \in Malloc!Places /\ Malloc!Fits("decay", "open") /\ "decay" \in Malloc!Ops
  BY DEF Malloc!Places, Malloc!Mutates, Malloc!Fits, Malloc!Ops
<1>5. /\ malloc_pc' \in [Threads -> Malloc!Places] /\ malloc_pc'[t] = "open" /\ OthersStay(t)
      /\ op' \in [Threads -> Malloc!Ops] /\ op'[t] = "decay"
  BY <1>1, <1>3, <1>4 DEF OthersStay
<1>6. Malloc!PlacesOK'
  BY <1>1, <1>2, <1>3, <1>4, <1>5, PlacesKept
<1>7. ASSUME NEW u \in Threads, u # t PROVE op'[u] = "none" /\ malloc_pc'[u] = "idle"
  <2>1. op'[u] = op[u] /\ malloc_pc'[u] = "idle" /\ op[u] \in Malloc!Ops /\ Malloc!Fits(op[u], "idle")
    BY <1>1, <1>3, <1>5, <1>7 DEF OthersStay
  <2>2. QED
    BY <2>1 DEF Malloc!Fits, Malloc!Ops, Malloc!Changes
<1>8. Malloc!OneMutates'
  <2>1. "idle" \notin Malloc!Mutates /\ "idle" \notin Malloc!Stores \cup {"load", "close"}
        /\ "open" \notin Malloc!Stores \cup {"load", "close"}
    BY DEF Malloc!Stores, Malloc!Mutates
  <2>2. \A u \in Threads : malloc_pc'[u] \in Malloc!Mutates => u = t
    BY <1>7, <2>1
  <2>3. \A u \in Threads : malloc_pc'[u] = "idle" \/ malloc_pc'[u] = "open"
    BY <1>5, <1>7
  <2>4. QED
    BY <1>5, <1>7, <2>1, <2>2, <2>3 DEF Malloc!OneMutates, Malloc!Mutates, Malloc!Stores
<1>9. Malloc!FreshIsQuiet'
  BY <1>1 DEF Malloc!FreshIsQuiet
<1>10. QED
  BY <1>5, <1>6, <1>8, <1>9 DEF Malloc!Control

(***************************************************************************)
(* libc's start, and a zygote's child that enables GWP-ASan, run before    *)
(* any other operation.                                                    *)
(***************************************************************************)
LEMMA StartKeepsControl ==
  ASSUME Malloc!Control, Malloc!MallocInitImpl \/ Malloc!EnableGwpAsan
  PROVE  Malloc!Control'
<1> USE Zenon
<1> USE DEF Malloc!hooks, Malloc!tables, Malloc!guard
<1>1. fresh /\ UNCHANGED <<op, malloc_pc, malloc_table, pending, writable, gGlobalsMutating>>
  BY DEF Malloc!MallocInitImpl, Malloc!EnableGwpAsan, Malloc!Control, Malloc!FreshIsQuiet
<1>2. \A t \in Threads : malloc_pc[t] = "idle"
  BY <1>1 DEF Malloc!Control, Malloc!FreshIsQuiet, Malloc!PlacesOK, Malloc!Fits
<1>3. Malloc!PlacesOK'
  <2>1. /\ default_dispatch_table' \in Malloc!Tables /\ current_dispatch_table' \in Malloc!Tables
        /\ gPreviousDefaultDispatchTable' \in Malloc!Tables
    BY DEF Malloc!MallocInitImpl, Malloc!EnableGwpAsan, Malloc!Control, Malloc!PlacesOK,
       Malloc!Tables
  <2>2. QED
    BY <1>1, <2>1 DEF Malloc!Control, Malloc!PlacesOK, Malloc!Fits
<1>4. Malloc!OneMutates'
  BY <1>1, <1>2 DEF Malloc!Control, Malloc!OneMutates, Malloc!Mutates, Malloc!Stores
<1>5. Malloc!FreshIsQuiet'
  <2>1. CASE Malloc!EnableGwpAsan
    BY <2>1 DEF Malloc!EnableGwpAsan, Malloc!FreshIsQuiet
  <2>2. CASE Malloc!MallocInitImpl
    <3>1. started' /\ pending = 0 /\ \A t \in Threads : op[t] = "none"
      BY <1>1, <2>2 DEF Malloc!MallocInitImpl, Malloc!Control, Malloc!FreshIsQuiet
    <3>2. /\ current_dispatch_table' = default_dispatch_table' /\ default_dispatch_table' # "ephemeral"
          /\ gHeapprofdState' \in {"Initial", "Installed", "Incompatible"}
      BY <2>2 DEF Malloc!MallocInitImpl
    <3>3. QED
      BY <1>1, <3>1, <3>2 DEF Malloc!FreshIsQuiet
  <2>3. QED
    BY <2>1, <2>2
<1>6. QED
  BY <1>3, <1>4, <1>5 DEF Malloc!Control

(***************************************************************************)
(* Nothing changes when the tables do not.                                 *)
(***************************************************************************)
LEMMA StutterKeeps ==
  ASSUME UNCHANGED Malloc!vars
  PROVE  /\ Malloc!Control => Malloc!Control'
         /\ Malloc!StateAgrees /\ Malloc!TablesLead => Malloc!StateAgrees' /\ Malloc!TablesLead'
<1> USE Zenon
<1> USE DEF Malloc!vars, Malloc!hooks, Malloc!tables, Malloc!guard
<1>1. Malloc!PlacesOK => Malloc!PlacesOK'
  BY DEF Malloc!PlacesOK, Malloc!Fits
<1>2. Malloc!OneMutates => Malloc!OneMutates'
  BY DEF Malloc!OneMutates
<1>3. Malloc!FreshIsQuiet => Malloc!FreshIsQuiet'
  BY DEF Malloc!FreshIsQuiet
<1>4. Malloc!StateAgrees => Malloc!StateAgrees'
  BY DEF Malloc!StateAgrees, Malloc!Agrees, Malloc!Remembered, Malloc!Allocators
<1>5. Malloc!TablesLead => Malloc!TablesLead'
  BY DEF Malloc!TablesLead, Malloc!Leads, Malloc!Allocators
<1>6. QED
  BY <1>1, <1>2, <1>3, <1>4, <1>5 DEF Malloc!Control

(***************************************************************************)
(* One thread at a time changes the tables: the exchange of                *)
(* gGlobalsMutating admits one, and mallopt(M_DECAY_TIME), which does      *)
(* without it, runs alone.                                                 *)
(***************************************************************************)
LEMMA MallocControlKept ==
  ASSUME ~Overlap, Malloc!Control, [Malloc!Next]_(Malloc!vars)
  PROVE  Malloc!Control'
<1> USE Zenon
<1>1. CASE Malloc!MallocInitImpl \/ Malloc!EnableGwpAsan
  BY <1>1, StartKeepsControl
<1>2. ASSUME NEW t \in Threads, Arrives(t) PROVE Malloc!Control'
  BY <1>2, ArrivesTurns, TurnsKeepsControl DEF Arrives
<1>3. ASSUME NEW t \in Threads, Outside(t) PROVE Malloc!Control'
  <2>1. malloc_pc[t] # "idle" /\ started' = started /\ fresh' = fresh
    BY <1>3 DEF Outside, Malloc!MallocCall, Malloc!Lock, Malloc!Unlock, Malloc!Serve
  <2>2. Malloc!FreshIsQuiet'
    BY <2>1, BusyNotFresh
  <2>3. QED
    BY <1>3, <2>2, OutsideTurns, TurnsKeepsControl DEF Outside
<1>4. ASSUME NEW t \in Threads, Malloc!Exchange(t) PROVE Malloc!Control'
  <2>1. CASE gGlobalsMutating
    <3>1. malloc_pc[t] # "idle" /\ started' = started /\ fresh' = fresh
      BY <1>4 DEF Malloc!Exchange
    <3>2. Malloc!FreshIsQuiet'
      BY <3>1, BusyNotFresh
    <3>3. QED
      BY <1>4, <2>1, <3>2, OutsideTurns, TurnsKeepsControl
  <2>2. CASE ~gGlobalsMutating
    BY <1>4, <2>2, ExchangeEnters
  <2>3. QED
    BY <2>1, <2>2
<1>5. ASSUME NEW t \in Threads, Transits(t) \/ Malloc!HandleHeapprofdSignal(t) \/ Within(t)
      PROVE  Malloc!Control'
  BY <1>5, WithinProceeds, ProceedsKeepsControl DEF Within
<1>6. ASSUME NEW t \in Threads, Malloc!MalloptDecayTime(t) PROVE Malloc!Control'
  BY <1>6, DecayBegins
<1>7. CASE UNCHANGED Malloc!vars
  BY <1>7, StutterKeeps
<1>8. QED
  BY <1>1, <1>2, <1>3, <1>4, <1>5, <1>6, <1>7
     DEF Malloc!Next, Arrives, Outside, Transits, Within

(***************************************************************************)
(* A step that leaves the tables alone keeps them leading to the           *)
(* allocator, when the place its thread reaches agrees with the state.     *)
(***************************************************************************)
LEMMA QuietKeepsTables ==
  ASSUME Malloc!StateAgrees, Malloc!TablesLead, NEW t \in Threads, OthersStay(t),
         UNCHANGED <<gHeapprofdState, gPreviousDefaultDispatchTable, gEphemeralDispatch, backing,
                     default_dispatch_table, current_dispatch_table, gwp>>,
         pending' > 0 => pending > 0, Malloc!Agrees(op'[t], malloc_pc'[t]),
         malloc_pc'[t] = "call" =>
           /\ Malloc!Leads(malloc_table'[t])
           /\ malloc_table'[t] = "ephemeral" => gPreviousDefaultDispatchTable \in Malloc!Allocators
  PROVE  Malloc!StateAgrees' /\ Malloc!TablesLead'
<1> USE Zenon
<1>1. ASSUME NEW u \in Threads
      PROVE  /\ Malloc!Agrees(op'[u], malloc_pc'[u])
             /\ malloc_pc'[u] = "call" =>
                  /\ Malloc!Leads(malloc_table'[u])
                  /\ malloc_table'[u] = "ephemeral" => gPreviousDefaultDispatchTable \in Malloc!Allocators
  <2>1. CASE u = t
    BY <2>1
  <2>2. CASE u # t
    BY <2>2 DEF OthersStay, Malloc!StateAgrees, Malloc!TablesLead
  <2>3. QED
    BY <2>1, <2>2
<1>2. Malloc!Remembered'
  BY DEF Malloc!StateAgrees, Malloc!Remembered, Malloc!Allocators
<1>3. QED
  BY <1>1, <1>2 DEF Malloc!StateAgrees, Malloc!TablesLead, Malloc!Agrees, Malloc!Leads,
     Malloc!Allocators

(***************************************************************************)
(* What the thread in the section does to the tables touches no other      *)
(* thread: those rely on the remembered table alone.                       *)
(***************************************************************************)
LEMMA ChangeKeepsTables ==
  ASSUME Malloc!OneMutates, Malloc!StateAgrees, Malloc!TablesLead, NEW t \in Threads, OthersStay(t),
         malloc_pc[t] \in Malloc!Mutates, malloc_pc'[t] # "call", op' = op, gwp' = gwp,
         gPreviousDefaultDispatchTable \in Malloc!Allocators => gPreviousDefaultDispatchTable' \in Malloc!Allocators,
         gEphemeralDispatch.base \in Malloc!Allocators => gEphemeralDispatch'.base \in Malloc!Allocators,
         backing \in Malloc!Allocators => backing' \in Malloc!Allocators,
         Malloc!Remembered', Malloc!Agrees(op[t], malloc_pc[t])',
         default_dispatch_table' # "limit", Malloc!Leads(default_dispatch_table)',
         Malloc!Leads(current_dispatch_table)'
  PROVE  Malloc!StateAgrees' /\ Malloc!TablesLead'
<1> USE Zenon
<1>1. Malloc!Allocators' = Malloc!Allocators
  BY DEF Malloc!Allocators
<1>2. ASSUME NEW u \in Threads, u # t
      PROVE  /\ op'[u] = op[u] /\ malloc_pc'[u] = malloc_pc[u] /\ malloc_table'[u] = malloc_table[u]
             /\ malloc_pc[u] \notin Malloc!Mutates
  BY <1>2 DEF OthersStay, Malloc!OneMutates
<1>3. ASSUME NEW u \in Threads, u # t PROVE Malloc!Agrees(op[u], malloc_pc[u])'
  <2>1. /\ malloc_pc'[u] \notin Malloc!Changes /\ malloc_pc'[u] \notin Malloc!Restored
        /\ malloc_pc'[u] \notin {"open", "load"} /\ malloc_pc'[u] \notin {"default", "installed?", "current"}
    BY <1>2, <1>3 DEF Malloc!Mutates, Malloc!Changes, Malloc!Restored
  <2>2. op'[u] \in {"hook", "init"} \/ malloc_pc'[u] = "serve" =>
          gPreviousDefaultDispatchTable' \in Malloc!Allocators'
    BY <1>1, <1>2, <1>3 DEF Malloc!StateAgrees, Malloc!Agrees
  <2>3. QED
    BY <2>1, <2>2 DEF Malloc!Agrees, Malloc!Changes, Malloc!Restored
<1>4. ASSUME NEW u \in Threads, malloc_pc'[u] = "call"
      PROVE  /\ Malloc!Leads(malloc_table[u])'
             /\ malloc_table'[u] = "ephemeral" => gPreviousDefaultDispatchTable' \in Malloc!Allocators'
  BY <1>1, <1>2, <1>4 DEF Malloc!StateAgrees, Malloc!TablesLead, Malloc!Leads
<1>5. QED
  BY <1>3, <1>4 DEF Malloc!StateAgrees, Malloc!TablesLead

(***************************************************************************)
(* An operation that begins finds a state it agrees with: a heapprofdinit  *)
(* thread and a malloc() that meets the ephemeral table, the remembered    *)
(* table they will fall back on.                                           *)
(***************************************************************************)
LEMMA ArrivesKeepsTables ==
  ASSUME ~Overlap, Malloc!Inv, NEW t \in Threads, Arrives(t) \/ Malloc!MalloptDecayTime(t)
  PROVE  Malloc!StateAgrees' /\ Malloc!TablesLead'
<1> USE Zenon
<1>1. Malloc!Control /\ Malloc!StateAgrees /\ Malloc!TablesLead /\ Malloc!Remembered
  BY DEF Malloc!Inv, Malloc!StateAgrees
<1>2. UNCHANGED <<gHeapprofdState, gPreviousDefaultDispatchTable, gEphemeralDispatch, backing,
                  default_dispatch_table, current_dispatch_table, gwp>>
  BY DEF Arrives, Malloc!SignalArrives, Malloc!InitThreadStarts, Malloc!ResetHooks,
     Malloc!LimitEnable,
     Malloc!Malloc, Malloc!MalloptDecayTime, Malloc!hooks, Malloc!tables, Malloc!guard
<1>3. pending' > 0 => pending > 0
  BY DEF Arrives, Malloc!SignalArrives, Malloc!InitThreadStarts, Malloc!ResetHooks,
     Malloc!LimitEnable,
     Malloc!Malloc, Malloc!MalloptDecayTime, Malloc!hooks
<1>4. CASE ~Malloc!Malloc(t)
  <2> DEFINE At(o, x) == OthersStay(t) /\ op'[t] = o /\ malloc_pc'[t] = x
  <2>1. Malloc!SignalArrives(t) => At("signal", "exchange")
    BY <1>1, ArrivesTurns, TurnsKeepsControl
  <2>2. Malloc!InitThreadStarts(t) => At("init", "lock")
    BY <1>1, ArrivesTurns, TurnsKeepsControl
  <2>3. Malloc!InitThreadStarts(t) => gPreviousDefaultDispatchTable \in Malloc!Allocators
    BY <1>1 DEF Malloc!InitThreadStarts, Malloc!Remembered
  <2>4. Malloc!ResetHooks(t) => At("reset", "lock")
    BY <1>1, ArrivesTurns, TurnsKeepsControl
  <2>5. Malloc!LimitEnable(t) => At("limit", "lock")
    BY <1>1, ArrivesTurns, TurnsKeepsControl
  <2>6. Malloc!MalloptDecayTime(t) => At("decay", "open")
    BY <1>1, DecayBegins
  <2>7. OthersStay(t) /\ malloc_pc'[t] # "call" /\ Malloc!Agrees(op'[t], malloc_pc'[t])
    BY <1>4, <2>1, <2>2, <2>3, <2>4, <2>5, <2>6
       DEF Arrives, Malloc!Agrees, Malloc!Changes, Malloc!Restored
  <2>8. QED
    BY <1>1, <1>2, <1>3, <2>7, QuietKeepsTables
<1>5. CASE Malloc!Malloc(t)
  <2>1. OthersStay(t) /\ op'[t] = "malloc" /\ malloc_pc'[t] = "call"
    BY <1>1, <1>5, ArrivesTurns, TurnsKeepsControl
  <2>2. malloc_table'[t] = current_dispatch_table
    BY <1>1, <1>5 DEF Malloc!Malloc, Malloc!Control, Malloc!PlacesOK
  <2>3. Malloc!Agrees(op'[t], malloc_pc'[t])
    BY <2>1 DEF Malloc!Agrees, Malloc!Changes, Malloc!Restored
  <2>4. /\ Malloc!Leads(malloc_table'[t])
        /\ malloc_table'[t] = "ephemeral" => gPreviousDefaultDispatchTable \in Malloc!Allocators
    BY <1>1, <2>2 DEF Malloc!TablesLead, Malloc!Remembered
  <2>5. QED
    BY <1>1, <1>2, <1>3, <2>1, <2>3, <2>4, QuietKeepsTables
<1>6. QED
  BY <1>4, <1>5

(***************************************************************************)
(* The steps of malloc() itself, of the mutex and of the exchange.         *)
(***************************************************************************)
LEMMA OutsideKeepsTables ==
  ASSUME Malloc!Inv, NEW t \in Threads, Outside(t) \/ Malloc!Exchange(t)
  PROVE  Malloc!StateAgrees' /\ Malloc!TablesLead'
<1> USE Zenon
<1>1. Malloc!Control /\ Malloc!StateAgrees /\ Malloc!TablesLead /\ Malloc!Agrees(op[t], malloc_pc[t])
      /\ malloc_table \in [Threads -> Malloc!Tables]
  BY DEF Malloc!Inv, Malloc!StateAgrees, Malloc!Control, Malloc!PlacesOK
<1>2. /\ UNCHANGED <<gHeapprofdState, gPreviousDefaultDispatchTable, gEphemeralDispatch, backing,
                     default_dispatch_table, current_dispatch_table, gwp, pending, started, fresh>>
      /\ malloc_pc[t] # "idle"
  BY DEF Outside, Malloc!MallocCall, Malloc!Lock, Malloc!Unlock, Malloc!Serve, Malloc!Exchange,
     Malloc!hooks, Malloc!tables
<1>3. Malloc!FreshIsQuiet'
  BY <1>1, <1>2, BusyNotFresh
<1> DEFINE Good == /\ OthersStay(t) /\ Malloc!Agrees(op'[t], malloc_pc'[t])
                   /\ malloc_pc'[t] = "call" =>
                        /\ Malloc!Leads(malloc_table'[t])
                        /\ malloc_table'[t] = "ephemeral" => gPreviousDefaultDispatchTable \in Malloc!Allocators
<1>4. ASSUME Malloc!MallocCall(t) PROVE Good
  <2>1. malloc_pc[t] = "call"
    BY <1>4 DEF Malloc!MallocCall
  <2>2. CASE Turns(t, "malloc", "call") /\ malloc_table[t] = "limit"
    <3>1. OthersStay(t) /\ op'[t] = "malloc" /\ malloc_pc'[t] = "call"
      BY <1>1, <1>3, <2>2, TurnsKeepsControl
    <3>2. malloc_table'[t] = default_dispatch_table
      BY <1>1, <1>4, <2>2 DEF Malloc!MallocCall
    <3>3. /\ Malloc!Leads(malloc_table'[t])
          /\ malloc_table'[t] = "ephemeral" => gPreviousDefaultDispatchTable \in Malloc!Allocators
      BY <1>1, <3>2 DEF Malloc!TablesLead, Malloc!StateAgrees, Malloc!Remembered
    <3>4. QED
      BY <3>1, <3>3 DEF Malloc!Agrees, Malloc!Changes, Malloc!Restored
  <2>3. CASE Turns(t, "hook", "lock") /\ malloc_table[t] = "ephemeral"
    <3>1. OthersStay(t) /\ op'[t] = "hook" /\ malloc_pc'[t] = "lock"
      BY <1>1, <1>3, <2>3, TurnsKeepsControl
    <3>2. gPreviousDefaultDispatchTable \in Malloc!Allocators
      BY <1>1, <2>1, <2>3 DEF Malloc!StateAgrees
    <3>3. QED
      BY <3>1, <3>2 DEF Malloc!Agrees, Malloc!Changes, Malloc!Restored
  <2>4. CASE Turns(t, "none", "idle")
    <3>1. OthersStay(t) /\ op'[t] = "none" /\ malloc_pc'[t] = "idle"
      BY <1>1, <1>3, <2>4, TurnsKeepsControl
    <3>2. QED
      BY <3>1 DEF Malloc!Agrees, Malloc!Changes, Malloc!Restored
  <2>5. QED
    BY <1>1, <1>4, <2>2, <2>3, <2>4, OutsideTurns
<1>5. ASSUME Malloc!Lock(t) PROVE Good
  <2>1. OthersStay(t) /\ op'[t] = op[t] /\ malloc_pc[t] = "lock" /\ malloc_pc'[t] = "exchange"
    BY <1>1, <1>3, <1>5, OutsideTurns, TurnsKeepsControl DEF Malloc!Lock
  <2>2. QED
    BY <1>1, <2>1 DEF Malloc!Agrees, Malloc!Changes, Malloc!Restored
<1>6. ASSUME Malloc!Unlock(t) PROVE Good
  <2>1. CASE op[t] = "hook"
    <3>1. OthersStay(t) /\ op'[t] = "malloc" /\ malloc_pc'[t] = "serve"
      BY <1>1, <1>3, <1>6, <2>1, OutsideTurns, TurnsKeepsControl
    <3>2. QED
      BY <1>1, <2>1, <3>1 DEF Malloc!Agrees, Malloc!Changes, Malloc!Restored
  <2>2. CASE op[t] # "hook"
    <3>1. OthersStay(t) /\ op'[t] = "none" /\ malloc_pc'[t] = "idle"
      BY <1>1, <1>3, <1>6, <2>2, OutsideTurns, TurnsKeepsControl
    <3>2. QED
      BY <3>1 DEF Malloc!Agrees, Malloc!Changes, Malloc!Restored
  <2>3. QED
    BY <2>1, <2>2
<1>7. ASSUME Malloc!Serve(t) PROVE Good
  <2>1. OthersStay(t) /\ op'[t] = "malloc" /\ malloc_pc[t] = "serve" /\ malloc_pc'[t] = "call"
    BY <1>1, <1>3, <1>7, OutsideTurns, TurnsKeepsControl DEF Malloc!Serve
  <2>2. malloc_table'[t] = gPreviousDefaultDispatchTable
    BY <1>1, <1>7 DEF Malloc!Serve
  <2>3. gPreviousDefaultDispatchTable \in Malloc!Allocators
    BY <1>1, <2>1 DEF Malloc!Agrees
  <2>4. QED
    BY <2>1, <2>2, <2>3 DEF Malloc!Agrees, Malloc!Changes, Malloc!Restored, Malloc!Leads
<1>8. ASSUME Malloc!Exchange(t) PROVE Good
  <2>1. malloc_pc[t] = "exchange" /\ op' = op
    BY <1>8 DEF Malloc!Exchange
  <2>2. OthersStay(t) /\ malloc_pc'[t] \in {"unlock", "transition", "open"}
        /\ (malloc_pc'[t] = "open" => op[t] = "limit")
    <3>1. gGlobalsMutating => OthersStay(t) /\ malloc_pc'[t] = "unlock"
      BY <1>1, <1>3, <1>8, OutsideTurns, TurnsKeepsControl
    <3>2. ~gGlobalsMutating => OthersStay(t) /\ malloc_pc'[t] = IF op[t] = "limit" THEN "open" ELSE "transition"
      BY <1>1, <1>8, ExchangeEnters
    <3>3. QED
      BY <3>1, <3>2
  <2>3. QED
    BY <1>1, <2>1, <2>2 DEF Malloc!Agrees, Malloc!Changes, Malloc!Restored
<1>9. Good
  BY <1>4, <1>5, <1>6, <1>7, <1>8 DEF Outside
<1>10. QED
  BY <1>1, <1>2, <1>9, QuietKeepsTables

(***************************************************************************)
(* The steps within the section that leave the tables alone.               *)
(***************************************************************************)
LEMMA WithinKeepsTables ==
  ASSUME Malloc!Inv, NEW t \in Threads,
         \/ Malloc!Open(t) \/ Malloc!CheckLimitInstalled(t) \/ Malloc!StoreDecayTime(t)
         \/ Malloc!Close(t) \/ Malloc!ClearMutating(t)
  PROVE  Malloc!StateAgrees' /\ Malloc!TablesLead'
<1> USE Zenon
<1>1. Malloc!Control /\ Malloc!StateAgrees /\ Malloc!TablesLead /\ Malloc!Agrees(op[t], malloc_pc[t])
  BY DEF Malloc!Inv, Malloc!StateAgrees
<1>2. UNCHANGED <<gHeapprofdState, gPreviousDefaultDispatchTable, gEphemeralDispatch, backing,
                  default_dispatch_table, current_dispatch_table, gwp, pending, op>>
  BY DEF Malloc!Open, Malloc!CheckLimitInstalled, Malloc!StoreDecayTime, Malloc!Close,
     Malloc!ClearMutating, Malloc!hooks, Malloc!tables
<1>3. malloc_pc \in [Threads -> Malloc!Places]
  BY <1>1 DEF Malloc!Control, Malloc!PlacesOK
<1>4. OthersStay(t)
  BY <1>1, WithinProceeds, ProceedsKeepsControl
<1>5. malloc_pc'[t] # "call" /\ Malloc!Agrees(op[t], malloc_pc'[t])
  <2> USE DEF Malloc!Go, Malloc!Agrees, Malloc!Changes, Malloc!Restored
  <2>1. CASE Malloc!Open(t)
    BY <1>1, <1>3, <2>1 DEF Malloc!Open
  <2>2. CASE Malloc!CheckLimitInstalled(t)
    BY <1>1, <1>3, <2>2 DEF Malloc!CheckLimitInstalled
  <2>3. CASE Malloc!StoreDecayTime(t)
    <3>1. op[t] = "decay"
      BY <1>1, <2>3 DEF Malloc!StoreDecayTime, Malloc!Control, Malloc!PlacesOK, Malloc!Fits,
         Malloc!Ops
    <3>2. QED
      BY <1>3, <2>3, <3>1 DEF Malloc!StoreDecayTime
  <2>4. CASE Malloc!Close(t)
    BY <1>1, <1>3, <2>4 DEF Malloc!Close
  <2>5. CASE Malloc!ClearMutating(t)
    BY <1>1, <1>3, <2>5 DEF Malloc!ClearMutating
  <2>6. QED
    BY <2>1, <2>2, <2>3, <2>4, <2>5
<1>6. QED
  BY <1>1, <1>2, <1>4, <1>5, QuietKeepsTables

(***************************************************************************)
(* The compare-exchange on gHeapprofdState that starts a change, and the   *)
(* store that ends it.                                                     *)
(***************************************************************************)
LEMMA TransitsKeepsTables ==
  ASSUME Malloc!Inv, NEW t \in Threads, Transits(t) \/ Malloc!StoreState(t)
  PROVE  Malloc!StateAgrees' /\ Malloc!TablesLead'
<1> USE Zenon
<1> USE DEF Malloc!tables
<1>1. /\ Malloc!Control /\ Malloc!OneMutates /\ Malloc!StateAgrees /\ Malloc!TablesLead /\ Malloc!Remembered
      /\ Malloc!Agrees(op[t], malloc_pc[t]) /\ malloc_pc \in [Threads -> Malloc!Places]
  BY DEF Malloc!Inv, Malloc!Control, Malloc!StateAgrees, Malloc!PlacesOK
<1>2. UNCHANGED <<gPreviousDefaultDispatchTable, gEphemeralDispatch, backing,
                  default_dispatch_table, current_dispatch_table, gwp, op>>
  BY DEF Transits, Malloc!MallocInitHeapprofdHook, Malloc!InitHeapprofd, Malloc!DispatchReset,
     Malloc!Transition, Malloc!StoreState
<1>3. OthersStay(t)
  BY <1>1, WithinProceeds, ProceedsKeepsControl
<1>4. malloc_pc[t] \in Malloc!Mutates
  BY DEF Transits, Malloc!MallocInitHeapprofdHook, Malloc!InitHeapprofd, Malloc!DispatchReset,
     Malloc!Transition, Malloc!StoreState, Malloc!Mutates
<1>5. /\ default_dispatch_table' # "limit" /\ Malloc!Leads(default_dispatch_table)'
      /\ Malloc!Leads(current_dispatch_table)'
  BY <1>1, <1>2 DEF Malloc!TablesLead, Malloc!Leads, Malloc!Allocators
<1>6. ASSUME Transits(t)
      PROVE  malloc_pc'[t] # "call" /\ Malloc!Remembered' /\ Malloc!Agrees(op[t], malloc_pc[t])'
  <2> USE DEF Malloc!MallocInitHeapprofdHook, Malloc!InitHeapprofd, Malloc!DispatchReset, Malloc!Transition
  <2>1. malloc_pc[t] = "transition" /\ op[t] \in {"hook", "init", "reset"} /\ pending' = pending
    BY <1>6 DEF Transits
  <2>2. \/ malloc_pc'[t] = "clear" /\ gHeapprofdState' = gHeapprofdState
        \/ /\ malloc_pc'[t] = "open"
           /\ \/ op[t] = "hook" /\ gHeapprofdState = "EphemeralInstalled" /\ gHeapprofdState' = "RemovingEphemeral"
              \/ op[t] = "init" /\ gHeapprofdState = "Initial" /\ gHeapprofdState' = "Installing"
              \/ op[t] = "reset" /\ gHeapprofdState = "Installed" /\ gHeapprofdState' = "Uninstalling"
    BY <1>1, <1>6 DEF Transits, Malloc!Go
  <2>0. malloc_pc'[t] = "open" => gPreviousDefaultDispatchTable \in Malloc!Allocators
    BY <1>1, <2>2 DEF Malloc!Remembered, Malloc!Agrees
  <2>3. Malloc!Remembered'
    BY <1>1, <1>2, <2>0, <2>1, <2>2 DEF Malloc!Remembered, Malloc!Allocators
  <2>4. Malloc!Agrees(op[t], malloc_pc[t])'
    BY <1>1, <1>2, <2>1, <2>2
       DEF Malloc!Remembered, Malloc!Agrees, Malloc!Changes, Malloc!Restored, Malloc!Allocators
  <2>5. QED
    BY <2>2, <2>3, <2>4
<1>7. ASSUME Malloc!StoreState(t)
      PROVE  malloc_pc'[t] # "call" /\ Malloc!Remembered' /\ Malloc!Agrees(op[t], malloc_pc[t])'
  <2>1. malloc_pc[t] = "state" /\ malloc_pc'[t] = "clear"
    BY <1>1, <1>7 DEF Malloc!StoreState, Malloc!Go
  <2>2. /\ op[t] # "reset" => gPreviousDefaultDispatchTable \in Malloc!Allocators
        /\ op[t] \in {"hook", "reset"} => default_dispatch_table \in Malloc!Allocators
        /\ op[t] # "hook" => pending' = pending
        /\ \/ gHeapprofdState' \notin {"Initial", "Incompatible"} /\ op[t] # "reset"
           \/ gHeapprofdState' = "Initial" /\ op[t] \in {"hook", "reset"}
    BY <1>1, <1>7, <2>1
       DEF Malloc!StoreState, Malloc!Agrees, Malloc!Changes, Malloc!Restored, Malloc!Remembered
  <2>3. Malloc!Remembered'
    BY <1>1, <1>2, <2>2 DEF Malloc!Remembered, Malloc!Allocators
  <2>4. Malloc!Agrees(op[t], malloc_pc[t])'
    BY <1>1, <1>2, <2>1 DEF Malloc!Agrees, Malloc!Changes, Malloc!Restored, Malloc!Allocators
  <2>5. QED
    BY <2>1, <2>3, <2>4
<1>8. malloc_pc'[t] # "call" /\ Malloc!Remembered' /\ Malloc!Agrees(op[t], malloc_pc[t])'
  BY <1>6, <1>7
<1>9. QED
  BY <1>1, <1>2, <1>3, <1>4, <1>5, <1>8, ChangeKeepsTables

(***************************************************************************)
(* HandleHeapprofdSignal remembers the allocator's table and puts it       *)
(* behind the ephemeral one.                                               *)
(***************************************************************************)
LEMMA SignalKeepsTables ==
  ASSUME Malloc!Inv, NEW t \in Threads, Malloc!HandleHeapprofdSignal(t)
  PROVE  Malloc!StateAgrees' /\ Malloc!TablesLead'
<1> USE Zenon
<1> USE DEF Malloc!tables
<1>1. /\ Malloc!Control /\ Malloc!OneMutates /\ Malloc!StateAgrees /\ Malloc!TablesLead /\ Malloc!Remembered
      /\ Malloc!Agrees(op[t], malloc_pc[t]) /\ malloc_pc \in [Threads -> Malloc!Places]
  BY DEF Malloc!Inv, Malloc!Control, Malloc!StateAgrees, Malloc!PlacesOK
<1>2. /\ UNCHANGED <<backing, default_dispatch_table, current_dispatch_table, gwp, op, pending>>
      /\ malloc_pc[t] = "transition" /\ op[t] = "signal"
  BY DEF Malloc!HandleHeapprofdSignal
<1>3. OthersStay(t) /\ malloc_pc[t] \in Malloc!Mutates
  BY <1>1, <1>2, WithinProceeds, ProceedsKeepsControl DEF Malloc!Mutates
<1>4. CASE gHeapprofdState \notin {"Initial", "Installed"}
  <2>1. /\ UNCHANGED <<gHeapprofdState, gPreviousDefaultDispatchTable, gEphemeralDispatch>>
        /\ malloc_pc'[t] = "clear"
    BY <1>1, <1>4 DEF Malloc!HandleHeapprofdSignal, Malloc!Go
  <2>2. Malloc!Agrees(op'[t], malloc_pc'[t])
    BY <1>1, <1>2, <2>1 DEF Malloc!Agrees, Malloc!Changes, Malloc!Restored
  <2>3. QED
    BY <1>1, <1>2, <1>3, <2>1, <2>2, QuietKeepsTables
<1>5. CASE gHeapprofdState \in {"Initial", "Installed"}
  <2>1. PICK previous : Malloc!Decide(t, previous) /\ previous \in Malloc!Allocators
    BY <1>1, <1>5 DEF Malloc!HandleHeapprofdSignal, Malloc!GwpOrNull, Malloc!Remembered,
       Malloc!Allocators
  <2>2. /\ gHeapprofdState' = "InstallingEphemeral" /\ gPreviousDefaultDispatchTable' \in Malloc!Allocators
        /\ gEphemeralDispatch'.base \in Malloc!Allocators /\ malloc_pc'[t] = "arm"
    BY <1>1, <2>1 DEF Malloc!Decide, Malloc!Go
  <2>3. Malloc!Allocators' = Malloc!Allocators
    BY <1>2 DEF Malloc!Allocators
  <2>4. Malloc!Remembered' /\ Malloc!Agrees(op[t], malloc_pc[t])'
    BY <1>2, <2>2, <2>3 DEF Malloc!Remembered, Malloc!Agrees, Malloc!Changes, Malloc!Restored
  <2>5. /\ default_dispatch_table' # "limit" /\ Malloc!Leads(default_dispatch_table)'
        /\ Malloc!Leads(current_dispatch_table)'
    BY <1>1, <1>2, <2>2, <2>3 DEF Malloc!TablesLead, Malloc!Leads
  <2>6. QED
    BY <1>1, <1>2, <1>3, <2>2, <2>4, <2>5, ChangeKeepsTables
<1>6. QED
  BY <1>4, <1>5

(***************************************************************************)
(* The stores to the tables, and what is done to them before: the          *)
(* ephemeral table gets its hook, the profiler's library its table.        *)
(***************************************************************************)
LEMMA StoresKeepTables ==
  ASSUME Malloc!Inv, NEW t \in Threads,
         \/ Malloc!ArmEphemeral(t) \/ Malloc!LoadProfiler(t) \/ Malloc!StoreDefault(t)
         \/ Malloc!StoreCurrent(t) \/ Malloc!StoreLimit(t)
  PROVE  Malloc!StateAgrees' /\ Malloc!TablesLead'
<1> USE DEF Malloc!hooks, Malloc!tables, Malloc!Go
<1>1. /\ Malloc!Control /\ Malloc!OneMutates /\ Malloc!StateAgrees /\ Malloc!TablesLead /\ Malloc!Remembered
      /\ Malloc!Agrees(op[t], malloc_pc[t]) /\ malloc_pc \in [Threads -> Malloc!Places]
      /\ Malloc!Fits(op[t], malloc_pc[t]) /\ op[t] \in Malloc!Ops
  BY Zenon DEF Malloc!Inv, Malloc!Control, Malloc!StateAgrees, Malloc!PlacesOK
<1>2. UNCHANGED <<gHeapprofdState, gPreviousDefaultDispatchTable, gwp, op, pending>>
  BY Zenon DEF Malloc!ArmEphemeral, Malloc!LoadProfiler, Malloc!StoreDefault, Malloc!StoreCurrent,
     Malloc!StoreLimit
<1>3. OthersStay(t)
  BY <1>1, WithinProceeds, ProceedsKeepsControl, Zenon
<1>4. malloc_pc[t] \in Malloc!Mutates
  BY Zenon DEF Malloc!ArmEphemeral, Malloc!LoadProfiler, Malloc!StoreDefault, Malloc!StoreCurrent,
     Malloc!StoreLimit, Malloc!Mutates
<1>5. Malloc!Allocators' = Malloc!Allocators
  BY <1>2, Zenon DEF Malloc!Allocators
<1> DEFINE Good ==
     /\ malloc_pc'[t] # "call"
     /\ gEphemeralDispatch.base \in Malloc!Allocators => gEphemeralDispatch'.base \in Malloc!Allocators
     /\ backing \in Malloc!Allocators => backing' \in Malloc!Allocators
     /\ Malloc!Remembered' /\ Malloc!Agrees(op[t], malloc_pc[t])'
     /\ default_dispatch_table' # "limit" /\ Malloc!Leads(default_dispatch_table)'
     /\ Malloc!Leads(current_dispatch_table)'
<1>6. ASSUME Malloc!ArmEphemeral(t) PROVE Good
  <2>1. /\ malloc_pc[t] = "arm" /\ malloc_pc'[t] = "open" /\ op[t] = "signal"
        /\ UNCHANGED <<backing, default_dispatch_table, current_dispatch_table>>
    BY <1>1, <1>6, Zenon DEF Malloc!ArmEphemeral, Malloc!Fits
  <2>2. gEphemeralDispatch'.base = gEphemeralDispatch.base
    BY <1>6 DEF Malloc!ArmEphemeral
  <2>3. QED
    BY <1>1, <1>2, <1>5, <2>1, <2>2, Zenon
       DEF Malloc!Remembered, Malloc!Agrees, Malloc!Changes, Malloc!Restored, Malloc!TablesLead,
           Malloc!Leads
<1>7. ASSUME Malloc!LoadProfiler(t) PROVE Good
  <2> USE Zenon
  <2>1. /\ malloc_pc[t] = "load" /\ op[t] = "init"
        /\ UNCHANGED <<gEphemeralDispatch, default_dispatch_table, current_dispatch_table>>
    BY <1>1, <1>7 DEF Malloc!LoadProfiler, Malloc!Fits
  <2>2. default_dispatch_table \in Malloc!Allocators /\ gHeapprofdState = "Installing"
        /\ gPreviousDefaultDispatchTable \in Malloc!Allocators
    BY <1>1, <2>1 DEF Malloc!Agrees, Malloc!Changes
  <2>3. \/ backing' = default_dispatch_table /\ malloc_pc'[t] = "default"
        \/ backing' = backing /\ malloc_pc'[t] = "close"
    BY <1>1, <1>7 DEF Malloc!LoadProfiler
  <2>4. Malloc!Remembered'
    BY <1>2, <1>5, <2>2 DEF Malloc!Remembered
  <2>5. Malloc!Agrees(op[t], malloc_pc[t])'
    BY <1>2, <1>5, <2>1, <2>2, <2>3 DEF Malloc!Agrees, Malloc!Changes, Malloc!Restored
  <2>6. QED
    BY <1>1, <1>5, <2>1, <2>2, <2>3, <2>4, <2>5 DEF Malloc!TablesLead, Malloc!Leads
<1>8. ASSUME malloc_pc[t] \in {"default", "current"}
      PROVE  /\ op[t] \in {"signal", "init", "hook", "reset"} /\ Malloc!TableOf(t) # "limit"
             /\ Malloc!Leads(Malloc!TableOf(t)) /\ gPreviousDefaultDispatchTable \in Malloc!Allocators
             /\ gHeapprofdState # "Initial"
             /\ op[t] \in {"hook", "reset"} => Malloc!TableOf(t) \in Malloc!Allocators
  <2> USE Zenon
  <2>1. op[t] \in {"signal", "init", "hook", "reset"}
    BY <1>1, <1>8 DEF Malloc!Fits, Malloc!Ops
  <2>2. gHeapprofdState \notin {"Initial", "Incompatible"}
    BY <1>1, <1>8, <2>1 DEF Malloc!Agrees, Malloc!Changes
  <2>3. gPreviousDefaultDispatchTable \in Malloc!Allocators
    BY <1>1, <2>2 DEF Malloc!Remembered
  <2>4. "limit" \notin Malloc!Allocators
    BY DEF Malloc!Allocators
  <2>5. QED
    BY <1>1, <1>8, <2>1, <2>2, <2>3, <2>4 DEF Malloc!Agrees, Malloc!Changes, Malloc!TableOf,
       Malloc!Leads
<1>9. ASSUME Malloc!StoreDefault(t) PROVE Good
  <2> USE Zenon
  <2>1. /\ malloc_pc[t] = "default" /\ malloc_pc'[t] = "installed?"
        /\ default_dispatch_table' = Malloc!TableOf(t)
        /\ UNCHANGED <<gEphemeralDispatch, backing, current_dispatch_table>>
    BY <1>1, <1>9 DEF Malloc!StoreDefault
  <2>2. Malloc!Remembered'
    BY <1>2, <1>5, <1>8, <2>1 DEF Malloc!Remembered
  <2>3. Malloc!Agrees(op[t], malloc_pc[t])'
    BY <1>1, <1>2, <1>5, <1>8, <2>1 DEF Malloc!Agrees, Malloc!Changes, Malloc!Restored
  <2>4. QED
    BY <1>1, <1>5, <1>8, <2>1, <2>2, <2>3 DEF Malloc!TablesLead, Malloc!Leads
<1>10. ASSUME Malloc!StoreCurrent(t) PROVE Good
  <2> USE Zenon
  <2>1. /\ malloc_pc[t] = "current" /\ malloc_pc'[t] = "close"
        /\ current_dispatch_table' = Malloc!TableOf(t)
        /\ UNCHANGED <<gEphemeralDispatch, backing, default_dispatch_table>>
    BY <1>1, <1>10 DEF Malloc!StoreCurrent
  <2>2. Malloc!Remembered'
    BY <1>2, <1>5, <1>8, <2>1 DEF Malloc!Remembered
  <2>3. Malloc!Agrees(op[t], malloc_pc[t])'
    BY <1>1, <1>2, <1>5, <1>8, <2>1 DEF Malloc!Agrees, Malloc!Changes, Malloc!Restored
  <2>4. QED
    BY <1>1, <1>5, <1>8, <2>1, <2>2, <2>3 DEF Malloc!TablesLead, Malloc!Leads
<1>11. ASSUME Malloc!StoreLimit(t) PROVE Good
  <2> USE Zenon
  <2>1. /\ op[t] = "limit" /\ malloc_pc'[t] = "close" /\ current_dispatch_table' = "limit"
        /\ UNCHANGED <<gEphemeralDispatch, backing, default_dispatch_table>>
    BY <1>1, <1>11 DEF Malloc!StoreLimit, Malloc!Fits, Malloc!Ops, Malloc!Changes
  <2>2. Malloc!Remembered' /\ Malloc!Agrees(op[t], malloc_pc[t])'
    BY <1>1, <1>2, <1>5, <2>1 DEF Malloc!Remembered, Malloc!Agrees, Malloc!Changes, Malloc!Restored
  <2>3. QED
    BY <1>1, <1>5, <2>1, <2>2 DEF Malloc!TablesLead, Malloc!Leads
<1>12. Good
  BY <1>6, <1>7, <1>9, <1>10, <1>11, Zenon
<1>13. QED
  BY <1>1, <1>2, <1>3, <1>4, <1>12, ChangeKeepsTables, Zenon

(***************************************************************************)
(* What libc installs as it starts leads to the allocator, and so does the *)
(* table of a zygote's child that enables GWP-ASan, unless it does so with *)
(* a profiler that failed to load.                                         *)
(***************************************************************************)
LEMMA StartKeepsTables ==
  ASSUME Malloc!Inv, Malloc!MallocInitImpl \/ Malloc!EnableGwpAsan
  PROVE  Malloc!StateAgrees' /\ Malloc!TablesLead'
<1> USE Zenon
<1> USE DEF Malloc!hooks, Malloc!tables
<1>1. Malloc!Control /\ Malloc!FreshIsQuiet /\ fresh
  BY DEF Malloc!Inv, Malloc!Control, Malloc!FreshIsQuiet, Malloc!MallocInitImpl,
     Malloc!EnableGwpAsan
<1>2. UNCHANGED <<op, malloc_pc, malloc_table, pending>> /\ pending = 0
      /\ \A t \in Threads : op[t] = "none" /\ malloc_pc[t] = "idle"
  BY <1>1 DEF Malloc!Control, Malloc!FreshIsQuiet, Malloc!PlacesOK, Malloc!Fits,
     Malloc!MallocInitImpl, Malloc!EnableGwpAsan
<1>3. /\ current_dispatch_table' = default_dispatch_table'
      /\ Malloc!Leads(default_dispatch_table)' /\ default_dispatch_table' \notin {"limit", "ephemeral"}
      /\ gHeapprofdState' = "Initial" => default_dispatch_table' \in Malloc!Allocators'
      /\ gHeapprofdState' \notin {"Initial", "Incompatible"} =>
           gPreviousDefaultDispatchTable' \in Malloc!Allocators'
  <2>1. CASE Malloc!MallocInitImpl
    <3>1. PICK asan, debug, profile, loads \in BOOLEAN :
            LET first == IF asan THEN "gwp" ELSE "null"
                last  == IF debug THEN "debug" ELSE IF profile /\ loads THEN "heapprofd" ELSE first
            IN /\ gwp' = IF asan THEN "on" ELSE "off"
               /\ default_dispatch_table' = last
               /\ current_dispatch_table' = last
               /\ gHeapprofdState' = IF debug THEN "Incompatible"
                                     ELSE IF profile THEN "Installed" ELSE "Initial"
               /\ gPreviousDefaultDispatchTable' = IF ~debug /\ profile THEN first ELSE "null"
               /\ backing' = IF last \in {"debug", "heapprofd"} THEN first ELSE "null"
      BY <2>1 DEF Malloc!MallocInitImpl
    <3>2. Malloc!Allocators' = {IF asan THEN "gwp" ELSE "null"}
      BY <3>1 DEF Malloc!Allocators
    <3>3. QED
      BY <3>1, <3>2 DEF Malloc!Leads
  <2>2. CASE Malloc!EnableGwpAsan
    <3>1. /\ default_dispatch_table' = "gwp" /\ current_dispatch_table' = "gwp" /\ gwp = "off"
          /\ gHeapprofdState \in {"Initial", "Installed", "Incompatible"}
          /\ UNCHANGED <<gHeapprofdState, gPreviousDefaultDispatchTable>>
          /\ gwp' = IF gHeapprofdState = "Installed" THEN "late" ELSE "on"
      BY <1>1, <2>2 DEF Malloc!EnableGwpAsan, Malloc!FreshIsQuiet
    <3>2. "gwp" \in Malloc!Allocators'
      BY <3>1 DEF Malloc!Allocators
    <3>3. gHeapprofdState = "Installed" => gPreviousDefaultDispatchTable \in Malloc!Allocators'
      BY <3>1 DEF Malloc!Inv, Malloc!StateAgrees, Malloc!Remembered, Malloc!Allocators
    <3>4. QED
      BY <3>1, <3>2, <3>3 DEF Malloc!Leads
  <2>3. QED
    BY <2>1, <2>2
<1>4. ~(0 > 0)
  BY SMT
<1>5. Malloc!Remembered'
  BY <1>2, <1>3, <1>4 DEF Malloc!Remembered
<1>6. ASSUME NEW t \in Threads PROVE Malloc!Agrees(op[t], malloc_pc[t])'
  BY <1>2 DEF Malloc!Agrees, Malloc!Changes, Malloc!Restored
<1>7. QED
  BY <1>2, <1>3, <1>5, <1>6 DEF Malloc!StateAgrees, Malloc!TablesLead

(***************************************************************************)
(* Every store leaves tables that lead to the allocator, given that one    *)
(* thread at a time makes them.                                            *)
(***************************************************************************)
LEMMA MallocTablesKept ==
  ASSUME ~Overlap, Malloc!Inv, [Malloc!Next]_(Malloc!vars)
  PROVE  Malloc!StateAgrees' /\ Malloc!TablesLead'
<1> USE Zenon
<1>1. CASE Malloc!MallocInitImpl \/ Malloc!EnableGwpAsan
  BY <1>1, StartKeepsTables
<1>2. ASSUME NEW t \in Threads, Arrives(t) \/ Malloc!MalloptDecayTime(t)
      PROVE  Malloc!StateAgrees' /\ Malloc!TablesLead'
  BY <1>2, ArrivesKeepsTables
<1>3. ASSUME NEW t \in Threads, Outside(t) \/ Malloc!Exchange(t)
      PROVE  Malloc!StateAgrees' /\ Malloc!TablesLead'
  BY <1>3, OutsideKeepsTables
<1>4. ASSUME NEW t \in Threads, Malloc!HandleHeapprofdSignal(t)
      PROVE  Malloc!StateAgrees' /\ Malloc!TablesLead'
  BY <1>4, SignalKeepsTables
<1>5. ASSUME NEW t \in Threads, Transits(t) \/ Within(t)
      PROVE  Malloc!StateAgrees' /\ Malloc!TablesLead'
  BY <1>5, TransitsKeepsTables, WithinKeepsTables, StoresKeepTables DEF Within
<1>6. CASE UNCHANGED Malloc!vars
  BY <1>6, StutterKeeps DEF Malloc!Inv
<1>7. QED
  BY <1>1, <1>2, <1>3, <1>4, <1>5, <1>6 DEF Malloc!Next, Arrives, Outside, Transits, Within

(***************************************************************************)
(* When mallopt(M_DECAY_TIME) runs alone, one thread at a time changes the *)
(* protected globals of malloc: Control is inductive.                      *)
(***************************************************************************)
THEOREM MallocControlled ==
  ASSUME ~Overlap
  PROVE  Malloc!Spec => []Malloc!Control
<1>1. Malloc!Init => Malloc!Control
  BY MallocInitInv, Zenon DEF Malloc!Inv
<1>2. Malloc!Control /\ [Malloc!Next]_(Malloc!vars) => Malloc!Control'
  BY MallocControlKept, Zenon
<1>3. QED
  BY <1>1, <1>2, PTL DEF Malloc!Spec

(***************************************************************************)
(* Then the tables in force, remembered or loaded lead to an allocator,    *)
(* and the state of the profiler says which: Inv is inductive.             *)
(***************************************************************************)
THEOREM MallocInvariant ==
  ASSUME ~Overlap
  PROVE  Malloc!Spec => []Malloc!Inv
<1>1. Malloc!Inv /\ [Malloc!Next]_(Malloc!vars) => Malloc!Inv'
  <2> USE Zenon
  <2>1. Malloc!Inv /\ [Malloc!Next]_(Malloc!vars) => Malloc!Control'
    BY MallocControlKept DEF Malloc!Inv
  <2>2. Malloc!Inv /\ [Malloc!Next]_(Malloc!vars) => Malloc!StateAgrees' /\ Malloc!TablesLead'
    BY MallocTablesKept
  <2>3. QED
    BY <2>1, <2>2 DEF Malloc!Inv
<1>2. QED
  BY <1>1, MallocInitInv, PTL DEF Malloc!Spec

(***************************************************************************)
(* When mallopt(M_DECAY_TIME) runs alone, every store to the protected     *)
(* globals finds their page open, for any number of threads.               *)
(***************************************************************************)
THEOREM PageOpenAtStores ==
  ASSUME ~Overlap
  PROVE  Malloc!Spec => []StoresFindPageOpen
<1>1. Malloc!Control => StoresFindPageOpen
  BY Zenon DEF Malloc!Control, Malloc!OneMutates, StoresFindPageOpen, Malloc!StoresFindPageOpen
<1>2. QED
  BY <1>1, MallocControlled, PTL

(***************************************************************************)
(* Then also an allocation limit in force stays in force.                  *)
(***************************************************************************)
THEOREM LimitNeverSwappedOut ==
  ASSUME ~Overlap
  PROVE  Malloc!Spec => LimitStays
<1>1. ASSUME Malloc!Control, [Malloc!Next]_(Malloc!vars)
      PROVE  [current_dispatch_table = "limit" => current_dispatch_table' = "limit"]_(Malloc!vars)
  <2> USE Zenon
  <2> USE DEF Malloc!hooks, Malloc!tables, Malloc!guard
  <2>1. SUFFICES ASSUME Malloc!Next, current_dispatch_table = "limit"
                 PROVE  current_dispatch_table' = "limit"
    BY <1>1
  <2>2. CASE Malloc!MallocInitImpl \/ Malloc!EnableGwpAsan
    BY <1>1, <2>1, <2>2 DEF Malloc!MallocInitImpl, Malloc!EnableGwpAsan, Malloc!Control,
       Malloc!FreshIsQuiet
  <2>3. ASSUME NEW t \in Threads, Malloc!StoreCurrent(t) \/ Malloc!StoreLimit(t)
        PROVE  current_dispatch_table' = "limit"
    BY <1>1, <2>1, <2>3 DEF Malloc!StoreCurrent, Malloc!StoreLimit, Malloc!Control,
       Malloc!OneMutates
  <2>4. CASE current_dispatch_table' = current_dispatch_table
    BY <2>1, <2>4
  <2>5. \/ Malloc!MallocInitImpl \/ Malloc!EnableGwpAsan
        \/ \E t \in Threads : Malloc!StoreCurrent(t) \/ Malloc!StoreLimit(t)
        \/ current_dispatch_table' = current_dispatch_table
    BY <2>1 DEF Malloc!Next, Malloc!SignalArrives, Malloc!InitThreadStarts, Malloc!ResetHooks,
       Malloc!LimitEnable, Malloc!MalloptDecayTime, Malloc!Malloc, Malloc!MallocCall, Malloc!Lock,
       Malloc!Exchange, Malloc!MallocInitHeapprofdHook, Malloc!InitHeapprofd, Malloc!DispatchReset,
       Malloc!HandleHeapprofdSignal, Malloc!ArmEphemeral, Malloc!Open, Malloc!LoadProfiler,
       Malloc!StoreDefault, Malloc!CheckLimitInstalled, Malloc!StoreDecayTime, Malloc!Close,
       Malloc!StoreState, Malloc!ClearMutating, Malloc!Unlock, Malloc!Serve, Malloc!Transition
  <2>6. QED
    BY <2>2, <2>3, <2>4, <2>5
<1>2. QED
  BY <1>1, MallocControlled, PTL DEF Malloc!Spec, LimitStays, Malloc!LimitStays

(***************************************************************************)
(* Once GWP-ASan serves allocations, every table in force or already       *)
(* loaded leads to it, and none back to itself, for any number of threads  *)
(* and however often the profiler comes and goes.                          *)
(***************************************************************************)
THEOREM AllocatorAlwaysKept ==
  ASSUME ~Overlap
  PROVE  Malloc!Spec => []AllocatorKept
<1>1. Malloc!Inv => AllocatorKept
  <2> USE Zenon
  <2> SUFFICES ASSUME Malloc!Inv, NEW d \in Malloc!InForce
               PROVE  Malloc!Ends(d) /\ (gwp = "on" => "gwp" \in Malloc!Passes(d))
    BY DEF AllocatorKept, Malloc!AllocatorKept
  <2>1. Malloc!Leads(d) /\ Malloc!Leads(default_dispatch_table) /\ default_dispatch_table # "limit"
    BY DEF Malloc!Inv, Malloc!TablesLead, Malloc!InForce
  <2>2. QED
    BY <2>1 DEF Malloc!Leads, Malloc!Ends, Malloc!Passes, Malloc!Behind, Malloc!Allocators
<1>2. QED
  BY <1>1, MallocInvariant, PTL

-----------------------------------------------------------------------------
(*  The tags of file descriptors (Fdsan).                                  *)

(***************************************************************************)
(* Division with remainder, for the rounding of at() to pages.             *)
(***************************************************************************)
LEMMA DivisionWithRemainder ==
  ASSUME NEW n \in Int, NEW P \in Nat \ {0}
  PROVE  n \div P \in Int /\ n % P \in 0 .. P - 1 /\ n = P * (n \div P) + (n % P)
OBVIOUS

(***************************************************************************)
(* Rounded up to pages, an overflow table still has its header and an      *)
(* entry for every descriptor below the limit.                             *)
(***************************************************************************)
LEMMA PagesSuffice ==
  ASSUME NEW P \in Nat \ {0}, NEW r \in Nat
  PROVE  ((r + P - 1) \div P) * P \in Nat /\ ((r + P - 1) \div P) * P >= r
<1> DEFINE n == r + P - 1
           q == n \div P
<1>1. n \in Nat /\ n \in Int
  OBVIOUS
<1> HIDE DEF n
<1>2. n = P * q + (n % P) /\ n % P \in 0 .. P - 1 /\ q \in Int
  BY <1>1, DivisionWithRemainder, Zenon
<1> HIDE DEF q
<1>3. P * q = q * P /\ q * P \in Int
  BY <1>2
<1>4. QED
  BY <1>1, <1>2, <1>3 DEF n, q

(***************************************************************************)
(* A thread that holds its descriptor moves on, in its vforked child or to *)
(* android_fdsan_close_with_tag, without touching the tags.                *)
(***************************************************************************)
LEMMA FdsMoves ==
  ASSUME Fds!Inv,
         NEW t \in Openers, fdsan_pc[t] \in {"held", "child", "gone"},
         NEW l \in {"held", "child", "gone", "closeAt"},
         fdsan_pc' = [fdsan_pc EXCEPT ![t] = l],
         UNCHANGED <<open, rlim_max, overflow, len, close_tag, fd, fdsan_owner,
                     fdsan_table, fdsan_error>>
  PROVE  Fds!Inv'
<1> USE DEF Fds!Inv, Fds!TypeOK
<1>1. Fds!TypeOK' /\ Fds!NoFalseAlarm'
  BY DEF Fds!NoFalseAlarm, Fds!Entries, Fds!Fds
<1>2. Fds!OwnersApart'
  BY DEF Fds!OwnersApart
<1>3. Fds!TablesFit'
  BY DEF Fds!TablesFit, Fds!Home, Fds!Reaches
<1>4. \A u \in Openers : Fds!Tagged(u) => Fds!Tagged(u)' /\ (fdsan_pc'[u] = "closing" => fdsan_pc[u] = "closing")
  BY DEF Fds!Tagged
<1>5. \A u \in Openers : Fds!Tagged(u)' => Fds!Tagged(u)
  BY DEF Fds!Tagged
<1>6. Fds!TagsAgree'
  BY <1>4, <1>5 DEF Fds!TagsAgree, Fds!Home, Fds!Reaches, Fds!Entries, Fds!Fds
<1>7. QED
  BY <1>1, <1>2, <1>3, <1>6

(***************************************************************************)
(* Every step keeps the tags and their owners in agreement.                *)
(***************************************************************************)
LEMMA FdsNextInv ==
  ASSUME Fds!Inv, [Fds!Next]_(Fds!vars)
  PROVE  Fds!Inv'
<1>0. /\ NoTag \notin Openers /\ NoTag # "inline"
      /\ InlineFds \in Nat /\ LowFds \in Nat /\ MaxFds \in Nat \ {0} /\ PageEntries \in Nat \ {0}
      /\ LowFds <= MaxFds
  BY FdsanAssumption DEF Fds!Inline
<1> USE <1>0 DEF Fds!Inv, Fds!Goto, Fds!Fds, Fds!TypeOK
<1>1. ASSUME Fds!LowerLimit PROVE Fds!Inv'
  <2>0. /\ rlim_max' <= rlim_max /\ rlim_max \in Nat /\ rlim_max' \in Nat
        /\ rlim_max' \in {MaxFds, LowFds}
        /\ UNCHANGED <<open, overflow, len, close_tag, fdsan_pc, fd, fdsan_owner,
                       fdsan_table, fdsan_error>>
    BY <1>1 DEF Fds!LowerLimit
  <2>1. Fds!TypeOK'
    BY <2>0 DEF Fds!Entries
  <2>2. Fds!OwnersApart'
    BY <2>0 DEF Fds!OwnersApart
  <2>3. Fds!TablesFit'
    BY <2>0 DEF Fds!TablesFit, Fds!Home, Fds!Reaches
  <2>4. Fds!TagsAgree'
    BY <2>0 DEF Fds!TagsAgree, Fds!Tagged, Fds!Home, Fds!Reaches, Fds!Entries
  <2>5. Fds!NoFalseAlarm'
    BY <2>0 DEF Fds!NoFalseAlarm
  <2>6. QED
    BY <2>1, <2>2, <2>3, <2>4, <2>5
<1>2. ASSUME NEW t \in Openers, Fds!Open(t) PROVE Fds!Inv'
  <2>1. PICK f \in Fds!Fds \ open :
          /\ fdsan_pc[t] = "idle"
          /\ open' = open \cup {f} /\ fd' = [fd EXCEPT ![t] = f]
          /\ \/ /\ fdsan_owner' = [fdsan_owner EXCEPT ![t] = t]
                /\ fdsan_pc' = [fdsan_pc EXCEPT ![t] = "at"]
             \/ /\ fdsan_owner' = [fdsan_owner EXCEPT ![t] = NoTag]
                /\ fdsan_pc' = [fdsan_pc EXCEPT ![t] = "held"]
          /\ UNCHANGED <<rlim_max, overflow, len, close_tag, fdsan_table, fdsan_error>>
    BY <1>2 DEF Fds!Open
  <2>2. Fds!TypeOK' /\ Fds!NoFalseAlarm'
    BY <2>1 DEF Fds!NoFalseAlarm
  <2>3. Fds!OwnersApart'
    BY <2>1 DEF Fds!OwnersApart
  <2>4. Fds!TablesFit'
    BY <2>1 DEF Fds!TablesFit, Fds!Home, Fds!Reaches
  <2>5. Fds!TagsAgree'
    BY <2>1 DEF Fds!TagsAgree, Fds!Tagged, Fds!Home, Fds!Reaches, Fds!Entries
  <2>6. QED
    BY <2>2, <2>3, <2>4, <2>5
<1>3. ASSUME NEW t \in Openers, Fds!At(t) PROVE Fds!Inv'
  <2>0. /\ UNCHANGED <<open, rlim_max, overflow, close_tag, fd, fdsan_owner, fdsan_error>>
        /\ \/ /\ fdsan_pc[t] = "at" \/ fdsan_pc[t] = "closeAt"
              /\ fdsan_pc' = [fdsan_pc EXCEPT ![t] = IF fdsan_pc[t] = "at" THEN "exchange" ELSE "closing"]
              /\ len' = len
              /\ \E x \in Openers \cup {NoTag, "inline"} :
                   /\ fdsan_table' = [fdsan_table EXCEPT ![t] = x]
                   /\ \/ x = NoTag /\ fd[t] >= rlim_max /\ ~Fds!Reaches(fd[t])
                      \/ x = Fds!Home(fd[t]) /\ Fds!Reaches(fd[t])
           \/ /\ fdsan_pc[t] = "at" \/ fdsan_pc[t] = "closeAt"
              /\ fdsan_pc' = [fdsan_pc EXCEPT ![t] = IF fdsan_pc[t] = "at" THEN "create" ELSE "closeCreate"]
              /\ overflow = NoTag /\ fd[t] >= InlineFds
              /\ fdsan_table' = fdsan_table
              /\ \E n \in Nat : len' = [len EXCEPT ![t] = n] /\ InlineFds + n >= rlim_max
    <3> USE <1>3 DEF Fds!At
    <3>1. fd[t] \in Nat /\ rlim_max \in Nat
      OBVIOUS
    <3>2. CASE fd[t] < InlineFds
      BY <3>2 DEF Fds!Home, Fds!Reaches, Fds!Inline
    <3>3. CASE fd[t] >= InlineFds /\ overflow # NoTag
      <4>1. /\ fdsan_table' = [fdsan_table EXCEPT ![t] = Fds!EntryIn(overflow, fd[t])]
            /\ fdsan_pc[t] \in {"at", "closeAt"}
            /\ fdsan_pc' = [fdsan_pc EXCEPT ![t] = IF fdsan_pc[t] = "at" THEN "exchange" ELSE "closing"]
            /\ len' = len
        BY <3>1, <3>3
      <4>2. \/ /\ Fds!EntryIn(overflow, fd[t]) = NoTag
               /\ fd[t] >= rlim_max /\ ~Fds!Reaches(fd[t])
            \/ /\ Fds!EntryIn(overflow, fd[t]) = Fds!Home(fd[t])
               /\ Fds!EntryIn(overflow, fd[t]) \in Openers /\ Fds!Reaches(fd[t])
        BY <3>1, <3>3 DEF Fds!EntryIn, Fds!Home, Fds!Reaches, Fds!TablesFit
      <4>3. QED
        BY <4>1, <4>2
    <3>4. CASE fd[t] >= InlineFds /\ overflow = NoTag /\ fd[t] > rlim_max
      BY <3>1, <3>4 DEF Fds!Reaches
    <3>5. CASE fd[t] >= InlineFds /\ overflow = NoTag /\ fd[t] <= rlim_max
      <4> DEFINE r == rlim_max - InlineFds + 1
                 b == ((r + PageEntries - 1) \div PageEntries) * PageEntries
      <4>1. r \in Nat
        BY <3>1, <3>5
      <4>2. b \in Nat /\ b >= r
        BY <4>1, PagesSuffice
      <4>3. len' = [len EXCEPT ![t] = b - 1]
        BY <3>1, <3>5 DEF Fds!Header
      <4> HIDE DEF b
      <4>4. b - 1 \in Nat /\ InlineFds + (b - 1) >= rlim_max
        BY <4>1, <4>2, <3>1, <3>5
      <4>5. /\ fdsan_pc[t] \in {"at", "closeAt"} /\ fdsan_table' = fdsan_table
            /\ fdsan_pc' = [fdsan_pc EXCEPT ![t] = IF fdsan_pc[t] = "at" THEN "create" ELSE "closeCreate"]
        BY <3>1, <3>5
      <4>6. QED
        BY <4>3, <4>4, <4>5, <3>5
    <3>6. QED
      BY <3>1, <3>2, <3>3, <3>4, <3>5
  <2>1. Fds!TypeOK' /\ Fds!NoFalseAlarm'
    BY <2>0 DEF Fds!NoFalseAlarm, Fds!Inline, Fds!Entries
  <2>2. Fds!OwnersApart'
    BY <2>0 DEF Fds!OwnersApart
  <2>3. overflow # NoTag => len'[overflow] = len[overflow]
    BY <2>0
  <2>4. Fds!TablesFit'
    BY <2>0, <2>3 DEF Fds!TablesFit, Fds!Home, Fds!Reaches, Fds!Inline
  <2>5. Fds!TagsAgree'
    <3>1. \A f : (Fds!Reaches(f)' <=> Fds!Reaches(f)) /\ Fds!Home(f)' = Fds!Home(f)
      BY <2>0, <2>3 DEF Fds!Reaches, Fds!Home
    <3>2. \A u \in Openers : Fds!Tagged(u)' <=> Fds!Tagged(u)
      BY <2>0 DEF Fds!Tagged
    <3>3. ASSUME NEW u \in Openers, Fds!Reaches(fd[u]),
                 fdsan_pc[u] = "closing" => fdsan_table[u] # NoTag
          PROVE  fdsan_pc'[u] = "closing" => fdsan_table'[u] # NoTag
      <4>1. Fds!Home(fd[u]) # NoTag
        BY <3>3 DEF Fds!Home, Fds!Reaches, Fds!Inline
      <4>2. CASE u = t
        BY <2>0, <3>3, <4>1, <4>2
      <4>3. CASE u # t
        BY <2>0, <3>3, <4>3
      <4>4. QED
        BY <4>2, <4>3
    <3>4. QED
      BY <2>0, <3>1, <3>2, <3>3 DEF Fds!TagsAgree, Fds!Entries
  <2>6. QED
    BY <2>1, <2>2, <2>4, <2>5
<1>4. ASSUME NEW t \in Openers, Fds!Create(t) PROVE Fds!Inv'
  <2>0. /\ fdsan_pc[t] \in {"create", "closeCreate"}
        /\ fdsan_table' = [fdsan_table EXCEPT ![t] = Fds!EntryIn(overflow, fd[t])']
        /\ len' = IF overflow' = t THEN len ELSE [len EXCEPT ![t] = 0]
        /\ UNCHANGED <<open, rlim_max, close_tag, fd, fdsan_owner, fdsan_error>>
        /\ fdsan_pc' = [fdsan_pc EXCEPT ![t] = IF fdsan_pc[t] = "create" THEN "exchange" ELSE "closing"]
        /\ overflow' = IF overflow = NoTag THEN t ELSE overflow
    BY <1>4 DEF Fds!Create, Fds!Publish, Fds!EntryIn
  <2>1. overflow' \in Openers /\ InlineFds + len'[overflow'] >= rlim_max /\ len' \in [Openers -> Nat]
    BY <2>0 DEF Fds!TablesFit
  <2>2. fdsan_table' \in [Openers -> Openers \cup {NoTag, "inline"}]
    BY <2>0, <2>1 DEF Fds!EntryIn, Fds!Inline
  <2>3. Fds!TypeOK' /\ Fds!NoFalseAlarm'
    BY <2>0, <2>1, <2>2 DEF Fds!NoFalseAlarm, Fds!Inline, Fds!Entries
  <2>4. Fds!OwnersApart'
    BY <2>0 DEF Fds!OwnersApart
  <2>5. Fds!TablesFit'
    BY <2>0, <2>1 DEF Fds!TablesFit, Fds!Home, Fds!Reaches, Fds!EntryIn
  <2>6. Fds!TagsAgree'
    <3>1. \A f \in Fds!Fds : Fds!Reaches(f) => Fds!Reaches(f)' /\ Fds!Home(f)' = Fds!Home(f)
      BY <2>0, <2>1 DEF Fds!Reaches, Fds!Home
    <3>2. \A u \in Openers : Fds!Tagged(u)' <=> Fds!Tagged(u)
      BY <2>0 DEF Fds!Tagged
    <3>3. ASSUME NEW u \in Openers, Fds!Reaches(fd[u]),
                 fdsan_pc[u] = "closing" => fdsan_table[u] # NoTag
          PROVE  fdsan_pc'[u] = "closing" => fdsan_table'[u] # NoTag
      BY <2>0, <2>1, <3>3 DEF Fds!Reaches, Fds!EntryIn, Fds!TablesFit
    <3>4. fd' = fd /\ close_tag' = close_tag /\ rlim_max' = rlim_max /\ fd \in [Openers -> Fds!Fds]
      BY <2>0
    <3>5. ASSUME NEW d \in Fds!Entries, close_tag'[d] # NoTag
          PROVE  \E u \in Openers :
                   /\ Fds!Tagged(u)' /\ Fds!Reaches(fd[u])'
                   /\ d = <<Fds!Home(fd[u])', fd'[u]>> /\ close_tag'[d] = u
                   /\ fdsan_pc'[u] = "closing" => fdsan_table'[u] # NoTag
      <4>1. PICK u \in Openers :
              /\ Fds!Tagged(u) /\ Fds!Reaches(fd[u])
              /\ d = <<Fds!Home(fd[u]), fd[u]>> /\ close_tag[d] = u
              /\ fdsan_pc[u] = "closing" => fdsan_table[u] # NoTag
        BY <3>4, <3>5 DEF Fds!TagsAgree
      <4>2. fd[u] \in Fds!Fds
        BY <3>4
      <4>3. QED
        BY <3>1, <3>2, <3>3, <3>4, <4>1, <4>2, Zenon
    <3>6. ASSUME NEW u \in Openers, Fds!Tagged(u)'
          PROVE  \/ fd'[u] >= rlim_max'
                 \/ Fds!Reaches(fd[u])' /\ close_tag'[<<Fds!Home(fd[u])', fd'[u]>>] = u
      <4>1. \/ fd[u] >= rlim_max
            \/ Fds!Reaches(fd[u]) /\ close_tag[<<Fds!Home(fd[u]), fd[u]>>] = u
        BY <3>2, <3>6 DEF Fds!TagsAgree
      <4>2. QED
        BY <3>1, <3>4, <4>1, Zenon
    <3>7. QED
      BY <3>5, <3>6, Zenon DEF Fds!TagsAgree, Fds!Entries
  <2>7. QED
    BY <2>3, <2>4, <2>5, <2>6
<1>5. ASSUME NEW t \in Openers, Fds!ExchangeOwnerTag(t) PROVE Fds!Inv'
  <2>1. Fds!TypeOK'
    BY <1>5 DEF Fds!ExchangeOwnerTag, Fds!ExchangeTag, Fds!Entries
  <2>2. Fds!OwnersApart'
    BY <1>5 DEF Fds!ExchangeOwnerTag, Fds!OwnersApart
  <2>3. Fds!TablesFit'
    BY <1>5 DEF Fds!ExchangeOwnerTag, Fds!TablesFit, Fds!Home, Fds!Reaches
  <2> DEFINE e == <<fdsan_table[t], fd[t]>>
  <2>0. /\ fdsan_pc[t] = "exchange" /\ fdsan_pc' = [fdsan_pc EXCEPT ![t] = "held"]
        /\ UNCHANGED <<open, rlim_max, overflow, len, fd, fdsan_owner, fdsan_table>>
        /\ fdsan_owner[t] = t
    BY <1>5 DEF Fds!ExchangeOwnerTag, Fds!TablesFit
  <2>4. \A u \in Openers \ {t} : fdsan_pc[u] # "idle" => fd[u] # fd[t]
    BY <2>0 DEF Fds!OwnersApart
  <2>5. CASE fdsan_table[t] = NoTag
    <3>1. close_tag' = close_tag /\ fdsan_error' = fdsan_error /\ fd[t] >= rlim_max
      BY <1>5, <2>5 DEF Fds!ExchangeOwnerTag, Fds!ExchangeTag, Fds!TablesFit, Fds!Home,
         Fds!Reaches, Fds!Inline
    <3>2. Fds!TagsAgree' /\ Fds!NoFalseAlarm'
      BY <2>0, <2>5, <3>1 DEF Fds!TagsAgree, Fds!NoFalseAlarm, Fds!Tagged, Fds!Home, Fds!Reaches,
         Fds!Entries
    <3>3. QED
      BY <2>1, <2>2, <2>3, <3>2
  <2>6. CASE fdsan_table[t] # NoTag
    <3>1. e \in Fds!Entries /\ fdsan_table[t] = Fds!Home(fd[t]) /\ Fds!Reaches(fd[t])
      BY <2>0, <2>6 DEF Fds!TablesFit, Fds!Entries
    <3>2. close_tag[e] = NoTag
      BY <2>0, <2>4, <3>1 DEF Fds!TagsAgree, Fds!Tagged
    <3>3. close_tag' = [close_tag EXCEPT ![e] = t] /\ fdsan_error' = fdsan_error
      BY <1>5, <2>0, <2>6, <3>2 DEF Fds!ExchangeOwnerTag, Fds!ExchangeTag
    <3>4. \A d \in Fds!Entries : close_tag'[d] = IF d = e THEN t ELSE close_tag[d]
      BY <3>1, <3>3
    <3>5. Fds!TagsAgree' /\ Fds!NoFalseAlarm'
      BY <2>0, <2>4, <3>1, <3>3, <3>4
         DEF Fds!TagsAgree, Fds!NoFalseAlarm, Fds!Tagged, Fds!Home, Fds!Reaches, Fds!Entries
    <3>6. QED
      BY <2>1, <2>2, <2>3, <3>5
  <2>7. QED
    BY <2>5, <2>6
<1>6. ASSUME NEW t \in Openers, Fds!Vfork(t) \/ Fds!VforkedClose(t) \/ Fds!VforkReturns(t) \/ Fds!CloseWithTag(t)
      PROVE  Fds!Inv'
  <2>1. PICK l \in {"held", "child", "gone", "closeAt"} :
          /\ fdsan_pc[t] \in {"held", "child", "gone"}
          /\ fdsan_pc' = [fdsan_pc EXCEPT ![t] = l]
          /\ UNCHANGED <<open, rlim_max, overflow, len, close_tag, fd, fdsan_owner,
                         fdsan_table, fdsan_error>>
    BY <1>6 DEF Fds!Vfork, Fds!VforkedClose, Fds!VforkReturns, Fds!CloseWithTag
  <2> HIDE DEF Fds!Inv
  <2>2. QED
    BY <2>1, FdsMoves, Zenon
<1>7. ASSUME NEW t \in Openers, Fds!ClearTag(t) PROVE Fds!Inv'
  <2> DEFINE e == <<fdsan_table[t], fd[t]>>
  <2>0. /\ fdsan_pc[t] = "closing" /\ fdsan_pc' = [fdsan_pc EXCEPT ![t] = "close"]
        /\ UNCHANGED <<open, rlim_max, overflow, len, fd, fdsan_owner, fdsan_table>>
    BY <1>7 DEF Fds!ClearTag
  <2>1. Fds!TypeOK'
    <3>1. close_tag' \in [Fds!Entries -> Openers \cup {NoTag}] /\ fdsan_error' \subseteq Fds!Fds
      <4>1. close_tag' \in {close_tag, [close_tag EXCEPT ![e] = NoTag]}
        BY <1>7, Zenon DEF Fds!ClearTag, Fds!ExchangeTag
      <4>2. fdsan_error' \in {fdsan_error, fdsan_error \cup {fd[t]}}
        BY <1>7, Zenon DEF Fds!ClearTag, Fds!ExchangeTag
      <4>3. QED
        BY <4>1, <4>2
    <3>2. QED
      BY <2>0, <3>1, Zenon DEF Fds!Entries
  <2>2. Fds!OwnersApart'
    BY <2>0 DEF Fds!OwnersApart
  <2>3. Fds!TablesFit'
    BY <2>0 DEF Fds!TablesFit, Fds!Home, Fds!Reaches
  <2>4. \A u \in Openers \ {t} : fdsan_pc[u] # "idle" => fd[u] # fd[t]
    BY <2>0 DEF Fds!OwnersApart
  <2>5. CASE fdsan_table[t] = NoTag
    <3>1. close_tag' = close_tag /\ fdsan_error' = fdsan_error
      BY <1>7, <2>5 DEF Fds!ClearTag, Fds!ExchangeTag
    <3>2. Fds!TagsAgree' /\ Fds!NoFalseAlarm'
      BY <2>0, <2>5, <3>1 DEF Fds!TagsAgree, Fds!NoFalseAlarm, Fds!Tagged, Fds!Home, Fds!Reaches,
         Fds!Entries
    <3>3. QED
      BY <2>1, <2>2, <2>3, <3>2
  <2>6. CASE fdsan_table[t] # NoTag
    <3>1. e \in Fds!Entries /\ fdsan_table[t] = Fds!Home(fd[t]) /\ Fds!Reaches(fd[t])
      BY <2>0, <2>6 DEF Fds!TablesFit, Fds!Entries
    <3>2. CASE close_tag[e] = fdsan_owner[t]
      <4>1. close_tag' = [close_tag EXCEPT ![e] = NoTag] /\ fdsan_error' = fdsan_error
        BY <1>7, <2>6, <3>2 DEF Fds!ClearTag, Fds!ExchangeTag
      <4>2. \A d \in Fds!Entries : close_tag'[d] = IF d = e THEN NoTag ELSE close_tag[d]
        BY <3>1, <4>1
      <4>3. Fds!TagsAgree' /\ Fds!NoFalseAlarm'
        BY <2>0, <2>4, <3>1, <4>1, <4>2
           DEF Fds!TagsAgree, Fds!NoFalseAlarm, Fds!Tagged, Fds!Home, Fds!Reaches, Fds!Entries
      <4>4. QED
        BY <2>1, <2>2, <2>3, <4>3
    <3>3. CASE close_tag[e] # fdsan_owner[t]
      <4>1. close_tag' = close_tag /\ fdsan_error' = fdsan_error \cup {fd[t]}
        BY <1>7, <2>6, <3>3 DEF Fds!ClearTag, Fds!ExchangeTag
      <4>2. fd[t] >= rlim_max
        BY <2>0, <3>1, <3>3, <2>4 DEF Fds!TagsAgree, Fds!Tagged, Fds!OwnersApart
      <4>3. fdsan_owner[t] # t \/ close_tag[e] # t
        BY <3>3
      <4>4. Fds!TagsAgree' /\ Fds!NoFalseAlarm'
        BY <2>0, <2>4, <3>1, <4>1, <4>2, <4>3
           DEF Fds!TagsAgree, Fds!NoFalseAlarm, Fds!Tagged, Fds!Home, Fds!Reaches, Fds!Entries
      <4>5. QED
        BY <2>1, <2>2, <2>3, <4>4
    <3>4. QED
      BY <3>2, <3>3
  <2>7. QED
    BY <2>5, <2>6
<1>8. ASSUME NEW t \in Openers, Fds!Close(t) PROVE Fds!Inv'
  <2>1. /\ fdsan_pc[t] = "close" /\ open' = open \ {fd[t]}
        /\ fdsan_pc' = [fdsan_pc EXCEPT ![t] = "idle"]
        /\ fd' = [fd EXCEPT ![t] = 0] /\ fdsan_owner' = [fdsan_owner EXCEPT ![t] = NoTag]
        /\ fdsan_table' = [fdsan_table EXCEPT ![t] = NoTag]
        /\ UNCHANGED <<rlim_max, overflow, len, close_tag>>
    BY <1>8 DEF Fds!Close
  <2>2. fdsan_error' = fdsan_error
    BY <1>8 DEF Fds!Close, Fds!OwnersApart
  <2>3. Fds!TypeOK' /\ Fds!NoFalseAlarm'
    <3>1. 0 \in 0 .. MaxFds - 1
      OBVIOUS
    <3>2. QED
      BY <2>1, <2>2, <3>1, Zenon DEF Fds!Entries, Fds!NoFalseAlarm
  <2>4. Fds!OwnersApart'
    BY <2>1 DEF Fds!OwnersApart
  <2>5. Fds!TablesFit'
    BY <2>1 DEF Fds!TablesFit, Fds!Home, Fds!Reaches
  <2>6. Fds!TagsAgree'
    BY <2>1 DEF Fds!TagsAgree, Fds!Tagged, Fds!Home, Fds!Reaches, Fds!Entries
  <2>7. QED
    BY <2>3, <2>4, <2>5, <2>6
<1>9. CASE UNCHANGED Fds!vars
  BY <1>9 DEF Fds!vars, Fds!OwnersApart, Fds!TablesFit, Fds!TagsAgree, Fds!Tagged,
     Fds!Home, Fds!Reaches, Fds!NoFalseAlarm, Fds!Entries
<1>10. QED
  BY <1>1, <1>2, <1>3, <1>4, <1>5, <1>6, <1>7, <1>8, <1>9 DEF Fds!Next

(***************************************************************************)
(* fdsan reports no descriptor below the limit, for any number of threads  *)
(* and descriptors, any page size and any time at which a limit is lowered.*)
(***************************************************************************)
THEOREM NeverFalseAlarm == Fds!Spec => []NoFalseAlarm
<1>1. Fds!Init => Fds!Inv
  <2> USE Zenon
  <2> SUFFICES ASSUME Fds!Init PROVE Fds!Inv
    OBVIOUS
  <2> USE DEF Fds!Init
  <2>1. MaxFds \in Nat \ {0}
    BY FdsanAssumption
  <2>2. 0 \in Fds!Fds /\ 0 \in Nat
    BY <2>1, SMT DEF Fds!Fds
  <2>3. Fds!TypeOK
    BY <2>2 DEF Fds!TypeOK
  <2>4. Fds!OwnersApart /\ Fds!TablesFit
    BY DEF Fds!OwnersApart, Fds!TablesFit
  <2>5. Fds!TagsAgree
    BY DEF Fds!TagsAgree, Fds!Tagged
  <2>6. QED
    BY <2>3, <2>4, <2>5 DEF Fds!Inv, Fds!NoFalseAlarm
<1>2. Fds!Inv /\ [Fds!Next]_(Fds!vars) => Fds!Inv'
  BY FdsNextInv, Zenon
<1>3. Fds!Inv => NoFalseAlarm
  BY Zenon DEF Fds!Inv, NoFalseAlarm
<1>4. QED
  BY <1>1, <1>2, <1>3, PTL DEF Fds!Spec
=============================================================================
