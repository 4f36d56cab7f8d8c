-------------------------- MODULE ProcessHandlers --------------------------
(***************************************************************************)
(* The functions a process calls when it exits, when it unloads a library  *)
(* and when it forks: __cxa_atexit, __cxa_finalize and exit in             *)
(* libc/bionic/atexit.cpp and exit.cpp, pthread_atfork and fork in         *)
(* libc/bionic/pthread_atfork.cpp and fork.cpp.                            *)
(*                                                                         *)
(* The atexit lock is never held during a callback, so the code between    *)
(* two callbacks is one step.  The mutex of the atfork list is recursive   *)
(* and is held from the first prepare handler to the last parent handler.  *)
(* Functions are numbered in the order of their registration.  A callback  *)
(* may register functions, unload a library or fork; a fork handler may    *)
(* register functions.  An allocation that fails has no effect.            *)
(***************************************************************************)
EXTENDS Integers, FiniteSets, SequencesExt

CONSTANTS
  Threads,
  NoThread,
  Libraries,        \* Libraries the process may unload.
  Exe,              \* The program; nullptr for __cxa_finalize.
  PageSize,         \* In units that
  EntrySize,        \* sizeof(AtexitEntry) has so many of.
  MaxAtexit,        \* Bound on the calls of __cxa_atexit,
  MaxAtfork,        \* of pthread_atfork,
  MaxForks          \* and of forks into a child that is followed.

Dsos == Libraries \cup {Exe}
NoEntry == 0

VARIABLES
  array,            \* array_[0 .. size_): the number of the function, or NoEntry
  capacity,         \* capacity_
  dso,              \* The library of each function; total_appends_ is its length.
  call_depth,
  frames,           \* The calls of __cxa_finalize a thread is in.
  exiting,          \* The owner of g_exit_mutex.
  unloaded,         \* The libraries whose __cxa_finalize has returned.
  list,             \* g_atfork_list: the numbers of its handlers,
  forkDso,          \* and the library of each handler so far.
  owner,            \* The owner of g_atfork_list_mutex,
  walk,             \* and its walk over the list:
  prepared,         \* the prepare handlers it has called
  finished,         \* and the parent or child handlers.
  alive,            \* The threads of this process,
  process           \* which is the child of that many forks; -1 when it has ended.

atexitVars == <<array, capacity, dso, call_depth, frames, exiting, unloaded>>
atforkVars == <<list, forkDso, owner, walk, prepared, finished>>
vars == <<atexitVars, atforkVars, alive, process>>

total_appends == Len(dso)
NoWalk == [by |-> NoThread, phase |-> "none", at |-> 0]

(***************************************************************************)
(* A kernel thread id belongs to a thread of one process.                  *)
(***************************************************************************)
Tid(t) == <<process, t>>

Init ==
  /\ array = <<>> /\ capacity = 0 /\ dso = <<>> /\ call_depth = 0
  /\ frames = [t \in Threads |-> <<>>]
  /\ exiting = NoThread
  /\ unloaded = {}
  /\ list = <<>> /\ forkDso = <<>>
  /\ owner = NoThread /\ walk = NoWalk
  /\ prepared = <<>> /\ finished = <<>>
  /\ alive = Threads /\ process = 0

(***************************************************************************)
(* A thread is in the program's code unless __cxa_finalize is about to     *)
(* clean up after the last callback.                                       *)
(***************************************************************************)
InProgram(t) ==
  /\ process >= 0
  /\ t \in alive
  /\ frames[t] # <<>> => Last(frames[t]).entry # NoEntry

(***************************************************************************)
(* Code of library d registers functions for it until it is unloaded, and  *)
(* meanwhile only from the callbacks of that very unload.                  *)
(***************************************************************************)
Unloading(u, d) == \E n \in DOMAIN frames[u] : frames[u][n].dso = d

MayRegister(t, d) ==
  /\ InProgram(t)
  /\ d \notin unloaded
  /\ d # Exe => \A u \in Threads \ {t} : ~ Unloading(u, d)

-----------------------------------------------------------------------------
PageEnd(idx) == ((idx * EntrySize + PageSize - 1) \div PageSize) * PageSize

next_capacity ==
  IF capacity = 0 THEN PageEnd(1) \div EntrySize
  ELSE (PageEnd(capacity) * 2) \div EntrySize

(***************************************************************************)
(* __cxa_atexit.  The array grows when it is full.                         *)
(***************************************************************************)
CxaAtexit(t, d) ==
  /\ MayRegister(t, d)
  /\ total_appends < MaxAtexit
  /\ capacity' = IF Len(array) >= capacity THEN next_capacity ELSE capacity
  /\ array' = Append(array, total_appends + 1)
  /\ dso' = Append(dso, d)
  /\ UNCHANGED <<call_depth, frames, exiting, unloaded, atforkVars, alive, process>>

(***************************************************************************)
(* The array without its empty entries, when that saves a page.            *)
(***************************************************************************)
needs_recompaction ==
  LET extracted_count == Cardinality({n \in DOMAIN array : array[n] = NoEntry})
  IN PageEnd(Len(array) - extracted_count) < PageEnd(Len(array))

Recompacted ==
  IF needs_recompaction THEN SelectSeq(array, LAMBDA e : e # NoEntry) ELSE array

(***************************************************************************)
(* A pass of __cxa_finalize for d, called at the given depth and with the  *)
(* thread's other calls below it, looks at the entries from index from     *)
(* down.  It takes out the first one of d and calls it.  When there is     *)
(* none it leaves, and the outermost call compacts the array.              *)
(***************************************************************************)
PassInOrder(t, d, below, from, depth, appends) ==
  LET found == {n \in 1 .. from : array[n] # NoEntry /\ d \in {Exe, dso[array[n]]}}
      i == Min(found)
  IN IF found # {}
     THEN /\ array' = [array EXCEPT ![i] = NoEntry]
          /\ call_depth' = depth
          /\ frames' = [frames EXCEPT ![t] = Append(below,
                         [dso |-> d, entry |-> array[i], i |-> from, appends |-> appends])]
     ELSE /\ array' = IF depth = 1 /\ d # Exe THEN Recompacted ELSE array
          /\ call_depth' = depth - 1
          /\ frames' = [frames EXCEPT ![t] = Append(below,
                         [dso |-> d, entry |-> NoEntry, i |-> 0, appends |-> 0])]
  \* A faulty variant that takes the entries in the order of registration.

Pass(t, d, below, from, depth, appends) ==
  LET found == {n \in 1 .. from : array[n] # NoEntry /\ d \in {Exe, dso[array[n]]}}
      i == Max(found)
  IN IF found # {}
     THEN /\ array' = [array EXCEPT ![i] = NoEntry]
          /\ call_depth' = depth
          /\ frames' = [frames EXCEPT ![t] = Append(below,
                         [dso |-> d, entry |-> array[i], i |-> i - 1, appends |-> appends])]
     ELSE /\ array' = IF depth = 1 /\ d # Exe THEN Recompacted ELSE array
          /\ call_depth' = depth - 1
          /\ frames' = [frames EXCEPT ![t] = Append(below,
                         [dso |-> d, entry |-> NoEntry, i |-> 0, appends |-> 0])]

(***************************************************************************)
(* __cxa_finalize of a library that is being unloaded, and of the program  *)
(* in exit, which keeps the exit of every other thread waiting for good.   *)
(***************************************************************************)
CxaFinalize(t, d) ==
  /\ MayRegister(t, d)
  /\ d \in Libraries
  /\ \A u \in Threads : ~ Unloading(u, d)
  /\ walk.by # t
  /\ Pass(t, d, frames[t], Len(array), call_depth + 1, total_appends)
  /\ UNCHANGED <<capacity, dso, exiting, unloaded, atforkVars, alive, process>>

Exit(t) ==
  /\ InProgram(t)
  /\ walk.by # t
  /\ exiting \in {NoThread, t}
  /\ exiting' = t
  /\ Pass(t, Exe, frames[t], Len(array), call_depth + 1, total_appends)
  /\ UNCHANGED <<capacity, dso, unloaded, atforkVars, alive, process>>

(***************************************************************************)
(* The callback returns.  The pass goes on below the entry, or from the    *)
(* end of the array when entries have been appended.                       *)
(***************************************************************************)
CallbackReturnsNoRestart(t) ==
  /\ InProgram(t)
  /\ walk.by # t
  /\ frames[t] # <<>>
  /\ LET f == Last(frames[t])
     IN Pass(t, f.dso, Front(frames[t]), f.i, call_depth, total_appends)
  /\ UNCHANGED <<capacity, dso, exiting, unloaded, atforkVars, alive, process>>
  \* A faulty variant that always goes on below the entry.

CallbackReturns(t) ==
  /\ InProgram(t)
  /\ walk.by # t
  /\ frames[t] # <<>>
  /\ LET f == Last(frames[t])
     IN Pass(t, f.dso, Front(frames[t]),
             IF f.appends # total_appends THEN Len(array) ELSE f.i, call_depth, total_appends)
  /\ UNCHANGED <<capacity, dso, exiting, unloaded, atforkVars, alive, process>>

(***************************************************************************)
(* The end of __cxa_finalize: __unregister_atfork, which needs the atfork  *)
(* mutex, or after exit the end of the process.                            *)
(***************************************************************************)
Finalizes(t, d) ==
  /\ process >= 0
  /\ t \in alive
  /\ frames[t] # <<>>
  /\ Last(frames[t]).entry = NoEntry
  /\ Last(frames[t]).dso = d

UnregisterAtfork(t, d) ==
  /\ Finalizes(t, d)
  /\ d # Exe
  /\ owner = NoThread
  /\ list' = SelectSeq(list, LAMBDA h : forkDso[h] # d)
  /\ frames' = [frames EXCEPT ![t] = Front(@)]
  /\ unloaded' = unloaded \cup {d}
  /\ UNCHANGED <<array, capacity, dso, call_depth, exiting,
                 forkDso, owner, walk, prepared, finished, alive, process>>

ProcessEnds(t) ==
  /\ Finalizes(t, Exe)
  /\ process' = -1
  /\ UNCHANGED <<atexitVars, atforkVars, alive>>

-----------------------------------------------------------------------------
(***************************************************************************)
(* pthread_atfork, also from a fork handler.                               *)
(***************************************************************************)
RegisterAtfork(t, d) ==
  /\ MayRegister(t, d)
  /\ owner \in {NoThread, Tid(t)}
  /\ Len(forkDso) < MaxAtfork
  /\ forkDso' = Append(forkDso, d)
  /\ list' = Append(list, Len(forkDso) + 1)
  /\ UNCHANGED <<atexitVars, owner, walk, prepared, finished, alive, process>>

(***************************************************************************)
(* fork: __bionic_atfork_run_prepare takes the mutex and walks the list    *)
(* backwards, one handler a step.                                          *)
(***************************************************************************)
Fork(t) ==
  /\ InProgram(t)
  /\ owner = NoThread
  /\ owner' = Tid(t)
  /\ walk' = [by |-> t, phase |-> "prepare", at |-> Len(list)]
  /\ UNCHANGED <<atexitVars, list, forkDso, prepared, finished, alive, process>>

RunPrepare(t) ==
  /\ walk.by = t /\ walk.phase = "prepare" /\ walk.at > 0 /\ process >= 0
  /\ prepared' = Append(prepared, list[walk.at])
  /\ walk' = [walk EXCEPT !.at = @ - 1]
  /\ UNCHANGED <<atexitVars, list, forkDso, owner, finished, alive, process>>

(***************************************************************************)
(* clone has returned.  The parent still has the mutex.  In the child the  *)
(* thread is the only one, has a new id, and makes the mutex anew.         *)
(***************************************************************************)
CloneInParent(t) ==
  /\ walk.by = t /\ walk.phase = "prepare" /\ walk.at = 0 /\ process >= 0
  /\ walk' = [walk EXCEPT !.phase = "after", !.at = 1]
  /\ UNCHANGED <<atexitVars, list, forkDso, owner, prepared, finished, alive, process>>

CloneInChildKeepsMutex(t) ==
  /\ walk.by = t /\ walk.phase = "prepare" /\ walk.at = 0
  /\ process \in 0 .. MaxForks - 1
  /\ process' = process + 1
  /\ alive' = {t}
  /\ walk' = [walk EXCEPT !.phase = "after", !.at = 1]
  /\ UNCHANGED <<atexitVars, list, forkDso, owner, prepared, finished>>
  \* A faulty variant that goes on with the mutex of the parent.

CloneInChild(t) ==
  /\ walk.by = t /\ walk.phase = "prepare" /\ walk.at = 0
  /\ process \in 0 .. MaxForks - 1
  /\ process' = process + 1
  /\ alive' = {t}
  /\ owner' = <<process + 1, t>>
  /\ walk' = [walk EXCEPT !.phase = "after", !.at = 1]
  /\ UNCHANGED <<atexitVars, list, forkDso, prepared, finished>>

RunParentOrChild(t) ==
  /\ walk.by = t /\ walk.phase = "after" /\ walk.at <= Len(list) /\ process >= 0
  /\ finished' = Append(finished, list[walk.at])
  /\ walk' = [walk EXCEPT !.at = @ + 1]
  /\ UNCHANGED <<atexitVars, list, forkDso, owner, prepared, alive, process>>

(***************************************************************************)
(* The mutex can only be unlocked by the thread that has it.               *)
(***************************************************************************)
ForkReturns(t) ==
  /\ walk.by = t /\ walk.phase = "after" /\ walk.at > Len(list) /\ process >= 0
  /\ walk' = NoWalk
  /\ owner' = IF owner = Tid(t) THEN NoThread ELSE owner
  /\ prepared' = <<>> /\ finished' = <<>>
  /\ UNCHANGED <<atexitVars, list, forkDso, alive, process>>

Next ==
  \E t \in Threads :
    \/ \E d \in Dsos : CxaAtexit(t, d) \/ RegisterAtfork(t, d)
    \/ \E d \in Libraries : CxaFinalize(t, d) \/ UnregisterAtfork(t, d)
    \/ Exit(t) \/ CallbackReturns(t) \/ ProcessEnds(t)
    \/ Fork(t) \/ RunPrepare(t) \/ CloneInParent(t) \/ CloneInChild(t)
    \/ RunParentOrChild(t) \/ ForkReturns(t)

Spec == Init /\ [][Next]_vars

-----------------------------------------------------------------------------
(***************************************************************************)
(* Functions run in the reverse order of their registration: whenever      *)
(* __cxa_finalize calls one, every later one for the same library has been *)
(* called, however many passes there are and whatever the callbacks        *)
(* register meanwhile.  And it is called once.                             *)
(***************************************************************************)
CalledInReverse ==
  [][\A t \in Threads :
       LET f == Last(frames'[t])
       IN frames'[t] # <<>> /\ frames'[t] # frames[t] /\ f.entry # NoEntry
          /\ Len(frames'[t]) >= Len(frames[t]) =>
            \A n \in DOMAIN array' :
              array'[n] # NoEntry /\ f.dso \in {Exe, dso'[array'[n]]} => array'[n] < f.entry]_vars

(***************************************************************************)
(* An unloaded library leaves nothing behind: no function of its own is    *)
(* still to be called at exit or at a fork, and the array keeps its order  *)
(* and fits the memory it has.  Compaction moves entries other passes may  *)
(* have counted on, and each capacity is computed in bytes.                *)
(***************************************************************************)
NothingOfUnloaded ==
  /\ \A n \in DOMAIN array :
       array[n] # NoEntry =>
         /\ dso[array[n]] \notin unloaded
         /\ \A m \in 1 .. n - 1 : array[m] < array[n]
  /\ \A n \in DOMAIN list : forkDso[list[n]] \notin unloaded
  /\ Len(array) <= capacity

(***************************************************************************)
(* Every prepare handler is followed by its parent or child handler, in    *)
(* the opposite order; handlers that the handlers registered come after    *)
(* them.  And a fork leaves the mutex to the threads that are alive, in    *)
(* the parent and in the child.                                            *)
(***************************************************************************)
ForkIsPaired ==
  /\ walk.phase = "after" =>
       \/ IsPrefix(finished, Reverse(prepared))
       \/ IsPrefix(Reverse(prepared), finished)
  /\ walk.phase = "after" /\ walk.at > Len(list) => IsPrefix(Reverse(prepared), finished)
  /\ owner # NoThread => walk.by # NoThread

=============================================================================
