------------------------------- MODULE Linker -------------------------------
(***************************************************************************)
(* Loading and unloading libraries: dlopen and dlclose in                  *)
(* linker/linker.cpp, and the references that pending thread-local         *)
(* destructors hold on their library.                                      *)
(*                                                                         *)
(* Every operation runs under g_dl_mutex, so at most one is under way.  It *)
(* takes one step for each load task, each local group and each call of    *)
(* soinfo_unload, and may fail where the code can fail: the file is not    *)
(* found or not readable, an image cannot be mapped or prelinked, a symbol *)
(* is missing.  A library file belongs to one of two namespaces that are   *)
(* linked both ways.  Constructors and destructors do not call the linker. *)
(***************************************************************************)
EXTENDS Integers, FiniteSets, SequencesExt

CONSTANTS
  Libs,             \* A set of numbers, for the sake of an order.
  Threads,
  NoLib,            \* nullptr
  Loops,            \* May libraries need each other in a loop?  If not, they
                    \* are numbered in an order of their dependencies.
  MaxHandles,       \* Bound on the open handles,
  MaxDtors          \* and on the pending destructors of a thread.

ASSUME LinkerAssumption ==
  /\ NoLib \notin Libs
  /\ IsFiniteSet(Libs) /\ Libs \subseteq Nat
  /\ Loops \in BOOLEAN
  /\ MaxHandles \in Nat
  /\ MaxDtors \in Nat

VARIABLES
  needed,           \* The DT_NEEDED entries of the library files,
  home,             \* and the namespace in whose paths each file is.
  loaded,           \* The libraries on the solist: a soinfo is allocated,
  linked,           \* FLAG_LINKED is set,
  pinned,           \* RTLD_NODELETE or RTLD_GLOBAL is in its rtld_flags_,
  initialized,      \* constructors_called is set.
  children,         \* children_; parents_ is its inverse
  root,             \* local_group_root_
  ref_count,        \* ref_count_, of a root
  dso_counters,     \* g_dso_handle_counters
  handles,          \* Open handles the program has,
  dtors,            \* thread_local_dtors of each thread,
  running,          \* the destructor a thread is running.
  op                \* The operation under way.

files == <<needed, home>>
soinfos == <<loaded, linked, pinned, initialized, children, root, ref_count>>
clients == <<dso_counters, handles, dtors, running>>
vars == <<files, soinfos, clients, op>>

Idle == [at |-> "idle"]

(***************************************************************************)
(* The smallest set that contains l and, with a member, what f gives for   *)
(* it.                                                                     *)
(***************************************************************************)
Closure(f, l) ==
  LET c[n \in 0 .. Cardinality(Libs)] ==
        IF n = 0 THEN {l} ELSE c[n - 1] \cup UNION {f[k] : k \in c[n - 1]}
  IN c[Cardinality(Libs)]

Acyclic(f) == \A l \in Libs : \A k \in f[l] : l \notin Closure(f, k)

Parents(l) == {p \in loaded : l \in children[p]}

(***************************************************************************)
(* A library is in use while its code may run: the program has a handle    *)
(* for it or for a library that needs it, or a destructor of such a        *)
(* library is pending or running.                                          *)
(***************************************************************************)
Holders ==
  {l \in Libs : \/ handles[l] > 0
                \/ \E t \in Threads : l \in ToSet(dtors[t]) \/ running[t] = l}

InUse == UNION {Closure(needed, l) : l \in Holders}

TypeOK ==
  /\ needed \in [Libs -> SUBSET Libs]
  /\ home \in [Libs -> {"default", "other"}]
  /\ linked \subseteq loaded /\ loaded \subseteq Libs
  /\ pinned \subseteq loaded /\ initialized \subseteq linked
  /\ children \in [Libs -> SUBSET Libs]
  /\ root \in [Libs -> Libs \cup {NoLib}]
  /\ ref_count \in [Libs -> Nat]
  /\ dso_counters \in [Libs -> Nat]
  /\ handles \in [Libs -> Nat]
  /\ \A t \in Threads : ToSet(dtors[t]) \subseteq Libs
  /\ running \in [Threads -> Libs \cup {NoLib}]
  /\ op.at \in {"idle", "expand", "load", "link", "commit", "unload"}

Init ==
  /\ needed \in [Libs -> SUBSET Libs]
  /\ Loops \/ \A l \in Libs : \A k \in needed[l] : k < l
  /\ home \in [Libs -> {"default", "other"}]
  /\ loaded = {} /\ linked = {} /\ pinned = {} /\ initialized = {}
  /\ children = [l \in Libs |-> {}]
  /\ root = [l \in Libs |-> NoLib]
  /\ ref_count = [l \in Libs |-> 0]
  /\ dso_counters = [l \in Libs |-> 0]
  /\ handles = [l \in Libs |-> 0]
  /\ dtors = [t \in Threads |-> <<>>]
  /\ running = [t \in Threads |-> NoLib]
  /\ op = Idle

-----------------------------------------------------------------------------
(***************************************************************************)
(* soinfo_unload of the libraries in list, one after the other.            *)
(***************************************************************************)
UnloadList(list) ==
  op' = IF list = <<>> THEN Idle ELSE [at |-> "unload", list |-> list]

(***************************************************************************)
(* The libraries soinfo_unload_impl frees with the root r: from r on, the  *)
(* children that are not linked or linked into r's group, and whose        *)
(* parents it all frees.                                                   *)
(***************************************************************************)
LocalUnloadList(r) ==
  LET u[n \in 0 .. Cardinality(Libs)] ==
        IF n = 0 THEN {r} ELSE u[n - 1] \cup
          {c \in UNION {children[p] : p \in u[n - 1]} :
             /\ c \in linked => root[c] = r
             /\ Parents(c) \subseteq u[n - 1]}
  IN u[Cardinality(Libs)]

(***************************************************************************)
(* The references into other groups that die with the libraries in list,   *)
(* one entry for each.                                                     *)
(***************************************************************************)
ExternalUnloadListOnce(r, list) ==
  SetToSeq({c \in UNION {children[p] : p \in list} \ list : c \in linked /\ root[c] # r})
  \* A faulty variant that lists a library once, however often it is referenced.

ExternalUnloadList(r, list) ==
  LET edges == {e \in list \X (linked \ list) : e[2] \in children[e[1]] /\ root[e[2]] # r}
  IN [n \in 1 .. Cardinality(edges) |-> SetToSeq(edges)[n][2]]

(***************************************************************************)
(* One call of soinfo_unload: the reference goes, and with the last one    *)
(* the group, unless its root is flagged to stay.  A library that is not   *)
(* linked belongs to a dlopen that failed and has no references yet.       *)
(***************************************************************************)
SoinfoUnload ==
  /\ op.at = "unload"
  /\ LET si == Head(op.list)
         isLinked == si \in linked
         r == IF isLinked THEN root[si] ELSE si
         left == IF isLinked THEN [ref_count EXCEPT ![r] = @ - 1] ELSE ref_count
         list == LocalUnloadList(r)
         external == IF isLinked THEN ExternalUnloadList(r, list) ELSE <<>>
     IN IF isLinked /\ (left[r] # 0 \/ r \in pinned)
        THEN /\ ref_count' = left
             /\ UnloadList(Tail(op.list))
             /\ UNCHANGED <<loaded, linked, pinned, initialized, children, root>>
        ELSE /\ loaded' = loaded \ list
             /\ linked' = linked \ list
             /\ pinned' = pinned \ list
             /\ initialized' = initialized \ list
             /\ children' = [l \in Libs |-> IF l \in list THEN {} ELSE children[l] \ list]
             /\ root' = [l \in Libs |-> IF l \in list THEN NoLib ELSE root[l]]
             /\ ref_count' = [l \in Libs |-> IF l \in list THEN 0 ELSE left[l]]
             /\ UnloadList(external \o Tail(op.list))
  /\ UNCHANGED <<files, clients>>

-----------------------------------------------------------------------------
(***************************************************************************)
(* dlopen by the program, which is in the default namespace: find_libraries*)
(* starts with one load task.  A task is a library and the library that    *)
(* needs it.                                                               *)
(***************************************************************************)
Task(l, by) == [lib |-> l, needed_by |-> by]

DlOpen(l, keep) ==
  /\ op = Idle
  /\ FoldFunction(+, 0, handles) < MaxHandles
  /\ op' = [at |-> "expand", lib |-> l, keep |-> keep, tasks |-> <<Task(l, NoLib)>>, next |-> 1]
  /\ UNCHANGED <<files, soinfos, clients>>

(***************************************************************************)
(* Step 1 takes the tasks in turn.  The library of a task becomes a child  *)
(* of the one that needs it; op goes on to the next task.                  *)
(***************************************************************************)
NextTask(tasks) ==
  LET task == tasks[op.next]
  IN /\ op.at = "expand"
     /\ children' = IF task.needed_by = NoLib THEN children
                    ELSE [children EXCEPT ![task.needed_by] = @ \cup {task.lib}]
     /\ op' = IF op.next = Len(tasks) THEN [at |-> "load", lib |-> op.lib, tasks |-> tasks]
              ELSE [op EXCEPT !.tasks = tasks, !.next = @ + 1]
     /\ UNCHANGED <<files, linked, initialized, root, ref_count, clients>>

(***************************************************************************)
(* The library is known in the namespace or in the linked one.             *)
(***************************************************************************)
FindLoadedLibrary ==
  /\ op.at = "expand" /\ op.tasks[op.next].lib \in loaded
  /\ NextTask(op.tasks)
  /\ UNCHANGED <<loaded, pinned>>

(***************************************************************************)
(* The file is found in the paths of the namespace or of the linked one:   *)
(* allocate a soinfo there and add tasks for what the library needs.       *)
(***************************************************************************)
LoadLibrary ==
  /\ op.at = "expand" /\ op.tasks[op.next].lib \notin loaded
  /\ LET l == op.tasks[op.next].lib
         more == [n \in 1 .. Cardinality(needed[l]) |-> Task(SetToSeq(needed[l])[n], l)]
     IN /\ NextTask(op.tasks \o more)
        /\ loaded' = loaded \cup {l}
        /\ pinned' = IF op.keep THEN pinned \cup {l} ELSE pinned

(***************************************************************************)
(* A failed find_libraries: find_library unloads the library it was asked  *)
(* for, if there is one by now.                                            *)
(***************************************************************************)
FailForgets ==
  /\ op' = Idle
  /\ UNCHANGED <<files, soinfos, clients>>
  \* A faulty variant that leaves behind what has been loaded.

Fail ==
  /\ UnloadList(IF op.at = "expand" /\ op.next = 1 THEN <<>> ELSE <<op.lib>>)
  /\ UNCHANGED <<files, soinfos, clients>>

LoadLibraryFails ==
  /\ op.at = "expand" /\ op.tasks[op.next].lib \notin loaded
  /\ Fail

(***************************************************************************)
(* Steps 2 to 5: map and prelink what is new, in any order, and collect    *)
(* the roots of the local groups: the library asked for, and each new one  *)
(* that is needed from another namespace.                                  *)
(***************************************************************************)
NamespaceOf(l) == IF l = NoLib THEN "default" ELSE home[l]

LocalGroupRoots ==
  LET AddRoot(roots, task) ==
        IF /\ task.lib \notin linked
           /\ home[task.lib] # NamespaceOf(task.needed_by)
           /\ ~ Contains(roots, task.lib)
        THEN Append(roots, task.lib) ELSE roots
  IN FoldLeft(AddRoot, <<op.lib>>, op.tasks)

Load ==
  /\ op.at = "load"
  /\ op' = [at |-> "link", lib |-> op.lib, tasks |-> op.tasks, roots |-> LocalGroupRoots]
  /\ UNCHANGED <<files, soinfos, clients>>

LoadFails ==
  /\ op.at = "load"
  /\ \E n \in DOMAIN op.tasks : op.tasks[n].lib \notin linked
  /\ Fail

(***************************************************************************)
(* Step 6: the group of the root r is what can be reached from it through  *)
(* libraries that r's namespace can access.  link_image of a new member    *)
(* from that namespace enters it into the group.                           *)
(***************************************************************************)
IsAccessible(ns, l) == home[l] = ns \/ \E p \in Parents(l) : home[p] = ns

LocalGroup(r) ==
  Closure([l \in Libs |-> {c \in children[l] : IsAccessible(home[r], c)}], r)

LinkGroup ==
  /\ op.at = "link"
  /\ LET r == Head(op.roots)
         members == {l \in LocalGroup(r) \ linked : home[l] = home[r] /\ root[l] = NoLib}
     IN root' = [l \in Libs |-> IF l \in members THEN r ELSE root[l]]
  /\ op' = IF Len(op.roots) = 1 THEN [at |-> "commit", lib |-> op.lib, tasks |-> op.tasks]
           ELSE [op EXCEPT !.roots = Tail(@)]
  /\ UNCHANGED <<files, loaded, linked, pinned, initialized, children, ref_count, clients>>

LinkFails ==
  /\ op.at = "link"
  /\ op.lib \notin linked
  /\ Fail

(***************************************************************************)
(* Step 7 and the rest of dlopen: count the references between groups and  *)
(* the one of the new handle, call the constructors, return the handle.    *)
(***************************************************************************)
CrossReferences(r) ==
  {n \in DOMAIN op.tasks :
     /\ op.tasks[n].needed_by # NoLib
     /\ root[op.tasks[n].lib] = r
     /\ root[op.tasks[n].needed_by] # r}

CommitHandleOnly ==
  /\ op.at = "commit"
  /\ linked' = linked \cup {op.tasks[n].lib : n \in DOMAIN op.tasks}
  /\ ref_count' = [ref_count EXCEPT ![root[op.lib]] = @ + 1]
  /\ initialized' = initialized \cup Closure(children, op.lib)
  /\ handles' = [handles EXCEPT ![op.lib] = @ + 1]
  /\ op' = Idle
  /\ UNCHANGED <<files, loaded, pinned, children, root, dso_counters, dtors, running>>
  \* A faulty variant that does not count the references between groups.

Commit ==
  /\ op.at = "commit"
  /\ linked' = linked \cup {op.tasks[n].lib : n \in DOMAIN op.tasks}
  /\ ref_count' = [r \in Libs |-> ref_count[r] + Cardinality(CrossReferences(r))
                                  + IF r = root[op.lib] THEN 1 ELSE 0]
  /\ initialized' = initialized \cup Closure(children, op.lib)
  /\ handles' = [handles EXCEPT ![op.lib] = @ + 1]
  /\ op' = Idle
  /\ UNCHANGED <<files, loaded, pinned, children, root, dso_counters, dtors, running>>

(***************************************************************************)
(* dlclose of a handle the program has.                                    *)
(***************************************************************************)
DlClose(l) ==
  /\ op = Idle
  /\ handles[l] > 0
  /\ handles' = [handles EXCEPT ![l] = @ - 1]
  /\ UnloadList(<<l>>)
  /\ UNCHANGED <<files, soinfos, dso_counters, dtors, running>>

-----------------------------------------------------------------------------
(***************************************************************************)
(* A thread that runs code of library l registers a thread-local           *)
(* destructor.  The first pending one of a library takes a reference.      *)
(***************************************************************************)
AddThreadLocalDtor(t, l) ==
  /\ op = Idle
  /\ l \in InUse
  /\ Len(dtors[t]) < MaxDtors
  /\ dtors' = [dtors EXCEPT ![t] = <<l>> \o @]
  /\ dso_counters' = [dso_counters EXCEPT ![l] = @ + 1]
  /\ ref_count' = IF dso_counters[l] = 0 THEN [ref_count EXCEPT ![root[l]] = @ + 1]
                  ELSE ref_count
  /\ UNCHANGED <<files, loaded, linked, pinned, initialized, children, root,
                 handles, running, op>>

(***************************************************************************)
(* __cxa_thread_finalize of an exiting thread takes the newest destructor  *)
(* off its list and calls it, and then gives the reference back.           *)
(***************************************************************************)
RunDtor(t) ==
  /\ running[t] = NoLib
  /\ dtors[t] # <<>>
  /\ running' = [running EXCEPT ![t] = Head(dtors[t])]
  /\ dtors' = [dtors EXCEPT ![t] = Tail(@)]
  /\ UNCHANGED <<files, soinfos, dso_counters, handles, op>>

RemoveThreadLocalDtor(t) ==
  /\ op = Idle
  /\ running[t] # NoLib
  /\ running' = [running EXCEPT ![t] = NoLib]
  /\ dso_counters' = [dso_counters EXCEPT ![running[t]] = @ - 1]
  /\ UnloadList(IF dso_counters[running[t]] = 1 THEN <<running[t]>> ELSE <<>>)
  /\ UNCHANGED <<files, soinfos, handles, dtors>>

Next ==
  \/ \E l \in Libs, keep \in BOOLEAN : DlOpen(l, keep)
  \/ \E l \in Libs : DlClose(l)
  \/ FindLoadedLibrary \/ LoadLibrary \/ LoadLibraryFails
  \/ Load \/ LoadFails \/ LinkGroup \/ LinkFails \/ Commit
  \/ SoinfoUnload
  \/ \E t \in Threads, l \in Libs : AddThreadLocalDtor(t, l)
  \/ \E t \in Threads : RunDtor(t) \/ RemoveThreadLocalDtor(t)

Spec == Init /\ [][Next]_vars

-----------------------------------------------------------------------------
(***************************************************************************)
(* Code that may run is there: a library in use is loaded, linked and      *)
(* initialized, even while another thread is inside the linker, and the    *)
(* libraries that a linked library needs are linked too, unless an unload  *)
(* is under way.  Unloading counts references between groups, and frees a  *)
(* group member by member.                                                 *)
(***************************************************************************)
LibrariesInUseStay ==
  /\ InUse \subseteq initialized
  /\ op.at # "unload" => \A l \in linked : needed[l] \subseteq linked

(***************************************************************************)
(* Between operations the count of each group is exactly the number of     *)
(* references to its members: handles, libraries of other groups that need *)
(* them, and members with pending destructors.  soinfo_unload and the last *)
(* step of find_libraries keep these books apart from each other.          *)
(***************************************************************************)
RefCountExact ==
  op = Idle =>
    \A r \in loaded :
      LET group == {l \in loaded : root[l] = r}
      IN /\ root[r] \in group \cup (loaded \ {r})
         /\ ref_count[r] =
              FoldFunctionOnSet(+, 0, handles, group)
                + Cardinality({e \in (loaded \ group) \X group : e[2] \in needed[e[1]]})
                + Cardinality({l \in group : dso_counters[l] > 0})

(***************************************************************************)
(* No library needs, through a library of the other namespace, one of its  *)
(* own namespace again.                                                    *)
(***************************************************************************)
NoReturn ==
  \A l \in Libs : \A m \in Closure(needed, l) :
    home[m] # home[l] => \A k \in Closure(needed, m) : home[k] # home[l]

NothingUnused ==
  LET keeps == [l \in Libs |-> needed[l] \cup {k \in loaded : root[k] = root[l]}]
  IN loaded \subseteq UNION {Closure(keeps, l) : l \in Holders \cup pinned}

(***************************************************************************)
(* Nothing stays behind: between operations every loaded library is in a   *)
(* group that is flagged to stay, is held by the program or is needed by   *)
(* another group that stays, also after a dlopen that failed half-way.     *)
(* find_library and soinfo_unload_impl undo what find_libraries did.  It   *)
(* takes dependencies without loops, of libraries and of namespaces.       *)
(***************************************************************************)
UnusedAreUnloaded ==
  op = Idle /\ Acyclic(needed) /\ NoReturn => NothingUnused

(***************************************************************************)
(* The same for libraries of one namespace that may need each other in a   *)
(* loop, as the test dlopen_check_loop expects: "dlopen second time to     *)
(* make sure that the library was unloaded correctly".  soinfo_unload_impl *)
(* does not unload a loop that the root is not part of.                    *)
(***************************************************************************)
LoopsAreUnloaded ==
  /\ op = Idle
  /\ linked = loaded
  /\ \A l \in Libs : home[l] = "default" /\ l \notin needed[l]
  => NothingUnused

(***************************************************************************)
(* "Whenever needed_by->si link crosses a namespace boundary it forms its  *)
(* own local_group" (find_libraries, step 5): it does not when si can also *)
(* be reached from a root that is linked before it.                        *)
(***************************************************************************)
CrossingFormsGroup ==
  op.at = "commit" =>
    \A n \in DOMAIN op.tasks :
      LET task == op.tasks[n]
      IN task.lib \notin linked /\ home[task.lib] # NamespaceOf(task.needed_by)
           => root[task.lib] = task.lib

=============================================================================
