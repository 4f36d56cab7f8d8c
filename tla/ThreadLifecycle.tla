-------------------------- MODULE ThreadLifecycle --------------------------
(***************************************************************************)
(* The life of a thread: pthread_create, pthread_exit, pthread_join,       *)
(* pthread_detach and the global thread list, with the two operations that *)
(* walk the list, android_run_on_all_threads and                           *)
(* __pthread_internal_remap_stack_with_mte (libc/bionic/pthread_create.cpp,*)
(* pthread_exit.cpp, pthread_join.cpp, pthread_detach.cpp and              *)
(* pthread_internal.cpp).                                                  *)
(*                                                                         *)
(* A thread stands for its pthread_internal_t as well.  Which thread holds *)
(* g_thread_creation_lock or reads under g_thread_list_lock is seen from   *)
(* its location; both locks prefer readers, so a writer only excludes them *)
(* once it holds the lock.  A write section of the list lock changes the   *)
(* list and nothing else and is one step.                                  *)
(*                                                                         *)
(* Calls that fail without a change (EAGAIN for want of memory, EDEADLK    *)
(* for joining oneself) are stuttering steps.  The program is legal: it    *)
(* uses a pthread_t for one pthread_join or pthread_detach and not after.  *)
(***************************************************************************)
EXTENDS Integers, FiniteSets

CONSTANTS
  Threads,
  Main,             \* The initial thread; it does not exit.
  None,             \* No thread.
  MaxRuns           \* How often android_run_on_all_threads is called.

ASSUME ThreadAssumption ==
  /\ IsFiniteSet(Threads)
  /\ Main \in Threads
  /\ None \notin Threads
  /\ MaxRuns \in Nat

VARIABLES
  pc,
  arg,              \* The thread a create, join or detach is about.
  list,             \* g_thread_list
  mem,              \* The mapping: "none", "mapped" or "unmapped".
  handshake,        \* startup_handshake_lock is held by the creator.
  join_state,
  old_state,        \* pthread_exit's local.
  idle_routine,     \* start_routine is __do_nothing.
  tid,              \* Whether tid is not 0.
  cleartid,         \* Whether the kernel will clear tid at exit.
  masked,           \* All signals are blocked.
  terminating,
  pending,          \* BIONIC_SIGNAL_RUN_ON_ALL_THREADS is pending.
  handle,           \* Whether the program may still use the pthread_t.
  num_tids, g_sem, g_retval,
  runs,             \* Calls of android_run_on_all_threads so far,
  ran,              \* and, of the current one, where func has run
  failed,           \* and where it returned false or could not be asked for.
  memtag_abi,       \* __libc_memtag_stack_abi
  should_allocate,  \* should_allocate_stack_mte_ringbuffer
  rings             \* How many ring buffers a thread was given.

threadVars == <<mem, handshake, join_state, old_state, idle_routine, tid, cleartid, masked, terminating>>
runVars == <<pending, num_tids, g_sem, g_retval, runs, ran, failed>>
mteVars == <<memtag_abi, should_allocate, rings>>
vars == <<pc, arg, list, handle, threadVars, runVars, mteVars>>

(***************************************************************************)
(* none, dead   not yet cloned; gone;                                      *)
(* user         running the program;                                       *)
(* create       in pthread_create, about to take the creation lock;        *)
(* clone, init, add, release, created   and holding it;                    *)
(* start        a new thread, about to take its handshake lock;            *)
(* unmask       about to restore its signal mask;                          *)
(* exit         in pthread_exit, about to change join_state;               *)
(* exitlock     about to take the creation lock;                           *)
(* term, mask   holding it, about to set terminating, to block signals;    *)
(* untid, remove, unmap   a detached thread on its way out;                *)
(* die          about to leave through the exit system call;               *)
(* detach, cas  in pthread_detach, before the find and before the CAS;     *)
(* find, claim, wait, asleep, reap, free   in pthread_join;                *)
(* run          in android_run_on_all_threads, about to take the locks;    *)
(* self, send, collect, restore   and holding them.                        *)
(***************************************************************************)
CreatorHolds == {"clone", "init", "add", "release", "created"}
RunnerHolds == {"self", "send", "collect", "restore"}
UsesArg ==
  {"create", "detach", "cas", "find", "claim", "wait", "asleep", "reap", "free"}
    \union (CreatorHolds \ {"created"})

Locations ==
  CreatorHolds \union RunnerHolds \union UsesArg \union
  {"none", "dead", "user", "start", "unmask", "exit", "exitlock", "term",
   "mask", "untid", "remove", "unmap", "die", "run"}

JoinStates == {"NOT_JOINED", "EXITED_NOT_JOINED", "JOINED", "DETACHED"}

At(ls) == {t \in Threads : pc[t] \in ls}

CreationFreeForReader == At(RunnerHolds) = {}
CreationFreeForWriter == At(RunnerHolds \union CreatorHolds \union {"term", "mask"}) = {}
ListFreeForWriter == At(RunnerHolds) = {}

Goto(t, l) == pc' = [pc EXCEPT ![t] = l]
Set(f, t, v) == [f EXCEPT ![t] = v]

Init ==
  /\ pc = [t \in Threads |-> IF t = Main THEN "user" ELSE "none"]
  /\ arg = [t \in Threads |-> None]
  /\ list = {Main}
  /\ handle = [t \in Threads |-> "none"]
  /\ mem = [t \in Threads |-> IF t = Main THEN "mapped" ELSE "none"]
  /\ handshake = [t \in Threads |-> FALSE]
  /\ join_state = [t \in Threads |-> "NOT_JOINED"]
  /\ old_state = [t \in Threads |-> "NOT_JOINED"]
  /\ idle_routine = [t \in Threads |-> FALSE]
  /\ tid = [t \in Threads |-> t = Main]
  /\ cleartid = [t \in Threads |-> TRUE]
  /\ masked = [t \in Threads |-> FALSE]
  /\ terminating = [t \in Threads |-> FALSE]
  /\ pending = [t \in Threads |-> FALSE]
  /\ num_tids = 0 /\ g_sem = 0 /\ g_retval = TRUE
  /\ runs = 0 /\ ran = {} /\ failed = {}
  /\ memtag_abi = FALSE
  /\ should_allocate = [t \in Threads |-> FALSE]
  /\ rings = [t \in Threads |-> 0]

-----------------------------------------------------------------------------
(***************************************************************************)
(* pthread_create up to g_thread_creation_lock: the mapping is made and    *)
(* the handshake lock taken.                                               *)
(***************************************************************************)
Create(t, c) ==
  /\ pc[t] = "user" /\ mem[c] = "none"
  /\ mem' = Set(mem, c, "mapped")
  /\ handshake' = Set(handshake, c, TRUE)
  /\ arg' = Set(arg, t, c)
  /\ Goto(t, "create")
  /\ UNCHANGED <<list, handle, join_state, old_state, idle_routine, tid, cleartid, masked, terminating, runVars, mteVars>>

(***************************************************************************)
(* Faulty variants: the new thread is not told of the ABI, and the lock is *)
(* not taken.                                                              *)
(***************************************************************************)
LockCreationUntold(t) ==
  /\ pc[t] = "create" /\ CreationFreeForReader
  /\ Goto(t, "clone")
  /\ UNCHANGED <<arg, list, handle, threadVars, runVars, mteVars>>

LockCreationNot(t) ==
  /\ pc[t] = "create"
  /\ should_allocate' = Set(should_allocate, arg[t], memtag_abi)
  /\ Goto(t, "clone")
  /\ UNCHANGED <<arg, list, handle, threadVars, runVars, memtag_abi, rings>>

(***************************************************************************)
(* The creation lock is taken for reading, and under it the thread told    *)
(* whether to allocate its ring buffer.                                    *)
(***************************************************************************)
LockCreation(t) ==
  /\ pc[t] = "create" /\ CreationFreeForReader
  /\ should_allocate' = Set(should_allocate, arg[t], memtag_abi)
  /\ Goto(t, "clone")
  /\ UNCHANGED <<arg, list, handle, threadVars, runVars, memtag_abi, rings>>

(***************************************************************************)
(* clone, with all signals blocked in parent and child.  On failure the    *)
(* mapping is undone and the call returns.                                 *)
(***************************************************************************)
Clone(t) ==
  /\ pc[t] = "clone"
  /\ LET c == arg[t] IN
       \/ /\ pc' = [pc EXCEPT ![t] = "init", ![c] = "start"]
          /\ tid' = Set(tid, c, TRUE)
          /\ masked' = Set(masked, c, TRUE)
          /\ UNCHANGED <<arg, mem, handshake>>
       \/ /\ Goto(t, "user")
          /\ arg' = Set(arg, t, None)
          /\ handshake' = Set(handshake, c, FALSE)
          /\ mem' = Set(mem, c, "unmapped")
          /\ UNCHANGED <<tid, masked>>
  /\ UNCHANGED <<list, handle, join_state, old_state, idle_routine, cleartid, terminating, runVars, mteVars>>

(***************************************************************************)
(* __init_thread, with the join state the attributes ask for.  When it     *)
(* fails the thread is left to end by itself: it is detached and gets a    *)
(* start routine that does nothing.                                        *)
(***************************************************************************)
InitThread(t) ==
  /\ pc[t] = "init"
  /\ \/ /\ \E state \in {"NOT_JOINED", "DETACHED"} : join_state' = Set(join_state, arg[t], state)
        /\ UNCHANGED idle_routine
     \/ /\ join_state' = Set(join_state, arg[t], "DETACHED")
        /\ idle_routine' = Set(idle_routine, arg[t], TRUE)
  /\ Goto(t, "add")
  /\ UNCHANGED <<arg, list, handle, mem, handshake, old_state, tid, cleartid, masked, terminating, runVars, mteVars>>

(***************************************************************************)
(* __pthread_internal_add, and *thread_out.                                *)
(***************************************************************************)
Add(t) ==
  /\ pc[t] = "add" /\ ListFreeForWriter
  /\ list' = list \union {arg[t]}
  /\ handle' = IF join_state[arg[t]] = "DETACHED" THEN handle ELSE Set(handle, arg[t], "valid")
  /\ Goto(t, "release")
  /\ UNCHANGED <<arg, threadVars, runVars, mteVars>>

ReleaseChild(t) ==
  /\ pc[t] = "release"
  /\ handshake' = Set(handshake, arg[t], FALSE)
  /\ Goto(t, "created")
  /\ arg' = Set(arg, t, None)
  /\ UNCHANGED <<list, handle, mem, join_state, old_state, idle_routine, tid, cleartid, masked, terminating, runVars, mteVars>>

(***************************************************************************)
(* The creation lock is released when pthread_create returns.              *)
(***************************************************************************)
CreateReturns(t) ==
  /\ pc[t] = "created"
  /\ Goto(t, "user")
  /\ UNCHANGED <<arg, list, handle, threadVars, runVars, mteVars>>

(***************************************************************************)
(* __pthread_start: the ring buffer, the handshake ...                     *)
(***************************************************************************)
Start(c) ==
  /\ pc[c] = "start" /\ ~handshake[c]
  /\ rings' = IF should_allocate[c] THEN Set(rings, c, rings[c] + 1) ELSE rings
  /\ Goto(c, "unmask")
  /\ UNCHANGED <<arg, list, handle, threadVars, runVars, memtag_abi, should_allocate>>

(***************************************************************************)
(* ... and the signal mask; then the start routine.                        *)
(***************************************************************************)
Unmask(c) ==
  /\ pc[c] = "unmask"
  /\ masked' = Set(masked, c, FALSE)
  /\ Goto(c, IF idle_routine[c] THEN "exit" ELSE "user")
  /\ UNCHANGED <<arg, list, handle, mem, handshake, join_state, old_state, idle_routine, tid, cleartid, terminating, runVars, mteVars>>

-----------------------------------------------------------------------------
(***************************************************************************)
(* pthread_exit, up to the end of the destructors (see PthreadKey).        *)
(***************************************************************************)
Exit(c) ==
  /\ pc[c] = "user" /\ c # Main
  /\ Goto(c, "exit")
  /\ UNCHANGED <<arg, list, handle, threadVars, runVars, mteVars>>

MarkExited(c) ==
  /\ pc[c] = "exit"
  /\ old_state' = Set(old_state, c, join_state[c])
  /\ join_state' = IF join_state[c] = "NOT_JOINED" THEN Set(join_state, c, "EXITED_NOT_JOINED") ELSE join_state
  /\ Goto(c, "exitlock")
  /\ UNCHANGED <<arg, list, handle, mem, handshake, idle_routine, tid, cleartid, masked, terminating, runVars, mteVars>>

(***************************************************************************)
(* A faulty variant that does not take the creation lock.                  *)
(***************************************************************************)
LockForExitNot(c) ==
  /\ pc[c] = "exitlock"
  /\ Goto(c, "term")
  /\ UNCHANGED <<arg, list, handle, threadVars, runVars, mteVars>>

LockForExit(c) ==
  /\ pc[c] = "exitlock" /\ CreationFreeForReader
  /\ Goto(c, "term")
  /\ UNCHANGED <<arg, list, handle, threadVars, runVars, mteVars>>

SetTerminating(c) ==
  /\ pc[c] = "term"
  /\ terminating' = Set(terminating, c, TRUE)
  /\ Goto(c, "mask")
  /\ UNCHANGED <<arg, list, handle, mem, handshake, join_state, old_state, idle_routine, tid, cleartid, masked, runVars, mteVars>>

(***************************************************************************)
(* A faulty variant in which every thread resets its tid address.          *)
(***************************************************************************)
BlockSignalsAndForget(c) ==
  /\ pc[c] = "mask"
  /\ masked' = Set(masked, c, TRUE)
  /\ cleartid' = Set(cleartid, c, FALSE)
  /\ Goto(c, IF old_state[c] = "DETACHED" THEN "untid" ELSE "die")
  /\ UNCHANGED <<arg, list, handle, mem, handshake, join_state, old_state, idle_routine, tid, terminating, runVars, mteVars>>

(***************************************************************************)
(* Signals are blocked and the creation lock released.                     *)
(***************************************************************************)
BlockSignals(c) ==
  /\ pc[c] = "mask"
  /\ masked' = Set(masked, c, TRUE)
  /\ Goto(c, IF old_state[c] = "DETACHED" THEN "untid" ELSE "die")
  /\ UNCHANGED <<arg, list, handle, mem, handshake, join_state, old_state, idle_routine, tid, cleartid, terminating, runVars, mteVars>>

(***************************************************************************)
(* A faulty variant without the set_tid_address.                           *)
(***************************************************************************)
ForgetTidNot(c) ==
  /\ pc[c] = "untid"
  /\ Goto(c, "remove")
  /\ UNCHANGED <<arg, list, handle, threadVars, runVars, mteVars>>

(***************************************************************************)
(* A detached thread: __set_tid_address(nullptr), leave the list, and      *)
(* unmap the stack it stands on.                                           *)
(***************************************************************************)
ForgetTid(c) ==
  /\ pc[c] = "untid"
  /\ cleartid' = Set(cleartid, c, FALSE)
  /\ Goto(c, "remove")
  /\ UNCHANGED <<arg, list, handle, mem, handshake, join_state, old_state, idle_routine, tid, masked, terminating, runVars, mteVars>>

RemoveSelf(c) ==
  /\ pc[c] = "remove" /\ ListFreeForWriter
  /\ list' = list \ {c}
  /\ Goto(c, "unmap")
  /\ UNCHANGED <<arg, handle, threadVars, runVars, mteVars>>

Unmap(c) ==
  /\ pc[c] = "unmap"
  /\ mem' = Set(mem, c, "unmapped")
  /\ Goto(c, "die")
  /\ UNCHANGED <<arg, list, handle, handshake, join_state, old_state, idle_routine, tid, cleartid, masked, terminating, runVars, mteVars>>

(***************************************************************************)
(* The exit system call.  The kernel clears tid and wakes the joiner.      *)
(***************************************************************************)
Die(c) ==
  /\ pc[c] = "die"
  /\ tid' = IF cleartid[c] THEN Set(tid, c, FALSE) ELSE tid
  /\ pc' = [t \in Threads |->
              IF t = c THEN "dead"
              ELSE IF cleartid[c] /\ pc[t] = "asleep" /\ arg[t] = c THEN "wait"
              ELSE pc[t]]
  /\ UNCHANGED <<arg, list, handle, mem, handshake, join_state, old_state, idle_routine, cleartid, masked, terminating, runVars, mteVars>>

-----------------------------------------------------------------------------
(***************************************************************************)
(* pthread_join and pthread_detach.  A thread may detach itself; the       *)
(* lookup then skips the list.                                             *)
(***************************************************************************)
Join(t, c) ==
  /\ pc[t] = "user" /\ t # c /\ handle[c] = "valid"
  /\ handle' = Set(handle, c, "used")
  /\ arg' = Set(arg, t, c)
  /\ Goto(t, "find")
  /\ UNCHANGED <<list, threadVars, runVars, mteVars>>

Detach(t, c) ==
  /\ pc[t] = "user" /\ handle[c] = "valid"
  /\ handle' = Set(handle, c, "used")
  /\ arg' = Set(arg, t, c)
  /\ Goto(t, IF t = c THEN "cas" ELSE "detach")
  /\ UNCHANGED <<list, threadVars, runVars, mteVars>>

(***************************************************************************)
(* __pthread_internal_find; an unknown thread ends the call with ESRCH.    *)
(***************************************************************************)
Find(t) ==
  /\ pc[t] \in {"find", "detach"}
  /\ IF arg[t] \notin list
       THEN Goto(t, "user") /\ arg' = Set(arg, t, None)
       ELSE Goto(t, IF pc[t] = "find" THEN "claim" ELSE "cas") /\ UNCHANGED arg
  /\ UNCHANGED <<list, handle, threadVars, runVars, mteVars>>

(***************************************************************************)
(* A faulty variant that detaches a thread that has exited.                *)
(***************************************************************************)
DetachCasAlways(t) ==
  /\ pc[t] = "cas"
  /\ join_state' = Set(join_state, arg[t], "DETACHED")
  /\ Goto(t, "user")
  /\ arg' = Set(arg, t, None)
  /\ UNCHANGED <<list, handle, mem, handshake, old_state, idle_routine, tid, cleartid, masked, terminating, runVars, mteVars>>

(***************************************************************************)
(* pthread_detach's compare-and-swap; a thread that has exited is joined   *)
(* instead, and any other state is EINVAL.                                 *)
(***************************************************************************)
DetachCas(t) ==
  /\ pc[t] = "cas"
  /\ join_state' = IF join_state[arg[t]] = "NOT_JOINED" THEN Set(join_state, arg[t], "DETACHED") ELSE join_state
  /\ IF join_state[arg[t]] = "EXITED_NOT_JOINED"
       THEN Goto(t, "find") /\ UNCHANGED arg
       ELSE Goto(t, "user") /\ arg' = Set(arg, t, None)
  /\ UNCHANGED <<list, handle, mem, handshake, old_state, idle_routine, tid, cleartid, masked, terminating, runVars, mteVars>>

(***************************************************************************)
(* pthread_join's compare-and-swap.                                        *)
(***************************************************************************)
Claim(t) ==
  /\ pc[t] = "claim"
  /\ IF join_state[arg[t]] \in {"NOT_JOINED", "EXITED_NOT_JOINED"}
       THEN /\ join_state' = Set(join_state, arg[t], "JOINED")
            /\ Goto(t, "wait")
            /\ UNCHANGED arg
       ELSE /\ Goto(t, "user")
            /\ arg' = Set(arg, t, None)
            /\ UNCHANGED join_state
  /\ UNCHANGED <<list, handle, mem, handshake, old_state, idle_routine, tid, cleartid, masked, terminating, runVars, mteVars>>

(***************************************************************************)
(* The loop around futex_wait on tid.                                      *)
(***************************************************************************)
WaitForExit(t) ==
  /\ pc[t] = "wait"
  /\ Goto(t, IF tid[arg[t]] THEN "asleep" ELSE "reap")
  /\ UNCHANGED <<arg, list, handle, threadVars, runVars, mteVars>>

(***************************************************************************)
(* __pthread_internal_remove_and_free, after the return value is read.     *)
(***************************************************************************)
Reap(t) ==
  /\ pc[t] = "reap" /\ ListFreeForWriter
  /\ list' = list \ {arg[t]}
  /\ Goto(t, "free")
  /\ UNCHANGED <<arg, handle, threadVars, runVars, mteVars>>

Free(t) ==
  /\ pc[t] = "free"
  /\ mem' = Set(mem, arg[t], "unmapped")
  /\ Goto(t, "user")
  /\ arg' = Set(arg, t, None)
  /\ UNCHANGED <<list, handle, handshake, join_state, old_state, idle_routine, tid, cleartid, masked, terminating, runVars, mteVars>>

-----------------------------------------------------------------------------
(***************************************************************************)
(* android_run_on_all_threads.                                             *)
(***************************************************************************)
RunOnAll(t) ==
  /\ pc[t] = "user" /\ runs < MaxRuns
  /\ runs' = runs + 1
  /\ Goto(t, "run")
  /\ UNCHANGED <<arg, list, handle, threadVars, pending, num_tids, g_sem, g_retval, ran, failed, mteVars>>

RunLock(t) ==
  /\ pc[t] = "run" /\ CreationFreeForWriter
  /\ Goto(t, "self")
  /\ UNCHANGED <<arg, list, handle, threadVars, runVars, mteVars>>

(***************************************************************************)
(* func on the caller itself; false ends the call.  Then the semaphore is  *)
(* reset and the handler installed.                                        *)
(***************************************************************************)
RunSelf(t) ==
  /\ pc[t] = "self"
  /\ \/ Goto(t, "user") /\ UNCHANGED <<ran, g_sem>>
     \/ Goto(t, "send") /\ ran' = {t} /\ g_sem' = 0
  /\ UNCHANGED <<arg, list, handle, threadVars, pending, num_tids, g_retval, runs, failed, mteVars>>

(***************************************************************************)
(* The loop over the list.  tgkill fails for a thread that is gone, and    *)
(* may fail for any other: the signal is a real-time one, for which the    *)
(* kernel can run out of room.                                             *)
(***************************************************************************)
Asked(t) == {u \in list \ {t} : ~terminating[u]}

Queue(reached) ==
  /\ pending' = [u \in Threads |-> pending[u] \/ u \in reached]
  /\ num_tids' = Cardinality(reached)

(***************************************************************************)
(* A faulty variant that keeps quiet about the threads not reached.        *)
(***************************************************************************)
SendQuietly(t) ==
  /\ pc[t] = "send"
  /\ \E reached \in SUBSET (Asked(t) \ At({"dead"})) :
       Queue(reached) /\ failed' = failed \union (Asked(t) \ reached)
  /\ Goto(t, "collect")
  /\ UNCHANGED <<arg, list, handle, threadVars, g_sem, g_retval, runs, ran, mteVars>>

Send(t) ==
  /\ pc[t] = "send"
  /\ \E reached \in SUBSET (Asked(t) \ At({"dead"})) :
       /\ Queue(reached)
       /\ g_retval' = (g_retval /\ reached = Asked(t))
       /\ failed' = failed \union (Asked(t) \ reached)
  /\ Goto(t, "collect")
  /\ UNCHANGED <<arg, list, handle, threadVars, g_sem, runs, ran, mteVars>>

(***************************************************************************)
(* The signal handler, in any thread that does not block the signal.  It   *)
(* interrupts a futex_wait.                                                *)
(***************************************************************************)
Handle(u) ==
  /\ pending[u] /\ ~masked[u] /\ pc[u] \notin {"none", "dead"}
  /\ pending' = Set(pending, u, FALSE)
  /\ \E ok \in BOOLEAN :
       /\ g_retval' = (g_retval /\ ok)
       /\ failed' = IF ok THEN failed ELSE failed \union {u}
  /\ ran' = ran \union {u}
  /\ g_sem' = g_sem + 1
  /\ Goto(u, IF pc[u] = "asleep" THEN "wait" ELSE pc[u])
  /\ UNCHANGED <<arg, list, handle, threadVars, num_tids, runs, mteVars>>

(***************************************************************************)
(* A faulty variant that stops one short.                                  *)
(***************************************************************************)
CollectShort(t) ==
  /\ pc[t] = "collect"
  /\ IF num_tids <= 1
       THEN Goto(t, "restore") /\ UNCHANGED <<g_sem, num_tids>>
       ELSE g_sem > 0 /\ g_sem' = g_sem - 1 /\ num_tids' = num_tids - 1 /\ UNCHANGED pc
  /\ UNCHANGED <<arg, list, handle, threadVars, pending, g_retval, runs, ran, failed, mteVars>>

(***************************************************************************)
(* sem_wait, once for every signal sent.                                   *)
(***************************************************************************)
Collect(t) ==
  /\ pc[t] = "collect"
  /\ IF num_tids = 0
       THEN Goto(t, "restore") /\ UNCHANGED <<g_sem, num_tids>>
       ELSE g_sem > 0 /\ g_sem' = g_sem - 1 /\ num_tids' = num_tids - 1 /\ UNCHANGED pc
  /\ UNCHANGED <<arg, list, handle, threadVars, pending, g_retval, runs, ran, failed, mteVars>>

(***************************************************************************)
(* The old handler is restored and the locks are released.                 *)
(***************************************************************************)
RunReturns(t) ==
  /\ pc[t] = "restore"
  /\ Goto(t, "user")
  /\ ran' = {} /\ failed' = {}
  /\ UNCHANGED <<arg, list, handle, threadVars, pending, num_tids, g_sem, g_retval, runs, mteVars>>

(***************************************************************************)
(* __pthread_internal_remap_stack_with_mte, as far as the ring buffers;    *)
(* it holds both locks throughout and calls nobody.                        *)
(***************************************************************************)
RemapStackWithMte(t) ==
  /\ pc[t] = "user" /\ CreationFreeForWriter
  /\ ~memtag_abi
  /\ memtag_abi' = TRUE
  /\ rings' = [u \in Threads |->
                 IF u \in list /\ ~terminating[u] /\ ~should_allocate[u] THEN rings[u] + 1 ELSE rings[u]]
  /\ UNCHANGED <<pc, arg, list, handle, threadVars, runVars, should_allocate>>

-----------------------------------------------------------------------------
Progress(t) ==
  \/ LockCreation(t) \/ Clone(t) \/ InitThread(t) \/ Add(t) \/ ReleaseChild(t) \/ CreateReturns(t)
  \/ Start(t) \/ Unmask(t)
  \/ MarkExited(t) \/ LockForExit(t) \/ SetTerminating(t) \/ BlockSignals(t)
  \/ ForgetTid(t) \/ RemoveSelf(t) \/ Unmap(t) \/ Die(t)
  \/ Find(t) \/ DetachCas(t) \/ Claim(t) \/ WaitForExit(t) \/ Reap(t) \/ Free(t)
  \/ RunLock(t) \/ RunSelf(t) \/ Send(t) \/ Collect(t) \/ RunReturns(t)

Next ==
  \E t \in Threads :
    \/ Progress(t)
    \/ Handle(t)
    \/ \E c \in Threads : Join(t, c) \/ Detach(t, c) \/ Create(t, c)
    \/ Exit(t)
    \/ RunOnAll(t)
    \/ RemapStackWithMte(t)

Spec == Init /\ [][Next]_vars

(***************************************************************************)
(* Calls under way go on, and the kernel delivers signals.                 *)
(***************************************************************************)
FairSpec == Spec /\ \A t \in Threads : WF_vars(Progress(t)) /\ WF_vars(Handle(t))

-----------------------------------------------------------------------------
TypeOK ==
  /\ pc \in [Threads -> Locations]
  /\ arg \in [Threads -> Threads \union {None}]
  /\ \A t \in Threads : pc[t] \in UsesArg <=> arg[t] # None
  /\ list \subseteq Threads
  /\ handle \in [Threads -> {"none", "valid", "used"}]
  /\ mem \in [Threads -> {"none", "mapped", "unmapped"}]
  /\ join_state \in [Threads -> JoinStates]
  /\ old_state \in [Threads -> JoinStates]
  /\ handshake \in [Threads -> BOOLEAN] /\ idle_routine \in [Threads -> BOOLEAN]
  /\ tid \in [Threads -> BOOLEAN] /\ cleartid \in [Threads -> BOOLEAN]
  /\ masked \in [Threads -> BOOLEAN] /\ terminating \in [Threads -> BOOLEAN]
  /\ pending \in [Threads -> BOOLEAN] /\ should_allocate \in [Threads -> BOOLEAN]
  /\ num_tids \in Nat /\ g_sem \in Nat
  /\ g_retval \in BOOLEAN /\ memtag_abi \in BOOLEAN
  /\ runs \in 0 .. MaxRuns
  /\ ran \subseteq Threads /\ failed \subseteq Threads
  /\ rings \in [Threads -> Nat]

(***************************************************************************)
(* Nobody touches c's mapping again.                                       *)
(***************************************************************************)
OutOfUse(c) ==
  /\ pc[c] \in {"none", "dead"} \/ (pc[c] = "die" /\ ~cleartid[c])
  /\ c \notin list
  /\ \A t \in Threads : arg[t] # c

(***************************************************************************)
(* A thread's mapping, which holds its stack and its pthread_internal_t,   *)
(* goes away only when nobody will touch it again: the thread itself has   *)
(* at most the exit system call left, the kernel will not clear its tid,   *)
(* the list does not link it and no create, join or detach works on it,    *)
(* however exit, join and detach raced.                                    *)
(***************************************************************************)
NoUseAfterUnmap == \A c \in Threads : mem[c] = "unmapped" => OutOfUse(c)

(***************************************************************************)
(* Every thread that has ended is cleaned up by exactly one side: when it  *)
(* was joined or detached (by its attributes, by pthread_detach before or  *)
(* after it ended, or by a failed pthread_create) and no call on it is     *)
(* under way, its mapping is gone.                                         *)
(***************************************************************************)
NothingLeaked ==
  \A c \in Threads :
    pc[c] = "dead" /\ handle[c] # "valid" /\ (\A t \in Threads : arg[t] # c)
      => mem[c] = "unmapped"

(***************************************************************************)
(* When android_run_on_all_threads returns, func has run on every thread   *)
(* that the kernel knows and that is not terminating, threads that were    *)
(* being created or ending included, but for those to which the signal     *)
(* could not be sent; and it returns true only if there were none of these *)
(* and func returned true everywhere.                                      *)
(***************************************************************************)
RunReachesEveryone ==
  \A t \in At({"restore"}) :
    /\ \A u \in Threads \ At({"none", "dead"}) : terminating[u] \/ u \in ran \union failed
    /\ g_retval => failed = {}

(***************************************************************************)
(* No thread is left with the signal pending once the handler is gone: it  *)
(* would meet the action of whoever had the signal before.                 *)
(***************************************************************************)
SignalsMeetHandler ==
  \A u \in Threads : pending[u] => At({"collect"}) # {}

(***************************************************************************)
(* Once the process has switched to the memtag-stack ABI, every thread     *)
(* that runs has exactly one ring buffer, whether it was running, being    *)
(* created or about to be created at the switch.                           *)
(***************************************************************************)
OneRingBufferEach ==
  \A c \in Threads \ At({"none", "start", "dead"}) :
    memtag_abi /\ ~terminating[c] => rings[c] = 1

(***************************************************************************)
(* android_run_on_all_threads does what its name says: it reaches every    *)
(* thread it can signal, also those being created, leaves no signal        *)
(* behind, and the remapping it is used for gives each thread one ring     *)
(* buffer.                                                                 *)
(***************************************************************************)
RunIsComplete == RunReachesEveryone /\ SignalsMeetHandler /\ OneRingBufferEach

(***************************************************************************)
(* The inductive invariant.  A thread is worked on by at most one          *)
(* pthread_create, and by at most one pthread_join or pthread_detach.      *)
(***************************************************************************)
Creating == {"create", "clone", "init", "add", "release"}
Claimed == {"wait", "asleep", "reap", "free"}
Using == {"detach", "cas", "find", "claim"} \union Claimed

Creates(t, c) == pc[t] \in Creating /\ arg[t] = c
Uses(t, c) == pc[t] \in Using /\ arg[t] = c

OneCall(c) ==
  \A t, u \in Threads :
    (Creates(t, c) /\ Creates(u, c)) \/ (Uses(t, c) /\ Uses(u, c)) => t = u

(***************************************************************************)
(* What a pthread_create under way means for the new thread,               *)
(***************************************************************************)
CreationInStep(c) ==
  \A t \in Threads : Creates(t, c) =>
    /\ handshake[c] /\ mem[c] = "mapped"
    /\ pc[c] = IF pc[t] \in {"create", "clone"} THEN "none" ELSE "start"
    /\ c \in list <=> pc[t] = "release"
    /\ pc[t] # "release" => handle[c] = "none"

(***************************************************************************)
(* and a pthread_join or pthread_detach for its thread.                    *)
(***************************************************************************)
UseInStep(c) ==
  \A t \in Threads : Uses(t, c) =>
    /\ handle[c] = "used" /\ mem[c] = "mapped" /\ pc[c] # "none"
    /\ join_state[c] # "DETACHED"
    /\ pc[t] \in Claimed <=> join_state[c] = "JOINED"
    /\ pc[t] \in {"reap", "free"} => pc[c] = "dead"
    /\ c \in list <=> pc[t] # "free"

(***************************************************************************)
(* How far a thread is decides about its mapping, its place in the list,   *)
(* its tid and its join state.                                             *)
(***************************************************************************)
Ended == {"exitlock", "term", "mask", "untid", "remove", "unmap", "die", "dead"}

Unborn(c) ==
  /\ c \notin list /\ handle[c] = "none" /\ join_state[c] = "NOT_JOINED"
  /\ cleartid[c]

Alive(c) ==
  /\ pc[c] \notin {"die", "dead"} => mem[c] = "mapped"
  /\ handshake[c] => pc[c] = "start"
  /\ ~handshake[c] =>
       \/ c \in list
       \/ pc[c] \in {"unmap", "die", "dead"} /\ join_state[c] = "DETACHED"
       \/ pc[c] = "dead" /\ join_state[c] = "JOINED"

Leaving(c) ==
  /\ pc[c] \in Ended =>
       /\ join_state[c] # "NOT_JOINED"
       /\ join_state[c] = "DETACHED" <=> old_state[c] = "DETACHED"
  /\ pc[c] \in {"untid", "remove", "unmap"} => old_state[c] = "DETACHED"
  /\ ~cleartid[c] <=>
       pc[c] \in {"remove", "unmap"} \/ (pc[c] \in {"die", "dead"} /\ old_state[c] = "DETACHED")
  /\ pc[c] = "unmap" => c \notin list
  /\ pc[c] \in {"die", "dead"} /\ old_state[c] = "DETACHED" => mem[c] = "unmapped"
  /\ pc[c] = "die" /\ old_state[c] # "DETACHED" => mem[c] = "mapped"

StageInStep(c) ==
  /\ pc[c] = "none" => Unborn(c)
  /\ pc[c] # "none" => Alive(c)
  /\ Leaving(c)
  /\ mem[c] = "none" => pc[c] = "none" /\ ~handshake[c]
  /\ c \in list => mem[c] = "mapped"
  /\ tid[c] <=> pc[c] \notin {"none", "dead"} \/ (pc[c] = "dead" /\ ~cleartid[c])
  /\ terminating[c] <=> pc[c] \in Ended \ {"exitlock", "term"}
  /\ join_state[c] = "EXITED_NOT_JOINED" => pc[c] \in Ended

(***************************************************************************)
(* Somebody is responsible for a thread: the one that has its handle, or   *)
(* the call that has used it.                                              *)
(***************************************************************************)
SomebodyCares(c) ==
  /\ handshake[c] => \E t \in Threads : Creates(t, c)
  /\ handle[c] = "valid" =>
       c \in list /\ join_state[c] \in {"NOT_JOINED", "EXITED_NOT_JOINED"}
  /\ c \in list \ {Main} /\ join_state[c] \in {"NOT_JOINED", "EXITED_NOT_JOINED"} =>
       handle[c] = "valid" \/ \E t \in Threads : Uses(t, c)
  /\ join_state[c] = "JOINED" => mem[c] = "unmapped" \/ \E t \in Threads : Uses(t, c)

ThreadInv(c) ==
  /\ OneCall(c) /\ CreationInStep(c) /\ UseInStep(c) /\ StageInStep(c) /\ SomebodyCares(c)
  /\ mem[c] = "unmapped" => OutOfUse(c)

(***************************************************************************)
(* The main thread does not end.                                           *)
(***************************************************************************)
MainStays == pc[Main] \notin {"none", "start", "unmask", "exit"} \union Ended

(***************************************************************************)
(* The creation lock and the list lock.                                    *)
(***************************************************************************)
RunExcludes ==
  \A t, u \in Threads :
    pc[t] \in RunnerHolds /\ pc[u] \in RunnerHolds \union CreatorHolds \union {"term", "mask"} => t = u

(***************************************************************************)
(* While signals are being collected, each is still pending or counted,    *)
(* and whoever is not terminating has it pending, has run func or could    *)
(* not be asked to.                                                        *)
(***************************************************************************)
PendingThreads == {u \in Threads : pending[u]}

RunInStep ==
  /\ g_retval => failed = {}
  /\ \A t \in Threads :
       /\ pc[t] \in {"send", "collect", "restore"} => t \in ran
       /\ pc[t] = "send" => g_sem = 0
       /\ pc[t] = "collect" => num_tids = g_sem + Cardinality(PendingThreads)
       /\ pc[t] \in {"collect", "restore"} =>
            \A u \in Threads \ At({"none", "dead"}) : terminating[u] \/ u \in ran \union failed \/ pending[u]

(***************************************************************************)
(* Who has been told to allocate a ring buffer does it when it starts, and *)
(* everybody else got one at the switch.                                   *)
(***************************************************************************)
RingsInStep ==
  /\ \A t \in Threads : pc[t] \in Creating \ {"create"} => should_allocate[arg[t]] = memtag_abi
  /\ \A c \in Threads :
       /\ ~memtag_abi \/ pc[c] = "none" => rings[c] = 0
       /\ ~memtag_abi => ~should_allocate[c]
       /\ memtag_abi /\ pc[c] \notin {"none", "dead"} /\ ~terminating[c] =>
            rings[c] = IF should_allocate[c] /\ pc[c] = "start" THEN 0 ELSE 1

Inv ==
  /\ TypeOK /\ MainStays /\ \A c \in Threads : ThreadInv(c)
  /\ RunExcludes /\ RunInStep /\ SignalsMeetHandler /\ RingsInStep

(***************************************************************************)
(* android_run_on_all_threads returns although threads start and end while *)
(* it counts on their answers: no call of it stays under way forever.      *)
(***************************************************************************)
RunCompletes == []<>(At({"run"} \union RunnerHolds) = {})

(***************************************************************************)
(* pthread_join, or a pthread_detach that turned into one, returns once    *)
(* the thread it waits for is gone.                                        *)
(***************************************************************************)
JoinCompletes ==
  []<>(\A t \in At({"wait", "asleep", "reap", "free"}) : pc[arg[t]] # "dead")

(***************************************************************************)
(* The creation lock, the list lock and the semaphore of a run deadlock    *)
(* neither the run nor a joiner.                                           *)
(***************************************************************************)
CallsComplete == RunCompletes /\ JoinCompletes
=============================================================================
