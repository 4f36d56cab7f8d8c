# Bionic in TLA+

TLA+ models of the stateful core of Bionic, Android's C library and dynamic
linker, the TLC configurations that check them on small instances, and TLAPS
proofs of the results that hold for every instance. Every definition is written
from the C and C++ source under `src/`; `PROJECT.json` maps each one to its lines.

## The system and its parts

Bionic is the C library every Android process links, with the dynamic linker
that starts it. Most of its lines are stateless wrappers of system calls, code
imported from the BSDs, kernel headers and assembly. What has state that several
threads or processes touch, and is therefore worth a model, is listed here.

| part | source | state | operations | what is hard |
|---|---|---|---|---|
| internal lock | `libc/private/bionic_lock.h` | one word, three values | lock, trylock, unlock | wake after release, barging |
| mutexes | `libc/bionic/pthread_mutex.cpp` | 16-bit state, owner tid, recursion counter | lock, trylock, timed lock, unlock, destroy | types, recursion limit, timeouts, destruction after unlock |
| PI mutexes | same | owner tid word shared with the kernel, counter, 32-bit id allocator | the same, allocate, free | kernel hand-over |
| read-write locks | `libc/bionic/pthread_rwlock.cpp` | state word, pending counts and serials under a Lock | rdlock, wrlock, try, timed, unlock, destroy | pending flags, preference, timeouts against wakes |
| condition variables | `libc/bionic/pthread_cond.cpp` | sequence word, waiter count | wait, timed wait, signal, broadcast | signal between unlock and sleep, wrap of the sequence |
| semaphores | `libc/bionic/semaphore.cpp` | signed value with -1 for "contended" | wait, try, timed, post, getvalue | marker value, wake all, overflow |
| barriers | `libc/bionic/pthread_barrier.cpp` | state, wait count | wait, destroy | reuse while the last round leaves, destruction |
| once and static guards | `libc/bionic/pthread_once.cpp`, `__cxa_guard.cpp` | one word | run once; acquire, release, abort | waiters and an aborting initializer |
| thread-specific keys | `libc/bionic/pthread_key.cpp` | key map of sequence and destructor, slots per thread | create, delete, get, set, cleanup at exit | reuse of a key, destructors that set again |
| threads | `pthread_create.cpp`, `pthread_exit.cpp`, `pthread_join.cpp`, `pthread_detach.cpp`, `pthread_internal.cpp` | thread list, join state, startup lock | create, start, exit, join, detach, run on all threads | join against detach against exit |
| system properties | `libc/system_properties/` | shared memory: trie, per-property serial and value, backup area | find, read, add, update, wait, foreach | lock-free readers of a value being written in another process |
| exit and fork handlers | `atexit.cpp`, `__cxa_thread_atexit_impl.cpp`, `pthread_atfork.cpp` | arrays and lists of handlers | register, finalize, run | handlers that register handlers |
| descriptors | `fdsan.cpp`, `fdtrack.cpp` | tag per descriptor | exchange tag, close | double close across threads |
| ELF TLS | `bionic_elf_tls.cpp`, `linker_tls.cpp` | module table, generation, DTV per thread | register, unregister, get address | stale DTV after dlclose |
| dynamic linker | `linker/` | soinfo graph, namespaces, reference counts, block allocator, CFI shadow | dlopen, dlclose, lookup, relocation | failure in the middle of a load, shared reference counts |
| malloc front end | `malloc_common*.cpp`, `malloc_heapprofd.cpp`, `malloc_limit.cpp`, `libc/memory/` | dispatch table pointer, limit counter | install hooks, allocate, free | switching tables while threads allocate |
| timers | `posix_timers.cpp` | timer, its callback thread | create, set, delete | delete against a running callback |
| resolver | `libc/dns/` | per-network caches, pending requests | query, cache add, lookup, flush | expiry, waiters on a pending query |

The parts interact through few interfaces. The futex system call is under all
of the synchronisation objects. The internal lock protects the pending members
of a read-write lock, the start of a new thread and the start of a timer's
thread; read-write locks protect the thread list, thread creation and the table
of TLS modules; mutexes protect the linker, the exit and fork handlers, the
dispatch tables of malloc and the resolver's caches; system properties use
futexes across processes. Unloading a library runs its exit handlers, removes
its fork handlers and frees its TLS module; a pending thread-local destructor
keeps its library loaded.

## How the code is read

- One step is one atomic access to shared memory, or one system call. A loop of
  a load and a compare-and-swap is one step: it takes effect at the swap that
  succeeds, or at the load that makes it give up.
- Memory is sequentially consistent in the models. The code names weaker orders;
  effects of those orders are not modelled.
- A futex wait compares and sleeps in one step. It can also end with a signal
  (EINTR), and a timed one with ETIMEDOUT, at any moment. A wake of one sleeper
  chooses any sleeper. `Futex.tla` holds these conventions; the kernel is
  external code.
- A section protected by the internal lock is one step when the other threads
  can see at most one of its accesses from outside.
- A call that fails without changing anything is a stuttering step. Each module
  says which ones.
- What a build or a user chooses once (32 or 64 bits, the type of a mutex, the
  preference of a read-write lock, whether there are override areas) is a
  variable that `Init` chooses and no step changes, so that one run covers all
  the choices.

## Modules

| module | part | role |
|---|---|---|
| `Futex` | kernel, external | the sets of sleepers a wake may choose |
| `AbstractLock`, `AbstractOnce` | - | what a lock and a one-time initialization promise |
| `BionicLock` | internal lock | the three values of the word, lock, trylock, unlock |
| `Semaphore` | semaphores | the word with the marker -1, waits with and without deadline, post |
| `PthreadMutex` | mutexes | the lock, counter and owner fields; normal, recursive, errorcheck; destroy and reuse |
| `PthreadRwlock` | read-write locks | the state word and the pending members; both preferences; deadlines |
| `PthreadCond` | condition variables | the state word and the waiter count, used around an abstract mutex |
| `PthreadBarrier` | barriers | cycles that overlap, and destroy |
| `CxaGuard`, `PthreadOnce` | one-time initialization | the guard word; constructors that throw |
| `PthreadKey` | thread-specific data | the key map, the slots, the destructor rounds of an exiting thread |
| `ThreadLifecycle` | threads | create, start, exit, join, detach, the thread list, `android_run_on_all_threads`, the switch to the memtag-stack ABI |
| `SystemProperties` | system properties | one writing process; clients that read, wait and cache without locks |
| `Linker` | dynamic linker | load tasks, load groups in two namespaces, reference counts, failures, `dlclose`, thread-local destructors |
| `ProcessHandlers` | exit and fork handlers | the array of `__cxa_atexit`, recursive passes of `__cxa_finalize`, `exit`, the handlers around a `fork`, and what an unload does to both |
| `MallocDispatch` | malloc front end | the dispatch tables, the write-protected globals, the profiler's state machine, the limit, GWP-ASan |
| `ElfTls`, `StaticTlsLayout` | ELF TLS | module table, generations and DTVs under signals; where the static segments go on three architectures |
| `ResolverCache`, `ResolverStats` | resolver | the answer cache with its pending requests; the samples of the name servers and their revisions |
| `PosixTimers` | timers | one SIGEV_THREAD timer, its kernel timer and its thread |
| `Fdsan` | descriptors | the table of tags, its lock-free overflow part, close and vforked children |
| `WaitObjects`, `ProcessServices` | - | suites: several components in one specification (below) |
| `FutexObjects`, `MeetingObjects`, `ProcessTables`, `StaticTls` | - | hosts: they instantiate the components of the suites, with the assumptions on their constants; a suite and a module of proofs extend the same host |
| `Actors`, `SemaphoreParams`, `MutexParams` | - | constants and assumptions that components, hosts and proofs share |
| `FutexObjectsProofs`, `MeetingObjectsProofs`, `PthreadRwlockProofs`, `PthreadCondProofs`, `ThreadStorageProofs`, `ThreadLifecycleProofs`, `SystemPropertiesProofs`, `ProcessTablesProofs` | - | theorems |

**Suites.** `WaitObjects` and `ProcessServices` are sums of components that are
too small for a run each. They instantiate each component over its own variables
and add `subject`, which `Init` chooses: a behaviour of the suite is a behaviour
of its subject, and the other components keep their initial values. The reachable
states are the disjoint union of those of the components, every component is
explored in full, and a property of the suite is the conjunction of the
properties of that kind (for instance `NoForgottenSleeper` of the lock, the
semaphore, the mutex, the guard, `pthread_once` and the resolver).

In all of them `pc` is where a thread is between two accesses, and its values
are listed at the top of the module with the code they stand for. The other
variables carry the names of the fields of the code; history variables, which
no action reads, are marked as such. Definitions introduced by "A faulty
variant" are plausible mistakes in one action. They are part of no
specification; replacing the action by its variant makes the named property
fail, which shows that the property can tell.

**BionicLock, PthreadMutex.** `state` (or `lock`) is free, taken, or taken with a
possible sleeper. A thread that finds it taken writes the third value and sleeps
on it; whoever unlocks from the third value wakes one sleeper after the word is
free, so that a third thread can take it in between. For mutexes a deadline, a
signal or an invalid deadline ends the wait; the mutex can be destroyed when it
is free and initialised again as another type.

**PthreadRwlock.** The word has a writer bit, a reader count and two pending
bits. A thread that cannot enter registers itself under `pending_lock`, sets its
pending bit, and sleeps on a wakeup serial. Unlocking a lock with pending bits
hands over under `pending_lock` to one writer if any is counted, else to all
readers. Nested read locks and both preferences are included.

**PthreadCond.** Threads put items into a store and take them out under an
abstract mutex, wait while the store is empty, and pulse inside or outside the
mutex. The state word is a counter modulo `WordSize` with two flag bits.

**PthreadBarrier.** Threads go through `Cycles` cycles; the last one out of a cycle
opens the next. A thread that has returned may destroy the barrier, which waits for
those still leaving; that every such call returns is part of `CallsComplete`.

**PthreadKey.** A slot's sequence number is even when the slot is free. A value
or a destructor is the number of the key of the slot that it was made for, so
that a mix-up shows. Destructors may set values again, as the code allows.

**ThreadLifecycle.** A creator waits for `g_thread_creation_lock`, clones, adds
the child to the list and then releases it from its startup lock. An exiting
thread decides by its join state whether it frees itself. `join`, `detach` and
the exit meet in compare-and-swaps on that state. `android_run_on_all_threads`
holds the creation lock and the list lock, sends a signal to each listed thread
that is not terminating and waits for a semaphore for each signal sent. `tgkill`
may fail for any of them, and a function may fail in its thread; either makes the
run report failure.

**SystemProperties.** A value is two halves, because `memcpy` copies it piece by
piece. `Update` copies the old value to the backup area of its property area,
sets the dirty bit, copies the new value, stores the clean serial, wakes, and
counts the area's serial. A reader copies the value, or the backup if the serial
was dirty, and starts over when the serial has changed. A client either waits
for one property or keeps a `CachedProperty` and waits for any change.

**Linker.** Every operation holds `g_dl_mutex`, so one is under way at a time; its
steps are a load task, a local group or one call of `soinfo_unload`, and
destructors of other threads run in between. `Init` chooses any dependency graph
and a namespace for each file. `find_libraries` adds tasks breadth first, maps and
prelinks, makes a group of each root, and counts the references between groups;
each stage may fail, and then `find_library` unloads what there is.

**ProcessHandlers.** A callback runs without the lock, so a thread has a stack of
`__cxa_finalize` calls, each with its index and the number of appends it saw.
Callbacks register more, unload a library or call `exit`. A fork is followed in
the parent or in the child, where the thread has a new id and the mutex is made
anew.

**MallocDispatch.** A table is a name; what an allocation through it passes is
`Behind`. `mutate()` is an mprotect, the stores, and an mprotect. The handler of
the profiler's signal is one more thread, which takes no lock. In `services`
`Overlap` is FALSE: `mallopt(M_DECAY_TIME)` runs alone, see the findings.
`EnableGwpAsan` only looks at whether a table is installed, as the code does: it
also goes ahead when the profiler's state is `Installed` although its library
failed to load. `gwp` is then "late", and `AllocatorKept` asks of such a process
only that every table ends at an allocator (see the smaller observations).

**ElfTls.** Memory is reused at once, so that a stale pointer meets a block of
somebody else. A DTV that has grown stays until its thread exits. With `signals`
one thread's accesses nest; without, two threads run. Both TLSDESC, which compares
the module's first generation, and `__tls_get_addr`, which compares for equality
with libc's copy, are covered; the former is assembly (`linker/arch/*/tlsdesc_resolver.S`)
and is mapped with the C++ function of the same shape that it falls back to. The
size of a new DTV is a power of two of at most 16 words, which is enough for the
modules of the run. `StaticTlsLayout` computes the offsets of
`bionic_elf_tls.cpp` and compares them with what the ABI wants of each: alignment
with its skew, order around the thread pointer, closeness to it, no overlap.

**ResolverCache, ResolverStats.** What happens under `_res_cache_list_lock` is one
step. Queries may share a hash, which is all that the list of pending requests
compares. netd creates, flushes and deletes the cache at any time.

**PosixTimers.** The creator holds the handshake lock until the kernel timer
exists; the thread frees the structure when it is told to stop or the kernel timer
failed. `timer_delete` may come from any thread or from the callback.

**Fdsan.** `open` and `fcntl(F_DUPFD)` hand out any free descriptor below the
limit. The program closes each descriptor once with the tag it gave it, and may
lower its hard limit at any time, also below descriptors it has open. `at()`
computes the size of the overflow table from the limit it reads, rounded up to
pages with the header, and publishes it in a later step.

## Runs

| run | threads, bounds | distinct states | what it shows |
|---|---|---|---|
| `wait_objects` | 4 threads (mutex, resolver: 3), all mutex types on both builds, semaphore limit 2 and 3 posts, 3 barrier cycles, 2 queries with any hashes, a cache of 1 entry, 3 expiries of a timer | 179,555 | permits, owner, counter, cycles and pending requests stay exact; a sleeper is always covered by a mark or a wake, and nobody sleeps for ever while what it waits for is there; begun calls return, deleted timers are freed and no structure is read after that; lock and mutex refine `AbstractLock`, guard and once `AbstractOnce` |
| `rwlock` | 3 threads, 2 nested holds | 383,051 | `Inv`: a writer is alone, and the word, `writer_tid` and the pending members agree with what threads do; without deadlines nobody sleeps on a free lock |
| `rwlock_timeout_race` | 3 threads | - | the same with deadlines fails, see below |
| `cond` | 3 threads, 2 items, word of 12 values | 369,315 | unlock-and-wait is atomic for pulses and nobody sleeps on items forever |
| `key` | 2 threads, 2 slots, sequence numbers to 3 | 921,809 | the destructor called is that of the value's key; no value of a deleted key shows; nothing is left behind; exit ends |
| `threads` | main and 2 threads, 1 run on all threads | 591,983 | no mapping is used after it is unmapped, freed twice or leaked; a run that returns true has run its function in every thread that was not terminating, and one that failed for some thread returns false; each signal sent meets the handler; runs and joins end |
| `properties` | 2 properties, 2 updates, 1 client | 547,764 | a read returns a whole value that was current during the call and belongs to the serial; nobody in the main areas misses the last value |
| `linker` | every graph without loops of 3 libraries in 2 namespaces, 2 handles, 2 pending destructors | 3,404,796 | what is in use stays loaded, linked and initialised; group counts are exact between operations; nothing unused stays behind |
| `linker_loop` | every graph of 3 libraries, 1 handle | - | a loop below the opened library stays, see below |
| `services` | 2 threads, 1 library, 3 exit and 2 fork handlers, 1 fork; 2 TLS libraries, generations up to 4; 4 sizes, 6 alignments and 4 skews of segments; 3 threads and 3 descriptors for fdsan | 1,989,755 | callbacks run in reverse, never for an unloaded library, and forks pair their handlers; stores to the globals find them writable, allocations keep leading to GWP-ASan and the limit stays; TLS blocks are their thread's and their load's and do not move; layouts are sound; fdsan reports no descriptor below the limit |
| `globals_overlap` | 2 threads | - | a `mutate()` without the lock, see below |
| `resolver_stats` | 1 request, 2 servers | - | samples counted for another server, see below |

`TypeOK` of each module holds in its run too. It is part of the invariant `Inv`
of the modules that have one, and is not listed as a result of its own.

**Why the bounds are enough to be interesting.** Three threads are the least for
the races that matter in a lock: one that releases, one that sleeps and one that
barges in. Two generations of a key, two rounds of destructors, three cycles of a
barrier and two updates of a value are the least in which something old can be
taken for something new. A recursion limit of 1 lets a thread reach it. The word
of a condition variable has 12 values so that it wraps around in the run, while
`MaxMissed` keeps a waiter from missing a whole turn, as 2^30 pulses would take.
Clients of system properties do not change shared memory, so they cannot affect
each other and one is enough. Three libraries are the least for a dependency that
two share and for a loop below a root; two handles and two destructors let each
outlive the other. A page of one and a third exit entries makes the array grow and
recompact within three registrations. Four generations fill a TLS slot, free it
and fill it again. A cache of one entry is always at its limit. With one inline
descriptor of three and pages of three entries, most descriptors need the overflow
table, a table made for the first limit has a rounded-up end, and one made after
the limit is lowered to 1 still reaches above it. Symmetry is not used, since
most runs check liveness.

**Deadlock** is checked except in `threads`, `properties`, `services`,
`globals_overlap` and `resolver_stats`, where the threads may all be finished, the
process has ended, a layout is complete, or the writer is at its bound and all
clients are asleep. In `wait_objects` a subject that is done (a barrier after its
last cycle, a timer that is freed) stutters explicitly.

**Fairness.** `FairSpec` has weak fairness of each thread's own next step: the
scheduler runs every runnable thread. It never makes a thread begin a call
(except where a loop of calls is what the client does), a signal arrive or a
deadline pass. It holds for each thread that it leaves its critical section and
its constructor; without this no lock can promise anything. No fairness makes the
kernel choose a particular sleeper. The liveness properties are therefore of the
form "no thread sleeps forever while what it waits for stays available", and not
that each thread gets the lock: the locks of Bionic do not promise that.

## Findings

`rwlock_timeout_race`: a writer with a deadline wakes up with ETIMEDOUT, but
remains counted in `pending_writer_count` until it has `pending_lock` again. An
unlock in this window hands over to the writers, bumps their serial and wakes
none. The writer returns ETIMEDOUT without passing the hand-over on, and a reader
that was pending too sleeps on a free lock, until some later unlock finds its
pending bit. The comment at `pthread_rwlock.cpp:315` argues that the unlocking
thread will wake the waiter whose flag it sees. `HandoverReachesWaiter` states
that, and TLC shows the counterexample. Without deadlines the property holds
(`NobodySleepsOnFreeLock` in `rwlock`).

`linker_loop`: `soinfo_unload_impl` goes on to a child only when the child has no
parents left. When the opened library needs a loop that it is not part of, the
member it needs keeps its parent inside the loop, and the loop stays loaded for
good. The test `dlopen_check_loop` (`tests/dlfcn_test.cpp:718`) builds this very
graph "to make sure that the library was unloaded correctly", but asks for the
member of the loop under a name that no library has.

`globals_overlap`: the comment at `malloc_limit.cpp:284` says that all other code
that calls `mutate` grabs `gGlobalsMutateLock`. `mallopt(M_DECAY_TIME)`
(`malloc_common.cpp:134`) and heap tagging (`heap_tagging.cpp:58` and `117`) do
not. TLC shows the decay time's second mprotect making the page read-only between
another thread's first mprotect and its store. With all callers under the lock, or
with `mallopt` alone, `StoresFindPageOpen` holds (`services`).

`resolver_stats`: `res_nsend` copies the servers under the lock and reads the
revision later, under the lock again. A change of servers in between gives it old
servers and the new revision, so the revision does not keep its sample from being
counted for the wrong server, as the comment at `res_cache.c:2062` intends.

Smaller observations, each visible in the models but with no run of its own:

- the comment at `pthread_cond.cpp:44` says that a signal is lost after exactly
  `UINT_MAX/2` pulses, where the counter, which advances by 4, comes round after
  2^30;
- the last thread to leave a barrier reads `pshared` and `init_count` after the
  store that lets `pthread_barrier_destroy` go ahead;
- waiters on the override property areas are never woken;
- `_res_cache_clear_stats_locked` (`res_cache.c:2231`) clears the first server only,
  in a loop that does not use its index, so that `CountWithinMax` of
  `ResolverStats` fails once `max_samples` is lowered;
- step 5 of `find_libraries` says that a link that crosses a namespace boundary
  forms its own local group; it does not when the library is also reachable from a
  root that is linked earlier (`CrossingFormsGroup`), and libraries of a chain that
  leaves a namespace and returns can stay behind, which is why `UnusedAreUnloaded`
  has the premise `NoReturn`;
- GWP-ASan enabled by a zygote's child whose profiler failed to load at start is
  not behind the table that a later reset restores (`gwp` is "late");
- `fdsan.cpp:77` says that a descriptor above a lowered limit is ignored. An overflow
  table created afterwards is rounded up to pages and has an entry for it: a tag
  given while there was no table is then missing at close, and the descriptor is
  reported. `NoFalseAlarm` is therefore about descriptors below the limit;
- `pthread_atfork.cpp:118` says that nobody can modify the handler array during a
  fork; a handler of the forking thread can, since the mutex is recursive, and the
  new handler's parent or child function runs without its prepare. A handler that
  unloads a library, and so removes entries under the walk, is left out;
- unregistering a TLS module does not advance the generation
  (`bionic_elf_tls.h:160`), so that a freed slot is noticed when it is reused;
- a timer's callback can begin once after `timer_delete` has returned.

## Proofs

TLAPS proves the following for every set of threads and every value of the
constants, from the assumptions named in the modules. These say that limits and
bounds are natural numbers, that markers such as `NoThread` are none of the
things they mark the absence of, that the set of threads is finite where threads
are counted, and, for the layout, that of two alignments the greater is a multiple
of the smaller, as powers of two are. TLC evaluates them in the runs.

| module | theorems about what a run checks | other results |
|---|---|---|
| `FutexObjectsProofs` | `EveryPermitConserved`, `NoWakeupLost`, `MutexFieldsAlwaysExact`, `NobodyEverOrphaned`, `LocksImplementAbstractLock`, `InitializersImplementAbstractOnce` | mutual exclusion of lock and mutex, one constructor at a time, and each of the former per object |
| `MeetingObjectsProofs` | `CyclesStayApart` (barrier), `TimerAlwaysOutlives` | `CacheNobodyWaitsForNobody`, a part of `RequestsAccounted` |
| `PthreadRwlockProofs` | `RwlockInvariant`, `RwlockHandover` | |
| `PthreadCondProofs` | `CondNoSignalLost` | |
| `ThreadStorageProofs` | `KeyDestructor`, `KeyValue`, `KeyCleanup`; `LayoutAlwaysSound` | |
| `ThreadLifecycleProofs` | `UnmappedIsOutOfUse`, `NothingEverLeaked`, `RunAlwaysComplete` | `ThreadsInvariant` |
| `SystemPropertiesProofs` | `TrioAlwaysConsistent`, `ReadsAlwaysCurrent` | `PropertiesInvariant` |
| `ProcessTablesProofs` | `PageOpenAtStores`, `LimitNeverSwappedOut`, `AllocatorAlwaysKept`; `NeverFalseAlarm` | `MallocControlled`, `MallocInvariant` |

The theorems about a component of a suite have its specification as hypothesis
(`Mutex!Spec => []FieldsExact`); a behaviour of the suite is one of its subject.
The three malloc theorems have the hypothesis `~Overlap`: `mallopt(M_DECAY_TIME)`
does not run while another thread changes the tables. Without it `globals_overlap`
is a counterexample. `RwlockHandover` is about calls without deadlines, as
`NobodySleepsOnFreeLock` is; `rwlock_timeout_race` shows why.

The proofs have one shape. The inductive invariant `Inv` of the component is the
conjunction of its type invariant, its safety properties and what these need;
none of the properties is inductive alone. `InitInv` and `NextInv`, with one step
for each action or group of actions that move the same things, give
`Spec => []Inv`, from which the properties follow. Each `Inv` also holds as an
invariant of its component's run; only `rwlock`, where it is the property itself,
lists it.

- *Locks, semaphore, one-time initialization.* Mutual exclusion needs the word to
  say that the lock is taken whenever somebody holds it, and that a sleeper is
  covered needs mutual exclusion, because the cover may be the wake that the one
  holder owes. For mutexes `LocationsAgree` adds which locations go with which depth
  and type. The refinements use a lemma that the mapped owner changes only when a
  thread enters or leaves its holding locations, and map each action to an abstract
  step or a stutter. The abstract modules are shared, so the mutex inside
  `PthreadCond` is the one `PthreadMutex` is proved to implement.
- *Barrier, timer, resolver.* `CountExact` counts the threads inside a cycle, with
  the cardinality theorems; a timer's `Handshake` and `FreedLast` say who may still
  read the structure at each stage of its creation and deletion.
- *Read-write lock.* The reader count is the number of holds, the pending counts
  the numbers of registered threads; `HandoverUnderway` says that while somebody
  waits on a free lock, some thread owes a hand-over or a wake, or is itself about to
  take the lock.
- *Condition variable.* `WordKept` says how far the word has moved on since a waiter
  loaded it, so that a pulse since then makes `futex_wait` return; `PulsesToCome`
  says that for a waiter no pulse has reached there is one on its way for each item.
- *Keys.* `CleaningOne` relates the sequence number an exiting thread compared, the
  destructor it loaded and the key they were made for; `RoundSoFar` says which
  slots a round without a call has found clean.
- *TLS layout.* Facts about rounding up to an alignment with a skew are proved
  first; then each of the three ways to place the executable's segment is sound,
  and a further reservation keeps what is placed apart.
- *Threads.* `ThreadInv` ties the join state, the list, the mapping and the places of
  a thread, its creator and its joiner together; `RunInStep` says that each signal
  sent is still pending or counted in the semaphore, that whoever is not terminating
  has run the function, has the signal pending or could not be reached, and that
  `g_retval` is false once somebody could not be reached or failed.
- *System properties.* `WriterInv` says what main copy, backup and serial hold at each
  place of the writer; a reader's invariant is stable under what the writer may do
  (`RelyKeeps`), which keeps the proof from multiplying readers by steps.
- *malloc.* `Control` says that one operation at a time is between the exchange and
  the release, and that it has opened the page. `StateAgrees` and `TablesLead` then
  say, for each state of the profiler, which table is remembered and that every
  table leads to an allocator.
- *fdsan.* `TablesFit` says that a table, once its size is computed, covers every
  descriptor below the limit, also below a limit that is lowered before the table is
  published; `TagsAgree` says that the tags in the table are exactly those of the
  owners, as far as their descriptors are below the limit.

Only model-checked are
- all liveness properties: TLAPS has no support here for fairness and ENABLED;
- `CalledInReverse`, `NothingOfUnloaded` and the bound on the entries in
  `RequestsAccounted`, which rest on what `SelectSeq` computes for every sequence,
  an induction over data, and `ForkIsPaired`, whose walks are over the same lists;
- `TlsBlocksKept` and `AddressIsStable`, which need that a growing DTV and a set of
  reused blocks never run out of room;
- the linker, whose groups are what a walk of any length over the graph finds,
  again an induction over data.

The four runs with an expected violation need no proof: the counterexample is one.

## Not modelled

`PROJECT.json` lists every part with the reason. The map
covers some 6,300 lines, about one in twenty of the 130,000 lines of C and C++
source files outside tests and benchmarks; headers, assembly and generated tables
come on top of these. Most of the rest is imported from the BSDs and FreeBSD's
libm, stateless wrappers of system calls and text processing, which have no state
that steps of several actors could get wrong.
Within the parts that are modelled these are left out:

- weak memory orders, and the wrap-around of 24-, 30- and 32-bit counters: 2^30
  pulses while a waiter is preempted (`pthread_cond.cpp:178`), 2^23 updates within
  one read (`system_properties.cpp:337`);
- page protections of thread stacks: a mapping made before the switch to the
  memtag-stack ABI and listed after it (`pthread_create.cpp:257`);
- the trie of a property area growing under its readers, and read-only properties;
- priority-inheritance mutexes, whose lock and unlock are the kernel's;
- in the linker: the start of the program, LD_PRELOAD, RTLD_NOLOAD, constructors and
  destructors that call `dlopen`, ELF parsing and relocation, paths and allow-lists;
- fdsan's error levels and fdtrack's hook; heap tagging; the counting of the
  allocation limit; the DNS protocol, its servers' usability and address sorting;
- filters of property names and files (`custom_rom_hide.cpp`), which no other thread
  takes part in.

## Plan

1. Done: the futex-based objects and their proofs, one-time initialization, keys,
   the life of threads, system properties, the linker's groups and counts, exit
   and fork handlers, malloc dispatch, TLS, fdsan, timers, the resolver's cache.
2. Proofs: `RequestsAccounted` with its bound on the entries, `TlsBlocksKept` and
   `RefCountExact`.
3. PI mutexes with their table of ids, the trie of a property area, page
   protections in `ThreadLifecycle`, pure functions (sleb128, UTF-8) against
   reference definitions.

Compositions: the read-write locks of `ThreadLifecycle` and the internal lock in
`PthreadRwlock` are used through what their own modules establish. `PosixTimers`
has the steps of the internal lock itself, because the lock's memory is freed by
the thread that waits for it. `ProcessHandlers` joins exit handlers, fork handlers
and the unloading of libraries; `Linker` joins loading and thread exit.
