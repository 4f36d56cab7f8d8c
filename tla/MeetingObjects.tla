--------------------------- MODULE MeetingObjects ---------------------------
(***************************************************************************)
(* The objects of libc in which threads do a thing together: a barrier,    *)
(* the cache of the resolver, where a thread waits for the request of      *)
(* another one, and a timer with its thread.  Each is an instance of its   *)
(* module, over variables of its own.                                      *)
(***************************************************************************)
EXTENDS Integers, Sequences, FiniteSets, Actors

CONSTANTS
  Cycles,                                         \* Of the barrier.
  Users,                                          \* The threads that use the resolver.
  Queries, NoQuery, Hashes, MaxEntries, MaxTime,
  MaxFires                                        \* Of the timer.

ASSUME MeetingObjectsAssumption ==
  /\ IsFiniteSet(Threads) /\ Threads # {}
  /\ NoQuery \notin Queries /\ Hashes # {}
  /\ {Cycles, MaxEntries, MaxTime, MaxFires} \subseteq Nat

VARIABLES
  barrier_init_count, barrier_state, barrier_wait_count, barrier_pc, entered, returned,
  cache_hash, cache_exists, cache_mru, cache_pending, cache_now, cache_pc, cache_query,
  cache_status,
  timer_timer, timer_lock, timer_kernel, timer_deleted, timer_creator,
  timer_thread, timer_deleter, timer_self, timer_signals, timer_fires, timer_late

barrier == <<barrier_init_count, barrier_state, barrier_wait_count, barrier_pc, entered, returned>>
cache ==
  <<cache_hash, cache_exists, cache_mru, cache_pending, cache_now, cache_pc,
    cache_query, cache_status>>
timer ==
  <<timer_timer, timer_lock, timer_kernel, timer_deleted, timer_creator,
    timer_thread, timer_deleter, timer_self, timer_signals, timer_fires, timer_late>>

Barrier == INSTANCE PthreadBarrier
             WITH init_count <- barrier_init_count, state <- barrier_state,
                  wait_count <- barrier_wait_count, pc <- barrier_pc
Cache == INSTANCE ResolverCache
           WITH Threads <- Users, hash <- cache_hash, exists <- cache_exists,
                mru <- cache_mru, pending <- cache_pending, now <- cache_now,
                pc <- cache_pc, query <- cache_query, status <- cache_status
Timer == INSTANCE PosixTimers
           WITH timer <- timer_timer, lock <- timer_lock, kernel <- timer_kernel,
                deleted <- timer_deleted, creator <- timer_creator,
                thread <- timer_thread, deleter <- timer_deleter,
                self <- timer_self, signals <- timer_signals,
                fires <- timer_fires, late <- timer_late

-----------------------------------------------------------------------------
(***************************************************************************)
(* Nobody returns from a cycle of a barrier before everybody entered it,   *)
(* and no thread of the next cycle is turned away by the last one.         *)
(***************************************************************************)
CyclesApart == Barrier!NobodyReturnsEarly /\ Barrier!NobodyTurnedAway

(***************************************************************************)
(* A thread that waits for another thread's request to a name server has   *)
(* one to wait for: the request is still pending and its asker under way,  *)
(* whatever flushes, failures, hash collisions and deletions of the cache  *)
(* come between.  The cache never exceeds its limit.                       *)
(***************************************************************************)
RequestsAccounted == Cache!NobodyWaitsForNobody /\ Cache!CacheBounded

(***************************************************************************)
(* The structure of a timer is there while timer_create, the timer's       *)
(* thread or timer_delete still uses it, and at most one callback begins   *)
(* after timer_delete has returned.                                        *)
(***************************************************************************)
TimerOutlivesItsUsers == Timer!TimerOutlivesItsUsers
=============================================================================
