--------------------------- MODULE ResolverCache ---------------------------
(***************************************************************************)
(* The DNS answer cache of one network, libc/dns/resolv/res_cache.c, and    *)
(* the part of res_nsend (res_send.c) that drives it: look the query up; on *)
(* a miss either wait for a thread that already asks the same question or   *)
(* ask it oneself, and then add the answer or report the failure.           *)
(*                                                                          *)
(* Everything under _res_cache_list_lock is one step; a wait on a pending   *)
(* request gives the lock up and takes it again.  The hash table and the    *)
(* MRU list hold the same entries, so the list stands for both.  A pending  *)
(* request is known by its query's hash, which several queries may share.   *)
(***************************************************************************)
EXTENDS Naturals, Sequences, FiniteSets

CONSTANTS
  Threads,
  Queries,
  NoQuery,
  Hashes,
  MaxEntries,     \* cache->max_entries (640 in the source)
  MaxTime         \* bound: the last second of the clock

VARIABLES
  hash,           \* the hash of each query, chosen at the start
  exists,         \* the network has a cache
  mru,            \* its entries, the most recently used first
  pending,        \* the hashes in its list of pending requests
  now,
  pc, query,      \* what each thread does, and for which query
  status          \* what the lookup told it: "notfound" or "unsupported"

cache == <<exists, mru, pending>>
vars == <<hash, cache, now, pc, query, status>>

Ttls == {0, 1}    \* 0: an answer that is not to be cached

TypeOK ==
  /\ hash \in [Queries -> Hashes]
  /\ exists \in BOOLEAN
  /\ mru \in Seq([query : Queries, expires : 0 .. MaxTime + 1])
  /\ pending \subseteq Hashes
  /\ now \in 0 .. MaxTime
  /\ pc \in [Threads -> {"idle", "waiting", "woken", "asking"}]
  /\ query \in [Threads -> Queries \cup {NoQuery}]
  /\ status \in [Threads -> {"none", "notfound", "unsupported"}]

Init ==
  /\ hash \in [Queries -> Hashes]
  /\ exists = FALSE /\ mru = <<>> /\ pending = {}
  /\ now = 0
  /\ pc = [t \in Threads |-> "idle"]
  /\ query = [t \in Threads |-> NoQuery]
  /\ status = [t \in Threads |-> "none"]

Cached == {mru[i].query : i \in DOMAIN mru}
EntryOf(q) == CHOOSE e \in {mru[i] : i \in DOMAIN mru} : e.query = q
Without(list, e) == SelectSeq(list, LAMBDA x : x # e)

Become(t, at, q, s) ==
  /\ pc' = [pc EXCEPT ![t] = at]
  /\ query' = [query EXCEPT ![t] = q]
  /\ status' = [status EXCEPT ![t] = s]

(* The waiters of the pending requests in gone are woken as those go.       *)
Notified(gone) == [t \in Threads |-> IF pc[t] = "waiting" /\ hash[query[t]] \in gone THEN "woken" ELSE pc[t]]

(***************************************************************************)
(* The second half of _resolv_cache_lookup, on an entry that was found: a   *)
(* stale one is dropped, one that does not fit the caller's buffer is left, *)
(* any other is copied out and moves to the front.                          *)
(***************************************************************************)
UseEntry(t, q) ==
  LET e == EntryOf(q) IN
  \/ /\ now >= e.expires
     /\ mru' = Without(mru, e)
     /\ Become(t, "asking", q, "notfound")
  \/ /\ now < e.expires
     /\ Become(t, "asking", q, "unsupported")
     /\ UNCHANGED mru
  \/ /\ now < e.expires
     /\ mru' = <<e>> \o Without(mru, e)
     /\ Become(t, "idle", NoQuery, "none")

(***************************************************************************)
(* _resolv_cache_lookup up to its wait.  A miss whose hash is pending waits *)
(* for it; any other becomes pending itself, unless there is no memory.     *)
(***************************************************************************)
Lookup(t, q) ==
  /\ pc[t] = "idle"
  /\ \/ ~exists /\ Become(t, "asking", q, "unsupported") /\ UNCHANGED <<mru, pending>>
     \/ exists /\ q \in Cached /\ UseEntry(t, q) /\ UNCHANGED pending
     \/ /\ exists /\ q \notin Cached
        /\ IF hash[q] \in pending
           THEN Become(t, "waiting", q, "none") /\ UNCHANGED pending
           ELSE pending' \in {pending, pending \cup {hash[q]}} /\ Become(t, "asking", q, "notfound")
        /\ UNCHANGED mru
  /\ UNCHANGED <<hash, exists, now>>

(* The wait of PENDING_REQUEST_TIMEOUT seconds runs out.                    *)
WaitTimesOut(t) ==
  /\ pc[t] = "waiting"
  /\ pc' = [pc EXCEPT ![t] = "woken"]
  /\ UNCHANGED <<hash, cache, now, query, status>>

(* After the wait: the network's cache is looked up again, as it may be     *)
(* gone, and so is the entry.                                               *)
Resume(t) ==
  /\ pc[t] = "woken"
  /\ \/ exists /\ query[t] \in Cached /\ UseEntry(t, query[t])
     \/ ~(exists /\ query[t] \in Cached) /\ Become(t, "asking", query[t], "notfound") /\ UNCHANGED mru
  /\ UNCHANGED <<hash, exists, pending, now>>

(***************************************************************************)
(* The end of res_nsend.  _cache_notify_waiting_tid_locked drops the        *)
(* pending request of the query's hash and wakes its waiters.               *)
(***************************************************************************)
Finish(t) ==
  /\ pending' = pending \ {hash[query[t]]}
  /\ pc' = [Notified({hash[query[t]]}) EXCEPT ![t] = "idle"]
  /\ query' = [query EXCEPT ![t] = NoQuery]
  /\ status' = [status EXCEPT ![t] = "none"]

Fresh == SelectSeq(mru, LAMBDA e : now < e.expires)
Room == CASE Len(mru) < MaxEntries   -> mru
          [] Len(Fresh) < MaxEntries -> Fresh
          [] OTHER                   -> SubSeq(Fresh, 1, Len(Fresh) - 1)

(* A faulty variant of CacheAdd: it makes no room.                          *)
CacheAddNoRoom(t, ttl) ==
  /\ pc[t] = "asking" /\ status[t] = "notfound"
  /\ mru' = IF ~exists \/ query[t] \in Cached \/ ttl = 0 THEN mru
            ELSE <<[query |-> query[t], expires |-> now + ttl]>> \o mru
  /\ Finish(t)
  /\ UNCHANGED <<hash, exists, now>>

CacheAdd(t, ttl) ==
  /\ pc[t] = "asking" /\ status[t] = "notfound"
  /\ mru' = IF ~exists \/ query[t] \in Cached THEN mru
            ELSE IF ttl = 0 THEN Room
            ELSE <<[query |-> query[t], expires |-> now + ttl]>> \o Room
  /\ Finish(t)
  /\ UNCHANGED <<hash, exists, now>>

(* An answer to a query the cache does not support is not added.            *)
AnswerUncached(t) ==
  /\ pc[t] = "asking" /\ status[t] = "unsupported"
  /\ Become(t, "idle", NoQuery, "none")
  /\ UNCHANGED <<hash, cache, now>>

(* A faulty variant of QueryFailed: nobody is told.                         *)
QueryFailedSilently(t) ==
  /\ pc[t] = "asking"
  /\ Become(t, "idle", NoQuery, "none")
  /\ UNCHANGED <<hash, cache, now>>

QueryFailed(t) ==
  /\ pc[t] = "asking"
  /\ Finish(t)
  /\ UNCHANGED <<hash, exists, mru, now>>

(***************************************************************************)
(* netd: _resolv_set_nameservers_for_net creates the network's cache,       *)
(* _resolv_flush_cache_for_net empties it, _resolv_delete_cache_for_net     *)
(* frees it.  Both of the latter wake every waiter and drop every pending   *)
(* request.                                                                 *)
(***************************************************************************)
SetNameservers ==
  /\ ~exists
  /\ exists' = TRUE
  /\ UNCHANGED <<hash, mru, pending, now, pc, query, status>>

(* A faulty variant of Emptied: the waiters are left to their timeouts.     *)
EmptiedSilently ==
  /\ mru' = <<>> /\ pending' = {}
  /\ UNCHANGED pc

Emptied ==
  /\ mru' = <<>> /\ pending' = {}
  /\ pc' = Notified(pending)

FlushCache ==
  /\ exists
  /\ Emptied
  /\ UNCHANGED <<hash, exists, now, query, status>>

DeleteCache ==
  /\ exists
  /\ exists' = FALSE
  /\ Emptied
  /\ UNCHANGED <<hash, now, query, status>>

Tick ==
  /\ now < MaxTime
  /\ now' = now + 1
  /\ UNCHANGED <<hash, cache, pc, query, status>>

(* What a thread does once it is asking or woken, whatever the others do.   *)
Proceed(t) ==
  \/ Resume(t)
  \/ \E ttl \in Ttls : CacheAdd(t, ttl)
  \/ AnswerUncached(t)
  \/ QueryFailed(t)

Next ==
  \/ \E t \in Threads : (\E q \in Queries : Lookup(t, q)) \/ WaitTimesOut(t) \/ Proceed(t)
  \/ SetNameservers \/ FlushCache \/ DeleteCache
  \/ Tick

(***************************************************************************)
(* A request ends (every server answers or times out) and a woken thread    *)
(* runs on.  Nothing is assumed of the timeout of a wait, nor of netd.      *)
(***************************************************************************)
Fairness == \A t \in Threads : WF_vars(Proceed(t))
Spec == Init /\ [][Next]_vars /\ Fairness

-----------------------------------------------------------------------------
(***************************************************************************)
(* A thread that waits, waits for a request which is still listed, and a    *)
(* listed request has a thread that asks for it: nobody is left to the      *)
(* timeout because the thread it waits for has already been and gone.       *)
(***************************************************************************)
NobodyWaitsForNobody ==
  /\ \A t \in Threads : pc[t] = "waiting" => hash[query[t]] \in pending
  /\ \A h \in pending : \E t \in Threads : pc[t] = "asking" /\ hash[query[t]] = h

(***************************************************************************)
(* The inductive form: the thread that asks for a listed request was told   *)
(* so by its lookup, so that it cannot end without reporting, and a thread  *)
(* that waits or asks has a query.                                          *)
(***************************************************************************)
RequestsListed ==
  /\ hash \in [Queries -> Hashes] /\ query \in [Threads -> Queries \cup {NoQuery}]
  /\ pc \in [Threads -> {"idle", "waiting", "woken", "asking"}]
  /\ status \in [Threads -> {"none", "notfound", "unsupported"}]
  /\ \A t \in Threads : pc[t] # "idle" => query[t] \in Queries
  /\ \A t \in Threads : pc[t] = "waiting" => hash[query[t]] \in pending
  /\ \A h \in pending : \E t \in Threads : pc[t] = "asking" /\ status[t] = "notfound" /\ hash[query[t]] = h

(***************************************************************************)
(* The cache never outgrows its table, holds one answer per query, and a    *)
(* network without a cache keeps nothing.                                   *)
(***************************************************************************)
CacheBounded ==
  /\ Len(mru) <= MaxEntries
  /\ Cardinality(Cached) = Len(mru)
  /\ ~exists => mru = <<>> /\ pending = {}

(***************************************************************************)
(* Every wait for another thread's request ends without its timeout.        *)
(***************************************************************************)
WaitersResume == \A t \in Threads : []<>(pc[t] # "waiting")
=============================================================================
