------------------------ MODULE MeetingObjectsProofs ------------------------
(***************************************************************************)
(* Proofs about the objects of MeetingObjects, each for every set of       *)
(* threads and every value of the other parameters: the inductive          *)
(* invariant of each object, and what follows from it.                     *)
(***************************************************************************)
EXTENDS MeetingObjects, TLAPS

-----------------------------------------------------------------------------
(*  The cache of the resolver (ResolverCache).                             *)

(***************************************************************************)
(* The accounting of requests holds when no network has a cache yet.       *)
(***************************************************************************)
LEMMA CacheInitRequests == Cache!Init => Cache!RequestsListed
  BY DEF Cache!Init, Cache!RequestsListed

(***************************************************************************)
(* One thread turns to another query, or to none, while requests are only  *)
(* added, and only with it as the thread that asks.                        *)
(***************************************************************************)
LEMMA CacheRequestsAfter ==
  ASSUME Cache!RequestsListed, UNCHANGED cache_hash, NEW t \in Users,
           NEW at \in {"idle", "waiting", "woken", "asking"},
         NEW q \in Queries \cup {NoQuery}, NEW s \in {"none", "notfound", "unsupported"},
         Cache!Become(t, at, q, s), at # "idle" => q \in Queries, at = "waiting"
           => cache_hash[q] \in cache_pending,
         cache_pc[t] = "asking" => cache_status[t] # "notfound",
         \/ cache_pending' = cache_pending
         \/ cache_pending' = cache_pending \cup {cache_hash[q]} /\ at = "asking" /\ s = "notfound"
  PROVE  Cache!RequestsListed'
<1>1. /\ \A u \in Users \ {t} : cache_pc'[u] = cache_pc[u] /\ cache_query'[u] = cache_query[u]
           /\ cache_status'[u] = cache_status[u]
      /\ cache_pc'[t] = at /\ cache_query'[t] = q /\ cache_status'[t] = s
      /\ cache_query' \in [Users -> Queries \cup {NoQuery}]
      /\ cache_pc' \in [Users -> {"idle", "waiting", "woken", "asking"}]
      /\ cache_status' \in [Users -> {"none", "notfound", "unsupported"}]
  BY DEF Cache!Become, Cache!RequestsListed
<1>2. \A u \in Users : cache_pc'[u] # "idle" => cache_query'[u] \in Queries
  BY <1>1 DEF Cache!RequestsListed
<1>3. \A u \in Users : cache_pc'[u] = "waiting" => cache_hash[cache_query'[u]] \in cache_pending'
  BY <1>1 DEF Cache!RequestsListed
<1>4. ASSUME NEW h \in cache_pending'
      PROVE  \E u \in Users : cache_pc'[u] = "asking" /\ cache_status'[u] = "notfound"
               /\ cache_hash[cache_query'[u]] = h
  <2>1. CASE h \in cache_pending
    <3>1. PICK u \in Users : cache_pc[u] = "asking" /\ cache_status[u] = "notfound"
                 /\ cache_hash[cache_query[u]] = h
      BY <2>1 DEF Cache!RequestsListed
    <3>2. u # t
      BY <3>1
    <3>3. QED
      BY <1>1, <3>1, <3>2
  <2>2. CASE h \notin cache_pending
    BY <1>1, <1>4, <2>2
  <2>3. QED
    BY <2>1, <2>2
<1>5. QED
  BY <1>1, <1>2, <1>3, <1>4 DEF Cache!RequestsListed

(***************************************************************************)
(* A thread that reports the end of its request drops it from the list and *)
(* wakes those that wait for it.                                           *)
(***************************************************************************)
LEMMA CacheFinishRequests ==
  ASSUME Cache!RequestsListed, UNCHANGED cache_hash, NEW t \in Users, Cache!Finish(t)
  PROVE  Cache!RequestsListed'
<1>1. /\ \A u \in Users \ {t} :
           /\ cache_pc'[u] = IF cache_pc[u] = "waiting"
                /\ cache_hash[cache_query[u]] = cache_hash[cache_query[t]]
                       THEN "woken" ELSE cache_pc[u]
           /\ cache_query'[u] = cache_query[u] /\ cache_status'[u] = cache_status[u]
      /\ cache_pc'[t] = "idle" /\ cache_query'[t] = NoQuery /\ cache_status'[t] = "none"
      /\ cache_query' \in [Users -> Queries \cup {NoQuery}]
      /\ cache_pc' \in [Users -> {"idle", "waiting", "woken", "asking"}]
      /\ cache_status' \in [Users -> {"none", "notfound", "unsupported"}]
      /\ cache_pending' = cache_pending \ {cache_hash[cache_query[t]]}
  BY DEF Cache!Finish, Cache!Notified, Cache!RequestsListed
<1>2. ASSUME NEW h \in cache_pending'
      PROVE  \E u \in Users : cache_pc'[u] = "asking" /\ cache_status'[u] = "notfound"
               /\ cache_hash[cache_query'[u]] = h
  <2>1. PICK u \in Users : cache_pc[u] = "asking" /\ cache_status[u] = "notfound"
               /\ cache_hash[cache_query[u]] = h
    BY <1>1, <1>2 DEF Cache!RequestsListed
  <2>2. u # t
    BY <1>1, <1>2, <2>1
  <2>3. QED
    BY <1>1, <2>1, <2>2
<1>3. \A u \in Users :
        /\ cache_pc'[u] # "idle" => cache_query'[u] \in Queries
        /\ cache_pc'[u] = "waiting" => cache_hash[cache_query'[u]] \in cache_pending'
  BY <1>1 DEF Cache!RequestsListed
<1>4. QED
  BY <1>1, <1>2, <1>3 DEF Cache!RequestsListed

(***************************************************************************)
(* Every step of the resolver and of netd preserves the accounting.        *)
(***************************************************************************)
LEMMA CacheNextRequests == Cache!RequestsListed /\ [Cache!Next]_(Cache!vars) => Cache!RequestsListed'
<1> SUFFICES ASSUME Cache!RequestsListed, [Cache!Next]_(Cache!vars) PROVE Cache!RequestsListed'
  OBVIOUS
<1>1. ASSUME NEW t \in Users, NEW q \in Queries, Cache!Lookup(t, q) PROVE Cache!RequestsListed'
  <2>0. cache_pc[t] = "idle" /\ UNCHANGED cache_hash
    BY <1>1 DEF Cache!Lookup
  <2>1. \/ Cache!Become(t, "asking", q, "unsupported") /\ cache_pending' = cache_pending
        \/ Cache!Become(t, "asking", q, "notfound")
             /\ cache_pending' \in {cache_pending, cache_pending \cup {cache_hash[q]}}
        \/ Cache!Become(t, "idle", NoQuery, "none") /\ cache_pending' = cache_pending
        \/ Cache!Become(t, "waiting", q, "none") /\ cache_hash[q] \in cache_pending
             /\ cache_pending' = cache_pending
    BY <1>1 DEF Cache!Lookup, Cache!UseEntry
  <2>2. QED
    BY <2>0, <2>1, CacheRequestsAfter
<1>2. ASSUME NEW t \in Users, Cache!Resume(t) PROVE Cache!RequestsListed'
  <2>0. cache_pc[t] = "woken" /\ UNCHANGED <<cache_hash, cache_pending>> /\ cache_query[t] \in Queries
    BY <1>2 DEF Cache!Resume, Cache!RequestsListed
  <2>1. \/ Cache!Become(t, "asking", cache_query[t], "unsupported")
        \/ Cache!Become(t, "asking", cache_query[t], "notfound")
        \/ Cache!Become(t, "idle", NoQuery, "none")
    BY <1>2 DEF Cache!Resume, Cache!UseEntry
  <2>2. QED
    BY <2>0, <2>1, CacheRequestsAfter
<1>3. ASSUME NEW t \in Users, Cache!WaitTimesOut(t) PROVE Cache!RequestsListed'
  BY <1>3 DEF Cache!WaitTimesOut, Cache!cache, Cache!RequestsListed
<1>4. ASSUME NEW t \in Users, NEW ttl \in Cache!Ttls, Cache!CacheAdd(t, ttl) PROVE Cache!RequestsListed'
  BY <1>4, CacheFinishRequests DEF Cache!CacheAdd
<1>5. ASSUME NEW t \in Users, Cache!AnswerUncached(t) PROVE Cache!RequestsListed'
  <2>1. cache_status[t] = "unsupported" /\ Cache!Become(t, "idle", NoQuery, "none")
          /\ UNCHANGED <<cache_hash, cache_pending>>
    BY <1>5 DEF Cache!AnswerUncached, Cache!cache
  <2>2. QED
    BY <2>1, CacheRequestsAfter
<1>6. ASSUME NEW t \in Users, Cache!QueryFailed(t) PROVE Cache!RequestsListed'
  BY <1>6, CacheFinishRequests DEF Cache!QueryFailed
<1>7. CASE Cache!FlushCache \/ Cache!DeleteCache
  <2>1. cache_pending' = {} /\ cache_pc' = Cache!Notified(cache_pending)
          /\ UNCHANGED <<cache_hash, cache_query, cache_status>>
    BY <1>7 DEF Cache!FlushCache, Cache!DeleteCache, Cache!Emptied
  <2>2. \A t \in Users : cache_pc'[t] = IF cache_pc[t] = "waiting" THEN "woken" ELSE cache_pc[t]
    BY <2>1 DEF Cache!Notified, Cache!RequestsListed
  <2>3. cache_pc' \in [Users -> {"idle", "waiting", "woken", "asking"}]
    BY <2>1 DEF Cache!Notified, Cache!RequestsListed
  <2>4. QED
    BY <2>1, <2>2, <2>3 DEF Cache!RequestsListed
<1>8. CASE Cache!SetNameservers \/ Cache!Tick \/ UNCHANGED Cache!vars
  BY <1>8 DEF Cache!SetNameservers, Cache!Tick, Cache!vars, Cache!cache, Cache!RequestsListed
<1>9. QED
  BY <1>1, <1>2, <1>3, <1>4, <1>5, <1>6, <1>7, <1>8 DEF Cache!Next, Cache!Proceed

(***************************************************************************)
(* Nobody waits for a request that nobody makes.                           *)
(***************************************************************************)
THEOREM CacheNobodyWaitsForNobody == Cache!Spec => []Cache!NobodyWaitsForNobody
<1>1. Cache!RequestsListed => Cache!NobodyWaitsForNobody
  BY DEF Cache!RequestsListed, Cache!NobodyWaitsForNobody
<1>2. QED
  BY CacheInitRequests, CacheNextRequests, <1>1, PTL DEF Cache!Spec

-----------------------------------------------------------------------------
(*  A timer and its thread (PosixTimers).                                  *)

(***************************************************************************)
(* Before timer_create the inductive invariant of a timer holds.           *)
(***************************************************************************)
LEMMA TimerInitInv == Timer!Init => Timer!Inv
<1> SUFFICES ASSUME Timer!Init PROVE Timer!Inv
  OBVIOUS
<1>1. Timer!TypeOK
  <2>1. {timer_deleted, timer_self} \subseteq BOOLEAN
    BY Zenon DEF Timer!Init
  <2>2. QED
    BY <2>1, MeetingObjectsAssumption DEF Timer!Init, Timer!TypeOK
<1>2. Timer!Handshake /\ Timer!FreedLast /\ Timer!OneLate
  BY DEF Timer!Init, Timer!Handshake, Timer!FreedLast, Timer!OneLate
<1>3. QED
  BY <1>1, <1>2 DEF Timer!Inv

(***************************************************************************)
(* Every step of timer_create, timer_delete, the thread and the kernel     *)
(* preserves it.                                                           *)
(***************************************************************************)
LEMMA TimerNextInv == Timer!Inv /\ [Timer!Next]_(Timer!vars) => Timer!Inv'
<1> SUFFICES ASSUME Timer!Inv, [Timer!Next]_(Timer!vars) PROVE Timer!Inv'
  OBVIOUS
<1>s. <<>> \in Seq({"SI_TIMER", "SI_TKILL"}) /\ <<"SI_TIMER">> \in Seq({"SI_TIMER", "SI_TKILL"})
  OBVIOUS
<1>0. Timer!TypeOK /\ Timer!Handshake /\ Timer!FreedLast /\ Timer!OneLate
  BY DEF Timer!Inv
<1>1. CASE Timer!CreateThread
  <2>1. Timer!TypeOK'
    BY <1>0, <1>1 DEF Timer!CreateThread, Timer!TypeOK
  <2>2. Timer!Handshake' /\ Timer!FreedLast'
    BY <1>0, <1>1 DEF Timer!CreateThread, Timer!TypeOK, Timer!Handshake, Timer!FreedLast
  <2>3. Timer!OneLate'
    BY <1>0, <1>1 DEF Timer!CreateThread, Timer!TypeOK, Timer!FreedLast, Timer!OneLate
  <2>4. QED
    BY <2>1, <2>2, <2>3 DEF Timer!Inv
<1>2. CASE Timer!CreateKernelTimer
  <2>1. Timer!TypeOK'
    BY <1>0, <1>2 DEF Timer!CreateKernelTimer, Timer!TypeOK
  <2>2. Timer!Handshake' /\ Timer!FreedLast'
    BY <1>0, <1>2 DEF Timer!CreateKernelTimer, Timer!TypeOK, Timer!Handshake, Timer!FreedLast
  <2>3. Timer!OneLate'
    BY <1>0, <1>2 DEF Timer!CreateKernelTimer, Timer!TypeOK, Timer!FreedLast, Timer!OneLate
  <2>4. QED
    BY <2>1, <2>2, <2>3 DEF Timer!Inv
<1>3. CASE Timer!UnlockHandshake
  <2>1. Timer!TypeOK'
    BY <1>0, <1>3 DEF Timer!UnlockHandshake, Timer!TypeOK
  <2>2. Timer!Handshake' /\ Timer!FreedLast'
    BY <1>0, <1>3 DEF Timer!UnlockHandshake, Timer!TypeOK, Timer!Handshake, Timer!FreedLast
  <2>3. Timer!OneLate'
    BY <1>0, <1>3 DEF Timer!UnlockHandshake, Timer!TypeOK, Timer!FreedLast, Timer!OneLate
  <2>4. QED
    BY <2>1, <2>2, <2>3 DEF Timer!Inv
<1>4. CASE Timer!WakeHandshake
  <2>1. Timer!TypeOK'
    BY <1>0, <1>4, Zenon DEF Timer!WakeHandshake, Timer!TypeOK
  <2>2. Timer!Handshake' /\ Timer!FreedLast'
    BY <1>0, <1>4, Zenon DEF Timer!WakeHandshake, Timer!TypeOK, Timer!Handshake, Timer!FreedLast
  <2>3. Timer!OneLate'
    BY <1>0, <1>4, Zenon DEF Timer!WakeHandshake, Timer!TypeOK, Timer!FreedLast, Timer!OneLate
  <2>4. QED
    BY <2>1, <2>2, <2>3 DEF Timer!Inv
<1>5. CASE Timer!LockHandshake
  <2>1. Timer!TypeOK'
    BY <1>0, <1>5 DEF Timer!LockHandshake, Timer!TypeOK
  <2>2. Timer!Handshake' /\ Timer!FreedLast'
    BY <1>0, <1>5 DEF Timer!LockHandshake, Timer!TypeOK, Timer!Handshake, Timer!FreedLast
  <2>3. Timer!OneLate'
    BY <1>0, <1>5 DEF Timer!LockHandshake, Timer!TypeOK, Timer!FreedLast, Timer!OneLate
  <2>4. QED
    BY <2>1, <2>2, <2>3 DEF Timer!Inv
<1>6. CASE Timer!FutexWait
  <2>1. Timer!TypeOK'
    BY <1>0, <1>6 DEF Timer!FutexWait, Timer!TypeOK
  <2>2. Timer!Handshake' /\ Timer!FreedLast'
    BY <1>0, <1>6 DEF Timer!FutexWait, Timer!TypeOK, Timer!Handshake, Timer!FreedLast
  <2>3. Timer!OneLate'
    BY <1>0, <1>6 DEF Timer!FutexWait, Timer!TypeOK, Timer!FreedLast, Timer!OneLate
  <2>4. QED
    BY <2>1, <2>2, <2>3 DEF Timer!Inv
<1>7. CASE Timer!CheckKernelTimer
  <2>1. Timer!TypeOK'
    BY <1>0, <1>7 DEF Timer!CheckKernelTimer, Timer!TypeOK
  <2>2. Timer!Handshake' /\ Timer!FreedLast'
    BY <1>0, <1>7 DEF Timer!CheckKernelTimer, Timer!TypeOK, Timer!Handshake, Timer!FreedLast
  <2>3. Timer!OneLate'
    BY <1>0, <1>7 DEF Timer!CheckKernelTimer, Timer!TypeOK, Timer!FreedLast, Timer!OneLate
  <2>4. QED
    BY <2>1, <2>2, <2>3 DEF Timer!Inv
<1>8. CASE Timer!CheckDeleted
  <2>1. Timer!TypeOK'
    BY <1>0, <1>8 DEF Timer!CheckDeleted, Timer!TypeOK
  <2>2. Timer!Handshake' /\ Timer!FreedLast'
    BY <1>0, <1>8 DEF Timer!CheckDeleted, Timer!TypeOK, Timer!Handshake, Timer!FreedLast
  <2>3. Timer!OneLate'
    BY <1>0, <1>8 DEF Timer!CheckDeleted, Timer!TypeOK, Timer!FreedLast, Timer!OneLate
  <2>4. QED
    BY <2>1, <2>2, <2>3 DEF Timer!Inv
<1>9. CASE Timer!CallCallback
  <2>1. Timer!TypeOK'
    BY <1>0, <1>9 DEF Timer!CallCallback, Timer!TypeOK
  <2>2. Timer!Handshake' /\ Timer!FreedLast'
    BY <1>0, <1>9 DEF Timer!CallCallback, Timer!TypeOK, Timer!Handshake, Timer!FreedLast
  <2>3. Timer!OneLate'
    BY <1>0, <1>9 DEF Timer!CallCallback, Timer!TypeOK, Timer!FreedLast, Timer!OneLate
  <2>4. QED
    BY <2>1, <2>2, <2>3 DEF Timer!Inv
<1>10. CASE Timer!CallbackReturns
  <2>1. Timer!TypeOK'
    BY <1>0, <1>10 DEF Timer!CallbackReturns, Timer!TypeOK
  <2>2. Timer!Handshake' /\ Timer!FreedLast'
    BY <1>0, <1>10 DEF Timer!CallbackReturns, Timer!TypeOK, Timer!Handshake, Timer!FreedLast
  <2>3. Timer!OneLate'
    BY <1>0, <1>10 DEF Timer!CallbackReturns, Timer!TypeOK, Timer!FreedLast, Timer!OneLate
  <2>4. QED
    BY <2>1, <2>2, <2>3 DEF Timer!Inv
<1>11. CASE Timer!StoreDeleted
  <2>1. Timer!TypeOK'
    <3>1. {timer_deleted', timer_self'} \subseteq BOOLEAN
      BY <1>0, <1>11, Zenon DEF Timer!StoreDeleted, Timer!TypeOK
    <3>2. QED
      BY <1>0, <1>11, <3>1 DEF Timer!StoreDeleted, Timer!TypeOK
  <2>2. Timer!Handshake' /\ Timer!FreedLast'
    BY <1>0, <1>11 DEF Timer!StoreDeleted, Timer!TypeOK, Timer!Handshake, Timer!FreedLast
  <2>3. Timer!OneLate'
    BY <1>0, <1>11 DEF Timer!StoreDeleted, Timer!TypeOK, Timer!FreedLast, Timer!OneLate
  <2>4. QED
    BY <2>1, <2>2, <2>3 DEF Timer!Inv
<1>12. CASE Timer!Fire
  <2>1. Timer!TypeOK'
    <3>1. timer_signals' \in Seq({"SI_TIMER", "SI_TKILL"})
      BY <1>s, <1>0, <1>12, Zenon DEF Timer!Fire, Timer!TypeOK
    <3>2. QED
      BY <1>0, <1>12, <3>1, MeetingObjectsAssumption DEF Timer!Fire, Timer!TypeOK
  <2>2. Timer!Handshake' /\ Timer!FreedLast'
    BY <1>0, <1>12 DEF Timer!Fire, Timer!TypeOK, Timer!Handshake, Timer!FreedLast
  <2>3. Timer!OneLate'
    BY <1>0, <1>12 DEF Timer!Fire, Timer!TypeOK, Timer!FreedLast, Timer!OneLate
  <2>4. QED
    BY <2>1, <2>2, <2>3 DEF Timer!Inv
<1>13. CASE Timer!WaitForSignal
  <2>0. /\ timer_signals # <<>> /\ timer_signals' = Tail(timer_signals)
             /\ Len(timer_signals') = Len(timer_signals) - 1
        /\ \A i \in 1 .. Len(timer_signals') : timer_signals'[i] = timer_signals[i + 1]
        /\ timer_signals' \in Seq({"SI_TIMER", "SI_TKILL"}) /\ Head(timer_signals) = timer_signals[1]
             /\ 1 \in 1 .. Len(timer_signals)
        /\ Len(timer_signals) \in Nat /\ timer_signals[1] \in {"SI_TIMER", "SI_TKILL"}
    BY <1>0, <1>13 DEF Timer!WaitForSignal, Timer!TypeOK
  <2>1. Timer!TypeOK'
    BY <1>0, <1>13, <2>0 DEF Timer!WaitForSignal, Timer!TypeOK
  <2>2. Timer!Handshake' /\ Timer!FreedLast'
    <3>1. timer_deleter # "returned"
            => \A i \in 1 .. Len(timer_signals') : timer_signals'[i] # "SI_TKILL"
      BY <1>0, <2>0 DEF Timer!FreedLast
    <3>2. timer_signals[1] = "SI_TKILL" => timer_deleter = "returned"
      BY <1>0, <2>0 DEF Timer!FreedLast
    <3>3. QED
      BY <1>0, <1>13, <2>0, <3>1, <3>2
         DEF Timer!WaitForSignal, Timer!TypeOK, Timer!Handshake, Timer!FreedLast
  <2>3. Timer!OneLate'
    BY <1>0, <1>13 DEF Timer!WaitForSignal, Timer!OneLate
  <2>4. QED
    BY <2>1, <2>2, <2>3 DEF Timer!Inv
<1>14. CASE Timer!KillThread
  <2>1. Timer!TypeOK'
    BY <1>0, <1>14 DEF Timer!KillThread, Timer!TypeOK
  <2>2. Timer!Handshake' /\ Timer!FreedLast'
    BY <1>0, <1>14 DEF Timer!KillThread, Timer!TypeOK, Timer!Handshake, Timer!FreedLast
  <2>3. Timer!OneLate'
    BY <1>0, <1>14 DEF Timer!KillThread, Timer!OneLate
  <2>4. QED
    BY <2>1, <2>2, <2>3 DEF Timer!Inv
<1>15. ASSUME NEW fromCallback \in BOOLEAN, Timer!DeleteKernelTimer(fromCallback) PROVE Timer!Inv'
  <2>1. Timer!TypeOK'
    <3>1. {timer_deleted', timer_self'} \subseteq BOOLEAN
      BY <1>0, <1>15, Zenon DEF Timer!DeleteKernelTimer, Timer!TypeOK
    <3>2. timer_signals' \in Seq({"SI_TIMER", "SI_TKILL"})
      BY <1>s, <1>0, <1>15, Zenon DEF Timer!DeleteKernelTimer, Timer!TypeOK
    <3>3. UNCHANGED <<timer_timer, timer_lock, timer_creator, timer_thread, timer_fires, timer_late>>
            /\ timer_kernel' = "deleted" /\ timer_deleter' = "flag"
      BY <1>15 DEF Timer!DeleteKernelTimer
    <3>4. QED
      BY <1>0, <3>1, <3>2, <3>3 DEF Timer!TypeOK
  <2>2. Timer!Handshake' /\ Timer!FreedLast'
    BY <1>0, <1>15 DEF Timer!DeleteKernelTimer, Timer!TypeOK, Timer!Handshake, Timer!FreedLast
  <2>3. Timer!OneLate'
    BY <1>0, <1>15 DEF Timer!DeleteKernelTimer, Timer!OneLate
  <2>4. QED
    BY <2>1, <2>2, <2>3 DEF Timer!Inv
<1>16. CASE UNCHANGED Timer!vars
  BY <1>0, <1>16
     DEF Timer!vars, Timer!Inv, Timer!TypeOK, Timer!Handshake, Timer!FreedLast, Timer!OneLate
<1>17. QED
  BY <1>1, <1>2, <1>3, <1>4, <1>5, <1>6, <1>7, <1>8, <1>9, <1>10, <1>11, <1>12, <1>13, <1>14, <1>15,
     <1>16
     DEF Timer!Next, Timer!Creates, Timer!Runs, Timer!Deletes

(***************************************************************************)
(* The structure is there while it is used, and at most one callback is    *)
(* late.                                                                   *)
(***************************************************************************)
THEOREM TimerLives == Timer!Spec => []Timer!TimerOutlivesItsUsers
<1>1. Timer!Inv => Timer!TimerOutlivesItsUsers
  <2>1. SUFFICES ASSUME Timer!Inv PROVE Timer!TimerOutlivesItsUsers
    OBVIOUS
  <2>2. timer_late <= 1
    BY <2>1 DEF Timer!Inv, Timer!OneLate
  <2>3. /\ timer_creator \notin {"idle", "failed", "wake reading"} \/ timer_thread = "none"
        /\ timer_thread = "none" => timer_creator \in {"idle", "failed"} /\ timer_kernel = "none"
        /\ timer_creator \in {"kernel", "unlock"} => timer_thread \notin {"none", "exited"}
        /\ timer_creator # "wake reading"
    BY <2>1, Zenon DEF Timer!Inv, Timer!TypeOK, Timer!Handshake
  <2>4. /\ timer_timer = "live" <=> timer_thread \notin {"none", "exited"}
        /\ timer_deleter \in {"flag", "kill"} => timer_thread \notin {"none", "exited"}
    BY <2>1, <2>3, Zenon DEF Timer!Inv, Timer!FreedLast
  <2>5. QED
    BY <2>2, <2>3, <2>4, Zenon DEF Timer!TimerOutlivesItsUsers
<1>2. QED
  BY TimerInitInv, TimerNextInv, <1>1, PTL DEF Timer!Spec

(***************************************************************************)
(* A timer is not freed under timer_create, its thread or timer_delete,    *)
(* and at most one callback begins late, for every number of expiries.     *)
(***************************************************************************)
THEOREM TimerAlwaysOutlives == Timer!Spec => []TimerOutlivesItsUsers
BY TimerLives, PTL DEF TimerOutlivesItsUsers

-----------------------------------------------------------------------------
(*  A barrier (PthreadBarrier).                                            *)

FS == INSTANCE FiniteSetTheorems

(***************************************************************************)
(* Each instance defines Cardinality and IsFiniteSet again, and alike.     *)
(***************************************************************************)
LEMMA BarrierSameCardinality == \A S : Barrier!Cardinality(S) = FS!Cardinality(S)
BY Zenon DEF Barrier!Cardinality, FS!Cardinality

(***************************************************************************)
(* The threads are finite in that sense, too.                              *)
(***************************************************************************)
LEMMA BarrierThreadsFinite == FS!IsFiniteSet(Threads)
BY MeetingObjectsAssumption, Zenon DEF IsFiniteSet, FS!IsFiniteSet

(***************************************************************************)
(* Counting threads: one more, one less, none and all.                     *)
(***************************************************************************)
LEMMA BarrierThreadsCounted ==
  ASSUME NEW S \in SUBSET Threads
  PROVE  /\ FS!Cardinality(Threads) \in Nat
         /\ FS!Cardinality(S) \in 0 .. FS!Cardinality(Threads)
         /\ FS!Cardinality(S) = FS!Cardinality(Threads) <=> S = Threads
         /\ FS!Cardinality(S) = 0 <=> S = {}
         /\ \A t \in Threads :
              /\ FS!Cardinality(S \union {t}) = IF t \in S THEN FS!Cardinality(S)
                   ELSE FS!Cardinality(S) + 1
              /\ FS!Cardinality(S \ {t}) = IF t \in S THEN FS!Cardinality(S) - 1 ELSE FS!Cardinality(S)
<1>1. /\ FS!IsFiniteSet(S) /\ FS!Cardinality(S) \in Nat /\ FS!Cardinality(Threads) \in Nat
      /\ FS!Cardinality(S) <= FS!Cardinality(Threads)
      /\ FS!Cardinality(S) = FS!Cardinality(Threads) => S = Threads
  BY BarrierThreadsFinite, FS!FS_Subset, FS!FS_CardinalityType
<1>2. FS!Cardinality(S) = 0 <=> S = {}
  BY <1>1, FS!FS_EmptySet
<1>3. ASSUME NEW t \in Threads
      PROVE  FS!Cardinality(S \union {t}) = IF t \in S THEN FS!Cardinality(S) ELSE FS!Cardinality(S) + 1
  BY <1>1, FS!FS_AddElement, Zenon
<1>4. ASSUME NEW t \in Threads
      PROVE  FS!Cardinality(S \ {t}) = IF t \in S THEN FS!Cardinality(S) - 1 ELSE FS!Cardinality(S)
  BY <1>1, FS!FS_RemoveElement, Zenon
<1>5. FS!Cardinality(S) \in 0 .. FS!Cardinality(Threads)
  BY <1>1
<1>6. QED
  BY <1>1, <1>2, <1>3, <1>4, <1>5, Zenon

(***************************************************************************)
(* The number of threads inside a cycle.                                   *)
(***************************************************************************)
LEMMA BarrierInsideCounted ==
  ASSUME NEW S \in SUBSET Threads
  PROVE  /\ Barrier!Cardinality(Threads) \in Nat
         /\ Barrier!Cardinality(S) \in 0 .. Barrier!Cardinality(Threads)
         /\ Barrier!Cardinality(S) = Barrier!Cardinality(Threads) <=> S = Threads
         /\ Barrier!Cardinality(S) = 0 <=> S = {}
         /\ \A t \in Threads :
              /\ Barrier!Cardinality(S \union {t}) = IF t \in S THEN Barrier!Cardinality(S)
                   ELSE Barrier!Cardinality(S) + 1
              /\ Barrier!Cardinality(S \ {t}) = IF t \in S THEN Barrier!Cardinality(S) - 1
                   ELSE Barrier!Cardinality(S)
BY BarrierSameCardinality, BarrierThreadsCounted, SMTT(30)

(***************************************************************************)
(* An initialised barrier satisfies the inductive invariant.               *)
(***************************************************************************)
LEMMA BarrierInitInv == Barrier!Init => Barrier!Inv
<1> SUFFICES ASSUME Barrier!Init PROVE Barrier!Inv
  OBVIOUS
<1>1. Barrier!Inside = {} /\ Barrier!Cardinality(Barrier!Inside) = 0
        /\ Barrier!Cardinality(Threads) \in Nat /\ Barrier!Cardinality(Threads) # 0
  BY BarrierInsideCounted, MeetingObjectsAssumption DEF Barrier!Init, Barrier!Inside
<1>2. Barrier!TypeOK
  BY <1>1, MeetingObjectsAssumption DEF Barrier!Init, Barrier!TypeOK, Barrier!Locations
<1>3. Barrier!CountExact /\ Barrier!InStep /\ Barrier!Phases
  BY <1>1 DEF Barrier!Init, Barrier!CountExact, Barrier!InStep, Barrier!Phases
<1>4. Barrier!LegalUse
  BY <1>1 DEF Barrier!Init, Barrier!LegalUse
<1>5. QED
  BY <1>2, <1>3, <1>4 DEF Barrier!Inv

-----------------------------------------------------------------------------
(***************************************************************************)
(* What a thread may do without touching the words of the barrier: begin a *)
(* call, fall asleep or wake up, and go on as the state allows.            *)
(***************************************************************************)
BarrierGoesOn(u, from, to) == barrier_pc[u] \in from /\ barrier_pc'[u] \in to

BarrierQuietStep(u) ==
  \/ barrier_pc'[u] = barrier_pc[u]
  \/ BarrierGoesOn(u, {"idle"}, {"enter"}) /\ returned[u] < Cycles
  \/ BarrierGoesOn(u, {"idle"}, {"destroy"}) /\ returned[u] = Cycles
  \/ BarrierGoesOn(u, {"enter", "asleepEnter"}, {"enter", "asleepEnter"})
  \/ BarrierGoesOn(u, {"wait", "asleepWait"}, {"wait", "asleepWait"})
  \/ BarrierGoesOn(u, {"destroy", "asleepDestroy"}, {"destroy", "asleepDestroy", "check"})
  \/ BarrierGoesOn(u, {"enter"}, {"count"}) /\ barrier_state = "WAIT"
  \/ BarrierGoesOn(u, {"wait"}, {"leave"}) /\ barrier_state = "RELEASE"
  \/ BarrierGoesOn(u, {"wake"}, {"leave"})

(***************************************************************************)
(* Such steps, of any number of threads, leave the invariant.              *)
(***************************************************************************)
LEMMA BarrierQuiet ==
  ASSUME Barrier!Inv,
           UNCHANGED <<barrier_init_count, barrier_state, barrier_wait_count, entered, returned>>,
         barrier_pc' \in [Threads -> Barrier!Locations], \A u \in Threads : BarrierQuietStep(u)
  PROVE  Barrier!Inv'
<1>0. Barrier!TypeOK /\ Barrier!CountExact /\ Barrier!InStep /\ Barrier!Phases /\ Barrier!LegalUse
  BY DEF Barrier!Inv
<1>1. Barrier!Inside' = Barrier!Inside
  BY DEF BarrierQuietStep, BarrierGoesOn, Barrier!Inside
<1>2. Barrier!TypeOK'
  BY <1>0 DEF Barrier!TypeOK
<1>3. Barrier!CountExact' /\ Barrier!InStep'
  BY <1>0, <1>1, SMTT(30) DEF Barrier!CountExact, Barrier!InStep
<1>4. Barrier!Phases'
  BY <1>0, <1>1, SMTT(30) DEF BarrierQuietStep, BarrierGoesOn, Barrier!Phases
<1>5. Barrier!LegalUse'
  <2>1. \A u \in Threads : /\ barrier_pc'[u] \in {"reset", "wakeNext"} <=> barrier_pc[u] \in {"reset",
                                "wakeNext"}
                           /\ barrier_pc'[u] \in {"enter", "asleepEnter", "count"}
                                => returned[u] < Cycles
                           /\ barrier_pc'[u] \in {"destroy", "asleepDestroy", "check"}
                                => returned[u] = Cycles
    BY <1>0 DEF BarrierQuietStep, BarrierGoesOn, Barrier!LegalUse
  <2>2. QED
    BY <1>0, <1>1, <2>1, SMTT(30) DEF Barrier!LegalUse
<1>6. QED
  BY <1>2, <1>3, <1>4, <1>5, SMTT(30) DEF Barrier!Inv

(***************************************************************************)
(* A wake lets sleepers go on where they loop.                             *)
(***************************************************************************)
LEMMA BarrierWakeQuiet ==
  ASSUME Barrier!TypeOK, NEW t \in Threads, NEW l \in Barrier!Locations, NEW n,
           barrier_pc[t] \in {"wake", "wakeNext"}, Barrier!WakeThenGoto(t, l, n)
  PROVE  /\ barrier_pc' \in [Threads -> Barrier!Locations] /\ barrier_pc'[t] = l
         /\ \A u \in Threads \ {t} : BarrierQuietStep(u)
         /\ \A u \in Threads \ {t} : barrier_pc'[u] = barrier_pc[u]
              \/ barrier_pc'[u] \in {"enter", "wait", "destroy"}
<1>1. PICK woken \in Barrier!WakeUpTo(Barrier!Sleepers, n) :
        barrier_pc' = [u \in Threads |-> IF u = t THEN l ELSE IF u \in woken
          THEN Barrier!Resume(barrier_pc[u]) ELSE barrier_pc[u]]
  BY DEF Barrier!WakeThenGoto
<1>2. woken \subseteq Barrier!Sleepers
  BY DEF Barrier!WakeUpTo
<1>3. \A u \in woken : u \in Threads /\ Barrier!Resume(barrier_pc[u]) \in Barrier!Locations
                       /\ \/ barrier_pc[u] = "asleepEnter" /\ Barrier!Resume(barrier_pc[u]) = "enter"
                          \/ barrier_pc[u] = "asleepWait" /\ Barrier!Resume(barrier_pc[u]) = "wait"
                          \/ barrier_pc[u] = "asleepDestroy"
                               /\ Barrier!Resume(barrier_pc[u]) = "destroy"
  BY <1>2 DEF Barrier!Sleepers, Barrier!Resume, Barrier!Locations
<1>4. QED
  BY <1>1, <1>3 DEF Barrier!TypeOK, BarrierQuietStep, BarrierGoesOn

(***************************************************************************)
(* Every step of pthread_barrier_wait and pthread_barrier_destroy          *)
(* preserves the inductive invariant.                                      *)
(***************************************************************************)
LEMMA BarrierNextInv == Barrier!Inv /\ [Barrier!Next]_(Barrier!vars) => Barrier!Inv'
<1> SUFFICES ASSUME Barrier!Inv, [Barrier!Next]_(Barrier!vars) PROVE Barrier!Inv'
  OBVIOUS
<1>0. Barrier!TypeOK /\ Barrier!CountExact /\ Barrier!InStep /\ Barrier!Phases /\ Barrier!LegalUse
  BY DEF Barrier!Inv
<1>p. barrier_pc \in [Threads -> Barrier!Locations] /\ entered \in [Threads -> 0 .. Cycles]
        /\ returned \in [Threads -> 0 .. Cycles]
  BY <1>0 DEF Barrier!TypeOK
<1>i. Barrier!Inside \in SUBSET Threads /\ Barrier!Inside' \in SUBSET Threads
  BY DEF Barrier!Inside
<1>1. ASSUME NEW t \in Threads,
             Barrier!Wait(t) \/ Barrier!Enter(t) \/ Barrier!AwaitRelease(t) \/ Barrier!Interrupt(t)
               \/ Barrier!Destroy(t) \/ Barrier!AwaitCycleEnd(t)
      PROVE  Barrier!Inv'
  <2>1. UNCHANGED <<barrier_init_count, barrier_state, barrier_wait_count, entered, returned>>
    BY <1>1
       DEF Barrier!Wait, Barrier!Enter, Barrier!AwaitRelease, Barrier!Interrupt, Barrier!Destroy,
           Barrier!AwaitCycleEnd
  <2>2. PICK l \in Barrier!Locations : barrier_pc' = [barrier_pc EXCEPT ![t] = l]
    BY <1>1
       DEF Barrier!Wait, Barrier!Enter, Barrier!AwaitRelease, Barrier!Interrupt, Barrier!Destroy,
           Barrier!AwaitCycleEnd, Barrier!Sleepers, Barrier!Resume, Barrier!Goto, Barrier!Locations
  <2>3. BarrierQuietStep(t)
    BY <1>1, <1>0, <1>p, <2>2, SMTT(30)
       DEF Barrier!Wait, Barrier!Enter, Barrier!AwaitRelease, Barrier!Interrupt, Barrier!Destroy,
           Barrier!AwaitCycleEnd, Barrier!Sleepers, Barrier!Resume, Barrier!Goto, BarrierQuietStep,
           BarrierGoesOn, Barrier!TypeOK
  <2>4. \A u \in Threads : BarrierQuietStep(u)
    BY <1>p, <2>2, <2>3, SMTT(30) DEF BarrierQuietStep
  <2>5. QED
    BY <1>p, <2>1, <2>2, <2>4, BarrierQuiet, SMTT(30)
<1>2. ASSUME NEW t \in Threads, Barrier!Wake(t) PROVE Barrier!Inv'
  <2>1. /\ UNCHANGED <<barrier_init_count, barrier_state, barrier_wait_count, entered, returned>>
        /\ barrier_pc[t] = "wake"
             /\ Barrier!WakeThenGoto(t, "leave", Barrier!Cardinality(Threads) - 1)
                  /\ "leave" \in Barrier!Locations
    BY <1>2 DEF Barrier!Wake, Barrier!Locations
  <2>2. /\ barrier_pc' \in [Threads -> Barrier!Locations] /\ barrier_pc'[t] = "leave"
        /\ \A u \in Threads \ {t} : BarrierQuietStep(u)
    BY <1>0, <2>1, BarrierWakeQuiet, SMTT(30)
  <2>3. BarrierQuietStep(t)
    BY <2>1, <2>2 DEF BarrierQuietStep, BarrierGoesOn
  <2>4. QED
    BY <2>1, <2>2, <2>3, BarrierQuiet, SMTT(30)
<1>3. ASSUME NEW t \in Threads, Barrier!Count(t) PROVE Barrier!Inv'
  <2>0. /\ barrier_pc[t] = "count" /\ barrier_wait_count < barrier_init_count
             /\ barrier_wait_count' = barrier_wait_count + 1
        /\ entered' = [entered EXCEPT ![t] = entered[t] + 1]
             /\ UNCHANGED <<barrier_init_count, barrier_state, returned>>
        /\ barrier_pc' = [barrier_pc EXCEPT ![t] = IF barrier_wait_count + 1 < barrier_init_count
             THEN "wait"
                                   ELSE IF barrier_wait_count > 0 THEN "release" ELSE "leave"]
        /\ barrier_state = "WAIT" /\ entered[t] = returned[t] /\ returned[t] < Cycles
             /\ t \notin Barrier!Inside
    BY <1>0, <1>3, SMTT(30) DEF Barrier!Count, Barrier!Goto, Barrier!Phases, Barrier!LegalUse, Barrier!Inside
  <2>1. Barrier!Inside' = Barrier!Inside \union {t}
    BY <1>p, <2>0, SMTT(30) DEF Barrier!Inside
  <2>2. /\ Barrier!Cardinality(Threads) \in Nat /\ barrier_init_count = Barrier!Cardinality(Threads)
        /\ Barrier!Cardinality(Barrier!Inside) = barrier_wait_count
             /\ Barrier!Cardinality(Barrier!Inside') = barrier_wait_count + 1
        /\ barrier_wait_count \in 0 .. Barrier!Cardinality(Threads)
    BY <1>0, <1>i, <2>0, <2>1, BarrierInsideCounted, SMTT(30) DEF Barrier!TypeOK, Barrier!CountExact
  <2>c. /\ barrier_wait_count = 0 <=> Barrier!Inside = {}
        /\ barrier_wait_count + 1 = Barrier!Cardinality(Threads) <=> Barrier!Inside' = Threads
    BY <1>i, <2>2, BarrierInsideCounted, SMTT(30)
  <2>3. /\ barrier_pc'[t] \in {"wait", "release", "leave"}
        /\ barrier_pc'[t] # "wait" => Barrier!Inside' = Threads
        /\ barrier_pc'[t] = "release" => Threads # {t}
        /\ barrier_pc'[t] = "leave" => Threads = {t}
    BY <1>p, <2>0, <2>1, <2>2, <2>c, SMTT(30)
  <2>4. \A u \in Threads \ {t} : barrier_pc'[u] = barrier_pc[u]
          /\ barrier_pc[u] \notin {"release", "wake", "leave", "reset"}
    BY <1>0, <1>p, <2>0, SMTT(30) DEF Barrier!Phases
  <2>5. Barrier!TypeOK' /\ Barrier!CountExact' /\ Barrier!InStep'
    BY <1>0, <1>p, <2>0, <2>1, <2>2, <2>3, MeetingObjectsAssumption, SMTT(30)
       DEF Barrier!TypeOK, Barrier!Locations, Barrier!CountExact, Barrier!InStep
  <2>6. Barrier!Phases' /\ Barrier!LegalUse'
    BY <1>0, <1>p, <2>0, <2>1, <2>3, <2>4, SMTT(30) DEF Barrier!Phases, Barrier!LegalUse
  <2>7. QED
    BY <2>5, <2>6, SMTT(30) DEF Barrier!Inv
<1>4. ASSUME NEW t \in Threads, Barrier!Release(t) PROVE Barrier!Inv'
  <2>0. /\ barrier_pc[t] = "release" /\ barrier_state' = "RELEASE"
             /\ barrier_pc' = [barrier_pc EXCEPT ![t] = "wake"]
        /\ UNCHANGED <<barrier_init_count, barrier_wait_count, entered, returned>>
        /\ Barrier!Inside = Threads /\ \A u \in Threads \ {t} : barrier_pc[u] # "release"
    BY <1>0, <1>4, SMTT(30) DEF Barrier!Release, Barrier!Goto, Barrier!Phases
  <2>1. Barrier!Inside' = Barrier!Inside /\ \A u \in Threads : barrier_pc'[u] \notin {"count", "reset"}
    BY <1>p, <2>0, SMTT(30) DEF Barrier!Inside
  <2>2. QED
    BY <1>0, <1>p, <2>0, <2>1, SMTT(30)
       DEF Barrier!Inv, Barrier!TypeOK, Barrier!Locations, Barrier!CountExact, Barrier!InStep,
           Barrier!Phases, Barrier!LegalUse
<1>5. ASSUME NEW t \in Threads, Barrier!Leave(t) PROVE Barrier!Inv'
  <2>0. /\ barrier_pc[t] = "leave" /\ barrier_wait_count' = barrier_wait_count - 1
             /\ UNCHANGED <<barrier_init_count, barrier_state, entered>>
        /\ IF barrier_wait_count = 1 THEN barrier_pc' = [barrier_pc EXCEPT ![t] = "reset"]
             /\ returned' = returned
           ELSE barrier_pc' = [barrier_pc EXCEPT ![t] = "idle"]
             /\ returned' = [returned EXCEPT ![t] = returned[t] + 1]
        /\ entered[t] = returned[t] + 1 /\ (barrier_state = "RELEASE" \/ Threads = {t})
             /\ t \in Barrier!Inside
    BY <1>0, <1>5, SMTT(30)
       DEF Barrier!Leave, Barrier!Goto, Barrier!Return, Barrier!LegalUse, Barrier!Phases,
           Barrier!Inside
  <2>1. Barrier!Inside' = Barrier!Inside \ {t}
          /\ \A u \in Threads : barrier_pc[u] \notin {"release", "reset"}
    BY <1>0, <1>p, <2>0, SMTT(30) DEF Barrier!Inside, Barrier!Phases
  <2>2. /\ Barrier!Cardinality(Barrier!Inside') = barrier_wait_count - 1 /\ barrier_wait_count > 0
        /\ Barrier!Cardinality(Threads) \in Nat
             /\ barrier_wait_count \in 0 .. Barrier!Cardinality(Threads)
        /\ barrier_wait_count = 1 => Barrier!Inside' = {}
    BY <1>0, <1>i, <2>0, <2>1, BarrierInsideCounted, SMTT(30) DEF Barrier!CountExact, Barrier!TypeOK
  <2>3. Barrier!TypeOK' /\ Barrier!CountExact' /\ Barrier!InStep'
    BY <1>0, <1>p, <2>0, <2>1, <2>2, SMTT(30)
       DEF Barrier!TypeOK, Barrier!Locations, Barrier!CountExact, Barrier!InStep
  <2>4. Barrier!Phases' /\ Barrier!LegalUse'
    BY <1>0, <1>p, <2>0, <2>1, <2>2, SMTT(30) DEF Barrier!Phases, Barrier!LegalUse
  <2>5. QED
    BY <2>3, <2>4 DEF Barrier!Inv
<1>6. ASSUME NEW t \in Threads, Barrier!Reset(t) PROVE Barrier!Inv'
  <2>0. /\ barrier_pc[t] = "reset" /\ barrier_state' = "WAIT"
             /\ barrier_pc' = [barrier_pc EXCEPT ![t] = "wakeNext"]
        /\ UNCHANGED <<barrier_init_count, barrier_wait_count, entered, returned>>
        /\ Barrier!Inside = {} /\ \A u \in Threads \ {t} : barrier_pc[u] # "reset"
    BY <1>0, <1>6, SMTT(30) DEF Barrier!Reset, Barrier!Goto, Barrier!Phases
  <2>1. Barrier!Inside' = Barrier!Inside
          /\ \A u \in Threads : barrier_pc'[u] \notin {"wake", "leave", "release"}
    BY <1>p, <2>0 DEF Barrier!Inside
  <2>2. QED
    BY <1>0, <1>p, <2>0, <2>1, SMTT(30)
       DEF Barrier!Inv, Barrier!TypeOK, Barrier!Locations, Barrier!CountExact, Barrier!InStep,
           Barrier!Phases, Barrier!LegalUse
<1>7. ASSUME NEW t \in Threads, Barrier!WakeNext(t) PROVE Barrier!Inv'
  <2>0. /\ barrier_pc[t] = "wakeNext" /\ Barrier!WakeThenGoto(t, "idle", barrier_init_count)
             /\ "idle" \in Barrier!Locations
        /\ returned' = [returned EXCEPT ![t] = returned[t] + 1]
        /\ UNCHANGED <<barrier_init_count, barrier_state, barrier_wait_count, entered>>
        /\ entered[t] = returned[t] + 1 /\ t \notin Barrier!Inside
    BY <1>0, <1>7, SMTT(30)
       DEF Barrier!WakeNext, Barrier!Return, Barrier!Locations, Barrier!LegalUse, Barrier!Inside
  <2>1. /\ barrier_pc' \in [Threads -> Barrier!Locations] /\ barrier_pc'[t] = "idle"
        /\ \A u \in Threads \ {t} : BarrierQuietStep(u) /\ (barrier_pc'[u] = barrier_pc[u]
             \/ barrier_pc'[u] \in {"enter", "wait", "destroy"})
    BY <1>0, <2>0, BarrierWakeQuiet, SMTT(30)
  <2>2. Barrier!Inside' = Barrier!Inside /\ returned' \in [Threads -> 0 .. Cycles]
    BY <1>p, <2>0, <2>1, SMTT(30) DEF Barrier!Inside, BarrierQuietStep, BarrierGoesOn
  <2>3. Barrier!TypeOK' /\ Barrier!CountExact' /\ Barrier!InStep' /\ Barrier!Phases'
    BY <1>0, <2>0, <2>1, <2>2, SMTT(30) DEF Barrier!TypeOK, Barrier!CountExact, Barrier!InStep, Barrier!Phases
  <2>4. Barrier!LegalUse'
    BY <1>0, <1>p, <2>0, <2>1, <2>2, SMTT(30) DEF Barrier!LegalUse, BarrierQuietStep, BarrierGoesOn
  <2>5. QED
    BY <2>3, <2>4, SMTT(30) DEF Barrier!Inv
<1>8. ASSUME NEW t \in Threads, Barrier!FinishDestroy(t) PROVE Barrier!Inv'
  <2>0. /\ barrier_pc[t] = "check" /\ barrier_init_count' \in {0, barrier_init_count}
             /\ barrier_pc' = [barrier_pc EXCEPT ![t] = "idle"]
        /\ UNCHANGED <<barrier_state, barrier_wait_count, entered, returned>>
    BY <1>8, SMTT(30) DEF Barrier!FinishDestroy, Barrier!Goto
  <2>1. Barrier!Inside' = Barrier!Inside
    BY <1>p, <2>0, SMTT(30) DEF Barrier!Inside
  <2>2. QED
    BY <1>0, <1>p, <2>0, <2>1, SMTT(30)
       DEF Barrier!Inv, Barrier!TypeOK, Barrier!Locations, Barrier!CountExact, Barrier!InStep,
           Barrier!Phases, Barrier!LegalUse
<1>9. CASE UNCHANGED Barrier!vars
  BY <1>0, <1>9, SMTT(30)
     DEF Barrier!vars, Barrier!Inv, Barrier!TypeOK, Barrier!CountExact, Barrier!InStep,
         Barrier!Phases, Barrier!LegalUse, Barrier!Inside
<1>10. QED
  BY <1>1, <1>2, <1>3, <1>4, <1>5, <1>6, <1>7, <1>8, <1>9 DEF Barrier!Next, Barrier!Progress

(***************************************************************************)
(* In every reachable state nobody has returned from a cycle that some     *)
(* thread has not entered.                                                 *)
(***************************************************************************)
THEOREM BarrierNobodyReturnsEarly == Barrier!Spec => []Barrier!NobodyReturnsEarly
<1>1. Barrier!Inv => Barrier!NobodyReturnsEarly
  <2>1. SUFFICES ASSUME Barrier!Inv, NEW t \in Threads, NEW u \in Threads
                   PROVE returned[t] <= entered[u]
    BY DEF Barrier!NobodyReturnsEarly
  <2>2. /\ entered[t] \in Nat /\ entered[u] \in Nat /\ returned[t] \in Nat
        /\ barrier_state \in {"WAIT", "RELEASE"} /\ Barrier!InStep
    BY <2>1, MeetingObjectsAssumption, SMTT(30) DEF Barrier!Inv, Barrier!TypeOK
  <2>3. entered[t] = IF t \in Barrier!Inside \/ barrier_pc[t] \in {"reset", "wakeNext"}
          THEN returned[t] + 1 ELSE returned[t]
    BY <2>1, SMTT(30) DEF Barrier!Inv, Barrier!LegalUse
  <2>4. QED
    BY <2>2, <2>3, SMTT(30) DEF Barrier!InStep
<1>2. QED
  BY BarrierInitInv, BarrierNextInv, <1>1, PTL DEF Barrier!Spec

(***************************************************************************)
(* No thread of a legal use is one too many, whatever thread destroys the  *)
(* barrier and when.                                                       *)
(***************************************************************************)
THEOREM BarrierNobodyTurnedAway == Barrier!Spec => []Barrier!NobodyTurnedAway
<1>1. Barrier!Inv => Barrier!NobodyTurnedAway
  <2>1. SUFFICES ASSUME Barrier!Inv, NEW t \in Threads, barrier_pc[t] = "count"
                   PROVE barrier_wait_count < barrier_init_count
    BY DEF Barrier!NobodyTurnedAway
  <2>2. t \notin Barrier!Inside /\ Barrier!Inside \in SUBSET Threads
    BY <2>1 DEF Barrier!Inside
  <2>3. barrier_wait_count \in Nat /\ Barrier!Cardinality(Threads) \in Nat
          /\ barrier_wait_count < Barrier!Cardinality(Threads)
    <3>1. barrier_wait_count = Barrier!Cardinality(Barrier!Inside) /\ Barrier!Inside # Threads
      BY <2>1, <2>2, SMTT(30) DEF Barrier!Inv, Barrier!CountExact
    <3>2. /\ Barrier!Cardinality(Barrier!Inside) \in 0 .. Barrier!Cardinality(Threads)
               /\ Barrier!Cardinality(Threads) \in Nat
          /\ Barrier!Cardinality(Barrier!Inside) # Barrier!Cardinality(Threads)
      BY <2>2, <3>1, BarrierInsideCounted, SMTT(30)
    <3>3. QED
      BY <3>1, <3>2
  <2>4. barrier_init_count # 0
    <3>1. SUFFICES ASSUME NEW u \in Threads, returned[u] = Cycles PROVE FALSE
      BY <2>1, SMTT(30) DEF Barrier!Inv, Barrier!LegalUse
    <3>2. /\ barrier_state = "WAIT" /\ entered[t] = returned[t] /\ returned[t] < Cycles
               /\ entered[u] >= returned[u]
          /\ entered[t] \in Nat /\ entered[u] \in Nat /\ returned[u] \in Nat /\ entered[u] <= Cycles
      BY <2>1, <2>2, MeetingObjectsAssumption, SMTT(30)
         DEF Barrier!Inv, Barrier!Phases, Barrier!LegalUse, Barrier!TypeOK
    <3>3. u \notin Barrier!Inside => entered[u] = entered[t]
      BY <2>1, <2>2, SMTT(30) DEF Barrier!Inv, Barrier!InStep
    <3>4. u \in Barrier!Inside => entered[u] = returned[u] + 1
      BY <2>1 DEF Barrier!Inv, Barrier!LegalUse
    <3>5. QED
      BY <3>1, <3>2, <3>3, <3>4, MeetingObjectsAssumption, SMTT(30)
  <2>5. QED
    BY <2>1, <2>3, <2>4, SMTT(30) DEF Barrier!Inv, Barrier!TypeOK
<1>2. QED
  BY BarrierInitInv, BarrierNextInv, <1>1, PTL DEF Barrier!Spec

(***************************************************************************)
(* No thread leaves a cycle of a barrier before all have entered it, and   *)
(* none is turned away, for every number of threads and cycles, although   *)
(* fast threads enter the next cycle or destroy the barrier while slow     *)
(* ones leave the last.                                                    *)
(***************************************************************************)
THEOREM CyclesStayApart == Barrier!Spec => []CyclesApart
BY BarrierNobodyReturnsEarly, BarrierNobodyTurnedAway, PTL DEF CyclesApart
=============================================================================
