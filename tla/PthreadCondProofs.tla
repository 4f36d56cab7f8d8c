------------------------- MODULE PthreadCondProofs --------------------------
(***************************************************************************)
(* Proofs about condition variables, for any set of threads, any size of   *)
(* the word and any number of items and of pulses that does not wrap the   *)
(* word around while a waiter is between its load and its system call.     *)
(***************************************************************************)
EXTENDS PthreadCond, FiniteSetTheorems, TLAPS

(***************************************************************************)
(* A pulse advances the word by one step of the counter and wraps around.  *)
(***************************************************************************)
LEMMA WordStep ==
  ASSUME NEW w \in 0 .. WordSize - 1
  PROVE  /\ (w + COND_COUNTER_STEP) % WordSize =
              IF w + COND_COUNTER_STEP < WordSize THEN w + COND_COUNTER_STEP
              ELSE w + COND_COUNTER_STEP - WordSize
         /\ (w + COND_COUNTER_STEP) % WordSize \in 0 .. WordSize - 1
BY CondAssumption DEF COND_COUNTER_STEP

(***************************************************************************)
(* Sets of threads are finite, and their sizes follow inclusion.           *)
(***************************************************************************)
LEMMA ThreadSets ==
  /\ Cardinality(Threads) \in Nat
  /\ \A S \in SUBSET Threads : IsFiniteSet(S) /\ Cardinality(S) \in Nat /\ Cardinality(S) <= Cardinality(Threads)
  /\ \A S, T \in SUBSET Threads : S \subseteq T => Cardinality(S) <= Cardinality(T)
BY CondAssumption, FS_Subset, FS_CardinalityType

(***************************************************************************)
(* One thread more or less.                                                *)
(***************************************************************************)
LEMMA OneThread ==
  ASSUME NEW S \in SUBSET Threads, NEW t \in Threads
  PROVE  /\ Cardinality(S \union {t}) = IF t \in S THEN Cardinality(S) ELSE Cardinality(S) + 1
         /\ Cardinality(S \ {t}) = IF t \in S THEN Cardinality(S) - 1 ELSE Cardinality(S)
<1>1. IsFiniteSet(S)
  BY ThreadSets
<1>2. QED
  BY <1>1, FS_AddElement, FS_RemoveElement, Zenon

(***************************************************************************)
(* A condition variable nobody has used satisfies the invariant.           *)
(***************************************************************************)
LEMMA InitInv == Init => Inv
<1> SUFFICES ASSUME Init PROVE Inv
  OBVIOUS
<1> USE DEF Init
<1>0. \A l \in Locations \ {"idle"} : At(l) = {}
  BY DEF At
<1>1. TypeOK
  <2>1. /\ items \in 0 .. MaxItems /\ state \in 0 .. WordSize - 1 /\ waiters \in 0 .. Cardinality(Threads)
        /\ pc \in [Threads -> Locations] /\ old_state \in [Threads -> 0 .. WordSize - 1]
        /\ missed \in [Threads -> 0 .. MaxMissed] /\ thread_count \in [Threads -> 0 .. Cardinality(Threads)]
    BY CondAssumption, ThreadSets DEF Locations
  <2>2. QED
    BY <2>1, Zenon DEF TypeOK
<1>2. Ownership
  BY ActorsAssumption DEF Ownership
<1>3. WaitersExact
  <2>1. Counted = {}
    BY <1>0 DEF Counted, Locations
  <2>2. QED
    BY <2>1, FS_EmptySet DEF WaitersExact
<1>4. WordKept /\ PulsesToCome /\ PulseCounts /\ NoSignalLost
  BY <1>0 DEF WordKept, Waiting, PulsesToCome, PulseCounts, NoSignalLost, UnlockAndWaitAtomic,
              NobodySleepsOnItems, Locations
<1>5. QED
  BY <1>1, <1>2, <1>3, <1>4 DEF Inv

-----------------------------------------------------------------------------
(***************************************************************************)
(* The threads at a location after a wake.                                 *)
(***************************************************************************)
LEMMA WakeEffect ==
  ASSUME TypeOK, NEW t \in Threads, Wake(t)
  PROVE  \E woken \in SUBSET At("asleep") :
           /\ woken = At("asleep") \/ Cardinality(woken) = thread_count[t]
           /\ Cardinality(At("asleep")) <= thread_count[t] => woken = At("asleep")
           /\ t \notin woken
           /\ pc' = [u \in Threads |-> IF u = t THEN AfterPulse(t)
                                       ELSE IF u \in woken THEN "uncount" ELSE pc[u]]
           /\ \A l : l \notin {"wake", "uncount", "asleep", AfterPulse(t)} => At(l)' = At(l)
           /\ At("asleep")' = At("asleep") \ woken
           /\ At("uncount")' = At("uncount") \union woken
           /\ At("wake")' = At("wake") \ {t}
           /\ At("pulse")' = At("pulse")
           /\ At("wait")' = At("wait")
<1>1. PICK woken \in WakeUpTo(At("asleep"), thread_count[t]) :
         pc' = [u \in Threads |-> IF u = t THEN AfterPulse(t)
                                  ELSE IF u \in woken THEN "uncount" ELSE pc[u]]
  BY DEF Wake
<1>2. /\ woken \in SUBSET At("asleep")
      /\ woken = At("asleep") \/ Cardinality(woken) = thread_count[t]
      /\ Cardinality(At("asleep")) <= thread_count[t] => woken = At("asleep")
  BY DEF WakeUpTo
<1>3. t \notin woken /\ pc[t] = "wake"
  BY <1>2 DEF Wake, At
<1>4. AfterPulse(t) \in {"leave", "idle"}
  BY DEF AfterPulse
<1>5. /\ \A l : l \notin {"wake", "uncount", "asleep", AfterPulse(t)} => At(l)' = At(l)
      /\ At("asleep")' = At("asleep") \ woken
      /\ At("uncount")' = At("uncount") \union woken
      /\ At("wake")' = At("wake") \ {t}
  BY <1>1, <1>2, <1>3, <1>4 DEF At, TypeOK
<1>6. QED
  BY <1>1, <1>2, <1>3, <1>4, <1>5

-----------------------------------------------------------------------------
(***************************************************************************)
(* All of the state but the count of waiters.                              *)
(***************************************************************************)
RestTyped ==
  /\ owner \in Threads \union {NoThread}
  /\ items \in 0 .. MaxItems
  /\ state \in 0 .. WordSize - 1
  /\ pc \in [Threads -> Locations]
  /\ old_state \in [Threads -> 0 .. WordSize - 1]
  /\ missed \in [Threads -> 0 .. MaxMissed]
  /\ thread_count \in [Threads -> 0 .. Cardinality(Threads)]

(***************************************************************************)
(* The mutex is with the threads whose place in the code says so, and the  *)
(* store stays empty while a waiter that found it empty has the mutex.     *)
(***************************************************************************)
LEMMA ControlKept ==
  ASSUME Inv, Next
  PROVE  RestTyped' /\ Ownership' /\ PulseCounts' /\ UNCHANGED lp64
<1>0. RestTyped /\ Ownership /\ PulseCounts
  BY DEF Inv, TypeOK, RestTyped
<1>c. Cardinality(Threads) \in Nat /\ (\A t \in Threads : 1 <= Cardinality(Threads))
  <2>1. \A t \in Threads : {t} \in SUBSET Threads /\ Cardinality({t}) = 1
    BY FS_Singleton, Zenon
  <2>2. QED
    BY <2>1, ThreadSets, Zenon
<1>n. NoThread \notin Threads
  BY ActorsAssumption
<1> DEFINE Goal == RestTyped' /\ Ownership' /\ PulseCounts' /\ UNCHANGED lp64
<1> USE <1>0, <1>n, CondAssumption
    DEF Goto, Forget, cond, locals, Mutex!Acquire, Mutex!Release, Locations
<1>1. ASSUME NEW t \in Threads, Enter(t) PROVE Goal
  BY <1>1 DEF Enter, RestTyped, Ownership, PulseCounts, At
<1>2. ASSUME NEW t \in Threads, Take(t) PROVE Goal
  BY <1>2 DEF Take, RestTyped, Ownership, PulseCounts, At
<1>3. ASSUME NEW t \in Threads, Put(t) PROVE Goal
  <2>1. PICK k \in 1 .. MaxItems - items, n \in {1, Cardinality(Threads)} :
           items' = items + k /\ thread_count' = [thread_count EXCEPT ![t] = n]
    BY <1>3, Zenon DEF Put
  <2>2. /\ pc[t] = "in" /\ pc' = [pc EXCEPT ![t] = "pulse"] /\ owner = t /\ owner' \in {t, NoThread}
        /\ UNCHANGED <<lp64, state, old_state, missed>>
    BY <1>3 DEF Put, Ownership
  <2>3. n \in 0 .. Cardinality(Threads) /\ items' \in 0 .. MaxItems
    BY <1>c, <2>1 DEF RestTyped
  <2>4. RestTyped'
    BY <2>1, <2>2, <2>3 DEF RestTyped
  <2>5. Ownership'
    BY <2>2 DEF RestTyped, Ownership
  <2>6. PulseCounts'
    BY <2>1, <2>2 DEF RestTyped, PulseCounts, At
  <2>7. QED
    BY <2>2, <2>4, <2>5, <2>6
<1>4. ASSUME NEW t \in Threads, Leave(t) PROVE Goal
  BY <1>4 DEF Leave, RestTyped, Ownership, PulseCounts, At
<1>5. ASSUME NEW t \in Threads, LoadState(t) PROVE Goal
  BY <1>5 DEF LoadState, RestTyped, Ownership, PulseCounts, At
<1>6. ASSUME NEW t \in Threads, CountWaiter(t) PROVE Goal
  BY <1>6 DEF CountWaiter, RestTyped, Ownership, PulseCounts, At
<1>7. ASSUME NEW t \in Threads, UnlockMutex(t) PROVE Goal
  BY <1>7 DEF UnlockMutex, RestTyped, Ownership, PulseCounts, At
<1>8. ASSUME NEW t \in Threads, FutexWait(t) \/ Timeout(t) \/ Interrupt(t) PROVE Goal
  <2>1. /\ pc[t] \in {"wait", "asleep"}
        /\ (pc' = [pc EXCEPT ![t] = "asleep"]) \/ (pc' = [pc EXCEPT ![t] = "uncount"])
        /\ (old_state' = [old_state EXCEPT ![t] = 0]) \/ (old_state' = old_state)
        /\ UNCHANGED <<lp64, owner, items, state, missed, thread_count>>
    BY <1>8 DEF FutexWait, Timeout, Interrupt
  <2>2. QED
    BY <2>1 DEF RestTyped, Ownership, PulseCounts, At
<1>9. ASSUME NEW t \in Threads, UncountWaiter(t) PROVE Goal
  BY <1>9 DEF UncountWaiter, RestTyped, Ownership, PulseCounts, At
<1>10. ASSUME NEW t \in Threads, RelockMutex(t) PROVE Goal
  BY <1>10 DEF RelockMutex, RestTyped, Ownership, PulseCounts, At
<1>11. ASSUME NEW t \in Threads, Pulse(t) PROVE Goal
  <2>1. pc[t] = "pulse" /\ UNCHANGED <<lp64, owner, items, old_state, thread_count>>
    BY <1>11 DEF Pulse
  <2>2. CASE lp64 /\ waiters = 0
    BY <1>11, <2>1, <2>2 DEF Pulse, AfterPulse, RestTyped, Ownership, PulseCounts, At
  <2>3. CASE ~(lp64 /\ waiters = 0)
    <3>1. /\ state' = (state + COND_COUNTER_STEP) % WordSize /\ pc' = [pc EXCEPT ![t] = "wake"]
          /\ missed' = [u \in Threads |-> IF u \in Waiting THEN missed[u] + 1 ELSE missed[u]]
          /\ \A u \in Waiting : missed[u] < MaxMissed
      BY <1>11, <2>3 DEF Pulse
    <3>2. state' \in 0 .. WordSize - 1
      BY <3>1, WordStep DEF RestTyped
    <3>3. missed' \in [Threads -> 0 .. MaxMissed]
      BY <3>1 DEF RestTyped
    <3>4. QED
      BY <2>1, <3>1, <3>2, <3>3 DEF RestTyped, Ownership, PulseCounts, At
  <2>4. QED
    BY <2>2, <2>3
<1>12. ASSUME NEW t \in Threads, Wake(t) PROVE Goal
  <2>1. PICK woken \in SUBSET At("asleep") :
          /\ pc' = [u \in Threads |-> IF u = t THEN AfterPulse(t) ELSE IF u \in woken THEN "uncount" ELSE pc[u]]
          /\ t \notin woken
    BY <1>12, WakeEffect DEF Inv
  <2>2. /\ thread_count' = [thread_count EXCEPT ![t] = 0] /\ pc[t] = "wake"
        /\ UNCHANGED <<lp64, owner, items, state, old_state, missed>>
    BY <1>12 DEF Wake
  <2>3. RestTyped'
    BY <1>c, <2>1, <2>2 DEF RestTyped, AfterPulse
  <2>4. Ownership'
    BY <2>1, <2>2 DEF RestTyped, Ownership, AfterPulse, At
  <2>5. PulseCounts'
    BY <2>1, <2>2 DEF RestTyped, PulseCounts, AfterPulse, At
  <2>6. QED
    BY <2>2, <2>3, <2>4, <2>5
<1>13. QED
  BY <1>1, <1>2, <1>3, <1>4, <1>5, <1>6, <1>7, <1>8, <1>9, <1>10, <1>11, <1>12 DEF Next, Progress

-----------------------------------------------------------------------------
(***************************************************************************)
(* Each waiter is counted once, from before it unlocks the mutex until     *)
(* after it has been woken.                                                *)
(***************************************************************************)
LEMMA WaitersKept ==
  ASSUME Inv, Next
  PROVE  WaitersExact' /\ waiters' \in 0 .. Cardinality(Threads)
<1>0. /\ pc \in [Threads -> Locations] /\ WaitersExact /\ waiters \in 0 .. Cardinality(Threads)
      /\ lp64' = lp64 /\ Counted \in SUBSET Threads /\ Counted' \in SUBSET Threads
  BY ControlKept DEF Inv, TypeOK, Counted, At
<1>1. ASSUME NEW t \in Threads, CountWaiter(t) PROVE WaitersExact'
  <2>1. pc[t] = "count" /\ Goto(t, "unlock") /\ waiters' = IF lp64 THEN waiters + 1 ELSE waiters
    BY <1>1 DEF CountWaiter
  <2>2. Counted' = Counted \union {t} /\ t \notin Counted
    BY <1>0, <2>1 DEF Counted, At, Goto
  <2>3. Cardinality(Counted') = Cardinality(Counted) + 1
    BY <1>0, <2>2, OneThread
  <2>4. QED
    BY <1>0, <2>1, <2>3 DEF WaitersExact
<1>2. ASSUME NEW t \in Threads, UncountWaiter(t) PROVE WaitersExact'
  <2>1. pc[t] = "uncount" /\ Goto(t, "relock") /\ waiters' = IF lp64 THEN waiters - 1 ELSE waiters
    BY <1>2 DEF UncountWaiter
  <2>2. Counted' = Counted \ {t} /\ t \in Counted
    BY <1>0, <2>1 DEF Counted, At, Goto
  <2>3. Cardinality(Counted') = Cardinality(Counted) - 1
    BY <1>0, <2>2, OneThread
  <2>4. QED
    BY <1>0, <2>1, <2>3 DEF WaitersExact
<1>3. ASSUME Counted' = Counted, waiters' = waiters PROVE WaitersExact'
  BY <1>0, <1>3 DEF WaitersExact
<1>4. ASSUME NEW t \in Threads, NEW m \in Locations, Goto(t, m),
             t \in Counted <=> m \in {"unlock", "wait", "asleep", "uncount"}
      PROVE  Counted' = Counted
  BY <1>0, <1>4 DEF Counted, At, Goto
<1>5. ASSUME NEW t \in Threads,
             \/ Enter(t) \/ Take(t) \/ Put(t) \/ Leave(t) \/ LoadState(t) \/ UnlockMutex(t) \/ FutexWait(t)
             \/ Timeout(t) \/ Interrupt(t) \/ RelockMutex(t) \/ Pulse(t)
      PROVE  WaitersExact'
  <2>1. waiters' = waiters
    BY <1>5 DEF Enter, Take, Put, Leave, LoadState, UnlockMutex, FutexWait, Timeout, Interrupt, RelockMutex, Pulse, cond
  <2>2. \E m \in Locations : Goto(t, m) /\ (pc[t] \in {"unlock", "wait", "asleep", "uncount"}
                                          <=> m \in {"unlock", "wait", "asleep", "uncount"})
    BY <1>5 DEF Enter, Take, Put, Leave, LoadState, UnlockMutex, FutexWait, Timeout, Interrupt, RelockMutex, Pulse,
                AfterPulse, Locations
  <2>3. pc[t] \in {"unlock", "wait", "asleep", "uncount"} <=> t \in Counted
    BY DEF Counted, At
  <2>4. QED
    BY <1>3, <1>4, <2>1, <2>2, <2>3
<1>6. ASSUME NEW t \in Threads, Wake(t) PROVE WaitersExact'
  <2>1. waiters' = waiters
    BY <1>6 DEF Wake, cond
  <2>2. PICK woken \in SUBSET At("asleep") :
          /\ pc' = [u \in Threads |-> IF u = t THEN AfterPulse(t) ELSE IF u \in woken THEN "uncount" ELSE pc[u]]
          /\ t \notin woken
    BY <1>6, WakeEffect DEF Inv
  <2>3. Counted' = Counted
    BY <1>0, <1>6, <2>2 DEF Counted, At, AfterPulse, Wake
  <2>4. QED
    BY <1>3, <2>1, <2>3
<1>7. WaitersExact'
  BY <1>1, <1>2, <1>5, <1>6 DEF Next, Progress
<1>8. QED
  BY <1>0, <1>7, ThreadSets DEF WaitersExact

(***************************************************************************)
(* The word tells a waiter that is about to sleep whether there has been a *)
(* pulse since it looked.                                                  *)
(***************************************************************************)
LEMMA WordTells ==
  ASSUME Inv, NEW t \in At("wait"), state = old_state[t]
  PROVE  missed[t] = 0
<1>1. /\ t \in Waiting /\ missed[t] \in 0 .. MaxMissed /\ old_state[t] \in 0 .. WordSize - 1
  BY DEF Inv, TypeOK, Waiting, At
<1>2. QED
  BY <1>1, CondAssumption DEF Inv, WordKept, COND_COUNTER_STEP

(***************************************************************************)
(* Every step keeps the word in pace with the pulses, and nobody falls     *)
(* asleep who has missed one.                                              *)
(***************************************************************************)
LEMMA WordKeptOn ==
  ASSUME Inv, Next
  PROVE  WordKept' /\ UnlockAndWaitAtomic'
<1>0. TypeOK /\ WordKept /\ UnlockAndWaitAtomic
  BY DEF Inv, NoSignalLost
<1> DEFINE Kept(u) == u \in Waiting /\ old_state'[u] = old_state[u] /\ missed'[u] = missed[u]
<1>1. ASSUME UNCHANGED state, \A u \in Waiting' : Kept(u) PROVE WordKept'
  BY <1>0, <1>1 DEF WordKept
<1>2. ASSUME NEW t \in Threads,
             \/ Enter(t) \/ Take(t) \/ Put(t) \/ Leave(t) \/ CountWaiter(t) \/ UnlockMutex(t)
             \/ Timeout(t) \/ Interrupt(t) \/ RelockMutex(t)
      PROVE  WordKept' /\ UnlockAndWaitAtomic'
  <2>1. UNCHANGED <<state, missed>>
    BY <1>2 DEF Enter, Take, Put, Leave, CountWaiter, UnlockMutex, Timeout, Interrupt, RelockMutex, cond, locals
  <2>2. \E m : /\ Goto(t, m) /\ m # "asleep"
               /\ m \in {"count", "unlock", "wait"} =>
                    pc[t] \in {"count", "unlock", "wait"} /\ old_state'[t] = old_state[t]
    BY <1>2 DEF Enter, Take, Put, Leave, CountWaiter, UnlockMutex, Timeout, Interrupt, RelockMutex, locals
  <2>3. \A u \in Threads \ {t} : old_state'[u] = old_state[u]
    BY <1>0, <1>2 DEF Enter, Take, Put, Leave, CountWaiter, UnlockMutex, Timeout, Interrupt, RelockMutex, locals,
                      Forget, TypeOK
  <2>4. \A u \in Waiting' : Kept(u)
    BY <1>0, <2>1, <2>2, <2>3 DEF Waiting, At, Goto, TypeOK
  <2>5. UnlockAndWaitAtomic'
    BY <1>0, <2>1, <2>2 DEF UnlockAndWaitAtomic, At, Goto, TypeOK
  <2>6. QED
    BY <1>1, <2>1, <2>4, <2>5
<1>3. ASSUME NEW t \in Threads, LoadState(t) PROVE WordKept' /\ UnlockAndWaitAtomic'
  <2>1. /\ pc' = [pc EXCEPT ![t] = "count"] /\ state' = state
        /\ old_state' = [old_state EXCEPT ![t] = state] /\ missed' = [missed EXCEPT ![t] = 0]
    BY <1>3 DEF LoadState, Goto, cond
  <2>2. \A u \in Waiting' : u = t \/ Kept(u)
    BY <1>0, <2>1 DEF Waiting, At, TypeOK
  <2>3. old_state'[t] = state /\ missed'[t] = 0 /\ state \in 0 .. WordSize - 1
    BY <1>0, <2>1 DEF TypeOK
  <2>4. WordKept'
    BY <1>0, <2>1, <2>2, <2>3, CondAssumption DEF WordKept, COND_COUNTER_STEP
  <2>5. UnlockAndWaitAtomic'
    BY <1>0, <2>1 DEF UnlockAndWaitAtomic, At, TypeOK
  <2>6. QED
    BY <2>4, <2>5
<1>4. ASSUME NEW t \in Threads, FutexWait(t) PROVE WordKept' /\ UnlockAndWaitAtomic'
  <2>1. /\ pc' = [pc EXCEPT ![t] = IF state = old_state[t] THEN "asleep" ELSE "uncount"] /\ pc[t] = "wait"
        /\ UNCHANGED <<state, missed>> /\ old_state' = [old_state EXCEPT ![t] = 0]
    BY <1>4 DEF FutexWait, Goto, Forget, cond
  <2>2. \A u \in Waiting' : Kept(u)
    BY <1>0, <2>1 DEF Waiting, At, TypeOK
  <2>3. state = old_state[t] => missed[t] = 0
    BY <2>1, WordTells DEF At
  <2>4. UnlockAndWaitAtomic'
    BY <1>0, <2>1, <2>3 DEF UnlockAndWaitAtomic, At, TypeOK
  <2>5. QED
    BY <1>1, <2>1, <2>2, <2>4
<1>5. ASSUME NEW t \in Threads, UncountWaiter(t) PROVE WordKept' /\ UnlockAndWaitAtomic'
  <2>1. /\ pc' = [pc EXCEPT ![t] = "relock"]
        /\ UNCHANGED <<state, old_state>> /\ missed' = [missed EXCEPT ![t] = 0]
    BY <1>5 DEF UncountWaiter, Goto
  <2>2. \A u \in Waiting' : Kept(u)
    BY <1>0, <2>1 DEF Waiting, At, TypeOK
  <2>3. UnlockAndWaitAtomic'
    BY <1>0, <2>1 DEF UnlockAndWaitAtomic, At, TypeOK
  <2>4. QED
    BY <1>1, <2>1, <2>2, <2>3
<1>6. ASSUME NEW t \in Threads, Pulse(t) PROVE WordKept' /\ UnlockAndWaitAtomic'
  <2>0. pc[t] = "pulse" /\ old_state' = old_state
    BY <1>6 DEF Pulse
  <2>1. \E m \in {"leave", "idle", "wake"} : pc' = [pc EXCEPT ![t] = m]
    BY <1>6 DEF Pulse, AfterPulse, Goto
  <2>2. Waiting' = Waiting /\ At("asleep")' = At("asleep") /\ \A u \in At("asleep") : u \notin Waiting
    BY <1>0, <2>0, <2>1 DEF Waiting, At, TypeOK
  <2>3. CASE lp64 /\ waiters = 0
    BY <1>0, <1>1, <1>6, <2>0, <2>2, <2>3 DEF Pulse, UnlockAndWaitAtomic
  <2>4. CASE ~(lp64 /\ waiters = 0)
    <3>1. /\ state' = (state + COND_COUNTER_STEP) % WordSize
          /\ missed' = [u \in Threads |-> IF u \in Waiting THEN missed[u] + 1 ELSE missed[u]]
          /\ \A u \in Waiting : missed[u] < MaxMissed
      BY <1>6, <2>4 DEF Pulse
    <3>2. UnlockAndWaitAtomic'
      BY <1>0, <2>2, <3>1 DEF UnlockAndWaitAtomic, At
    <3>3. WordKept'
      <4>1. SUFFICES ASSUME NEW u \in Waiting
                     PROVE  LET ahead == old_state[u] + COND_COUNTER_STEP * missed'[u] IN
                              state' = IF ahead < WordSize THEN ahead ELSE ahead - WordSize
        BY <2>0, <2>2 DEF WordKept
      <4>2. /\ old_state[u] \in 0 .. WordSize - 1 /\ missed[u] \in 0 .. MaxMissed /\ missed[u] < MaxMissed
            /\ missed'[u] = missed[u] + 1 /\ state \in 0 .. WordSize - 1
        BY <1>0, <3>1 DEF TypeOK, Waiting, At
      <4>3. LET ahead == old_state[u] + COND_COUNTER_STEP * missed[u] IN
              state = IF ahead < WordSize THEN ahead ELSE ahead - WordSize
        BY <1>0 DEF WordKept
      <4>4. state' = IF state + COND_COUNTER_STEP < WordSize THEN state + COND_COUNTER_STEP
                     ELSE state + COND_COUNTER_STEP - WordSize
        BY <3>1, <4>2, WordStep
      <4>5. QED
        BY <4>2, <4>3, <4>4, CondAssumption DEF COND_COUNTER_STEP
    <3>4. QED
      BY <3>2, <3>3
  <2>5. QED
    BY <2>3, <2>4
<1>7. ASSUME NEW t \in Threads, Wake(t) PROVE WordKept' /\ UnlockAndWaitAtomic'
  <2>1. PICK woken \in SUBSET At("asleep") :
          /\ pc' = [u \in Threads |-> IF u = t THEN AfterPulse(t) ELSE IF u \in woken THEN "uncount" ELSE pc[u]]
          /\ At("asleep")' = At("asleep") \ woken
    BY <1>0, <1>7, WakeEffect
  <2>2. UNCHANGED <<state, old_state, missed>>
    BY <1>7 DEF Wake, cond
  <2>3. \A u \in Waiting' : Kept(u)
    BY <1>0, <2>1, <2>2 DEF Waiting, At, AfterPulse
  <2>4. UnlockAndWaitAtomic'
    BY <1>0, <2>1, <2>2 DEF UnlockAndWaitAtomic
  <2>5. QED
    BY <1>1, <2>2, <2>3, <2>4
<1>8. QED
  BY <1>2, <1>3, <1>4, <1>5, <1>6, <1>7 DEF Next, Progress

-----------------------------------------------------------------------------
(***************************************************************************)
(* Whoever is about to pulse is on the way.                                *)
(***************************************************************************)
LEMMA Ways ==
  /\ OnTheWay \in SUBSET Threads /\ At("pulse") \subseteq OnTheWay
  /\ Cardinality(At("pulse")) \in Nat /\ Cardinality(OnTheWay) \in Nat
  /\ Cardinality(At("pulse")) <= Cardinality(OnTheWay)
<1>1. OnTheWay \in SUBSET Threads /\ At("pulse") \subseteq OnTheWay /\ At("pulse") \in SUBSET Threads
  BY DEF OnTheWay, At
<1>2. QED
  BY <1>1, ThreadSets

(***************************************************************************)
(* A step that neither puts items nor takes a thread off the way leaves    *)
(* the items covered, if it lets nobody fall asleep.                       *)
(***************************************************************************)
LEMMA StillCovered ==
  ASSUME Inv, items' \in Nat, items' <= items, UNCHANGED thread_count, OnTheWay \subseteq OnTheWay',
         At("asleep")' \subseteq At("asleep"), At("wake")' = At("wake"), At("pulse")' = At("pulse"),
         \A u \in At("wait")' : u \in At("wait") /\ missed'[u] = missed[u]
  PROVE  PulsesToCome' /\ NobodySleepsOnItems'
<1>1. /\ OnTheWay \in SUBSET Threads /\ OnTheWay' \in SUBSET Threads /\ At("pulse") \in SUBSET Threads
      /\ items \in Nat
  BY DEF OnTheWay, At, Inv, TypeOK
<1>2. /\ Cardinality(OnTheWay) \in Nat /\ Cardinality(OnTheWay') \in Nat /\ Cardinality(At("pulse")) \in Nat
      /\ Cardinality(OnTheWay) <= Cardinality(OnTheWay')
  BY <1>1, ThreadSets
<1>3. PulsesToCome'
  BY <1>1, <1>2 DEF Inv, PulsesToCome, Broadcasting
<1>4. NobodySleepsOnItems'
  BY <1>1, <1>2 DEF Inv, NoSignalLost, NobodySleepsOnItems, Broadcasting
<1>5. QED
  BY <1>3, <1>4

(***************************************************************************)
(* With an empty store there is nothing to cover.                          *)
(***************************************************************************)
LEMMA NothingToCover ==
  ASSUME items' = 0
  PROVE  PulsesToCome' /\ NobodySleepsOnItems'
<1>1. OnTheWay' \in SUBSET Threads /\ At("pulse")' \in SUBSET Threads
  BY DEF OnTheWay, At
<1>2. 0 <= Cardinality(OnTheWay') /\ 0 <= Cardinality(At("pulse")')
  BY <1>1, ThreadSets
<1>3. QED
  BY <1>2 DEF PulsesToCome, NobodySleepsOnItems

(***************************************************************************)
(* Every step leaves somebody for every item, as long as somebody sleeps   *)
(* or is about to.                                                         *)
(***************************************************************************)
LEMMA CoverKept ==
  ASSUME Inv, Next
  PROVE  PulsesToCome' /\ NobodySleepsOnItems'
<1> DEFINE Goal == PulsesToCome' /\ NobodySleepsOnItems'
<1>0. /\ pc \in [Threads -> Locations] /\ items \in Nat /\ missed \in [Threads -> 0 .. MaxMissed]
      /\ thread_count \in [Threads -> 0 .. Cardinality(Threads)]
      /\ TypeOK /\ Ownership /\ PulsesToCome /\ PulseCounts /\ NobodySleepsOnItems
  BY DEF Inv, TypeOK, NoSignalLost
<1>s. \A S \in SUBSET Threads : Cardinality(S) \in Nat
  BY ThreadSets
<1>1. ASSUME NEW t \in Threads, Enter(t) \/ Leave(t) \/ CountWaiter(t) \/ UncountWaiter(t) PROVE Goal
  <2>1. /\ pc[t] \in {"idle", "leave", "count", "uncount"}
        /\ \E m \in {"in", "idle", "unlock", "relock"} :
             Goto(t, m) /\ (pc[t] = "uncount" => m = "relock")
        /\ UNCHANGED <<items, thread_count>>
        /\ missed' = missed \/ missed' = [missed EXCEPT ![t] = 0]
    BY <1>1 DEF Enter, Leave, CountWaiter, UncountWaiter, locals
  <2>2. /\ OnTheWay \subseteq OnTheWay' /\ At("asleep")' \subseteq At("asleep") /\ At("wake")' = At("wake")
        /\ At("pulse")' = At("pulse")
        /\ \A u \in At("wait")' : u \in At("wait") /\ missed'[u] = missed[u]
    BY <1>0, <2>1 DEF OnTheWay, At, Goto
  <2>3. QED
    BY <1>0, <2>1, <2>2, StillCovered
<1>2. ASSUME NEW t \in Threads, Timeout(t) \/ Interrupt(t) PROVE Goal
  <2>1. /\ pc[t] \in {"wait", "asleep"} /\ Goto(t, "uncount") /\ UNCHANGED <<items, thread_count, missed>>
    BY <1>2 DEF Timeout, Interrupt, locals
  <2>2. /\ OnTheWay \subseteq OnTheWay' /\ At("asleep")' \subseteq At("asleep") /\ At("wake")' = At("wake")
        /\ At("pulse")' = At("pulse")
        /\ \A u \in At("wait")' : u \in At("wait") /\ missed'[u] = missed[u]
    BY <1>0, <2>1 DEF OnTheWay, At, Goto
  <2>3. QED
    BY <1>0, <2>1, <2>2, StillCovered
<1>3. ASSUME NEW t \in Threads, Take(t) PROVE Goal
  <2>1. /\ pc[t] \in {"in", "look"} /\ Goto(t, "leave") /\ items > 0 /\ items' = items - 1
        /\ UNCHANGED <<thread_count, missed>>
    BY <1>3 DEF Take, locals
  <2>2. /\ OnTheWay' = OnTheWay \ {t} /\ At("asleep")' = At("asleep") /\ At("wake")' = At("wake")
        /\ At("pulse")' = At("pulse") /\ At("wait")' = At("wait")
    BY <1>0, <2>1 DEF OnTheWay, At, Goto
  <2>3. Cardinality(OnTheWay') >= Cardinality(OnTheWay) - 1
    <3>1. Cardinality(OnTheWay \ {t}) =
            IF t \in OnTheWay THEN Cardinality(OnTheWay) - 1 ELSE Cardinality(OnTheWay)
      BY Ways, OneThread, Zenon
    <3>2. QED
      BY <2>2, <3>1, Ways
  <2>4. PulsesToCome'
    BY <1>0, <2>1, <2>2, Ways DEF PulsesToCome, Broadcasting
  <2>5. NobodySleepsOnItems'
    <3>1. Cardinality(OnTheWay') \in Nat
      BY <2>2, Ways, <1>s
    <3>2. QED
      BY <1>0, <2>1, <2>2, <2>3, <3>1, Ways DEF NobodySleepsOnItems, Broadcasting
  <2>6. QED
    BY <2>4, <2>5
<1>4. ASSUME NEW t \in Threads, Put(t) PROVE Goal
  <2>1. PICK k \in 1 .. MaxItems - items, n \in {1, Cardinality(Threads)} :
           /\ items' = items + k /\ thread_count' = [thread_count EXCEPT ![t] = n]
           /\ k = 1 \/ n = Cardinality(Threads)
    BY <1>4, Zenon DEF Put
  <2>2. pc[t] = "in" /\ Goto(t, "pulse") /\ UNCHANGED missed
    BY <1>4 DEF Put
  <2>3. /\ OnTheWay' = OnTheWay \union {t} /\ At("asleep")' = At("asleep") /\ At("wake")' = At("wake")
        /\ At("pulse")' = At("pulse") \union {t} /\ At("wait")' = At("wait")
        /\ t \notin OnTheWay /\ t \notin At("pulse") /\ t \notin At("wake")
    BY <1>0, <2>2 DEF OnTheWay, At, Goto
  <2>4. CASE n = Cardinality(Threads)
    <3>1. thread_count'[t] = Cardinality(Threads) /\ t \in At("pulse")'
      BY <1>0, <2>1, <2>3, <2>4
    <3>2. QED
      BY <3>1 DEF PulsesToCome, NobodySleepsOnItems, Broadcasting
  <2>5. CASE k = 1
    <3>1. At("pulse") \in SUBSET Threads
      BY DEF At
    <3>2. /\ Cardinality(OnTheWay') = Cardinality(OnTheWay) + 1
          /\ Cardinality(At("pulse")') = Cardinality(At("pulse")) + 1
      BY <2>3, <3>1, Ways, OneThread
    <3>3. /\ Broadcasting(At("pulse")) => Broadcasting(At("pulse"))'
          /\ Broadcasting(At("pulse") \union At("wake")) => Broadcasting(At("pulse") \union At("wake"))'
      BY <1>0, <2>1, <2>3 DEF Broadcasting, At
    <3>4. PulsesToCome'
      BY <1>0, <2>1, <2>2, <2>3, <2>5, <3>2, <3>3, Ways, SMTT(30) DEF PulsesToCome
    <3>5. NobodySleepsOnItems'
      BY <1>0, <2>1, <2>3, <2>5, <3>2, <3>3, Ways DEF NobodySleepsOnItems
    <3>6. QED
      BY <3>4, <3>5
  <2>6. QED
    BY <2>1, <2>4, <2>5
<1>5. ASSUME NEW t \in Threads, LoadState(t) \/ UnlockMutex(t) PROVE Goal
  <2>1. items' = 0
    BY <1>0, <1>5 DEF LoadState, UnlockMutex, Ownership
  <2>2. QED
    BY <2>1, NothingToCover
<1>6. ASSUME NEW t \in Threads, RelockMutex(t) PROVE Goal
  <2>1. pc[t] = "relock" /\ UNCHANGED <<items, thread_count, missed>>
    BY <1>6 DEF RelockMutex, locals
  <2>2. CASE items = 0
    BY <2>1, <2>2, NothingToCover
  <2>3. CASE Goto(t, "look")
    <3>1. /\ OnTheWay \subseteq OnTheWay' /\ At("asleep")' \subseteq At("asleep") /\ At("wake")' = At("wake")
          /\ At("pulse")' = At("pulse")
          /\ \A u \in At("wait")' : u \in At("wait") /\ missed'[u] = missed[u]
      BY <1>0, <2>1, <2>3 DEF OnTheWay, At, Goto
    <3>2. QED
      BY <1>0, <2>1, <3>1, StillCovered
  <2>4. QED
    BY <1>6, <2>2, <2>3 DEF RelockMutex
<1>7. ASSUME NEW t \in Threads, FutexWait(t) PROVE Goal
  <2>1. /\ pc[t] = "wait" /\ Goto(t, IF state = old_state[t] THEN "asleep" ELSE "uncount")
        /\ UNCHANGED <<items, thread_count, missed>>
    BY <1>7 DEF FutexWait
  <2>2. CASE state # old_state[t]
    <3>1. /\ OnTheWay \subseteq OnTheWay' /\ At("asleep")' \subseteq At("asleep") /\ At("wake")' = At("wake")
          /\ At("pulse")' = At("pulse")
          /\ \A u \in At("wait")' : u \in At("wait") /\ missed'[u] = missed[u]
      BY <1>0, <2>1, <2>2 DEF OnTheWay, At, Goto
    <3>2. QED
      BY <1>0, <2>1, <3>1, StillCovered
  <2>3. CASE state = old_state[t]
    <3>1. /\ OnTheWay' = OnTheWay /\ At("wake")' = At("wake") /\ At("pulse")' = At("pulse")
          /\ At("wait")' = At("wait") \ {t} /\ t \in At("wait")
      BY <1>0, <2>1, <2>3 DEF OnTheWay, At, Goto
    <3>2. missed[t] = 0
      BY <2>3, <3>1, WordTells
    <3>3. items <= Cardinality(At("pulse")) \/ Broadcasting(At("pulse"))
      BY <1>0, <3>1, <3>2 DEF PulsesToCome
    <3>4. PulsesToCome'
      BY <1>0, <2>1, <3>1 DEF PulsesToCome, Broadcasting
    <3>5. NobodySleepsOnItems'
      BY <1>0, <2>1, <3>1, <3>3, Ways DEF NobodySleepsOnItems, Broadcasting
    <3>6. QED
      BY <3>4, <3>5
  <2>4. QED
    BY <2>2, <2>3
<1>8. ASSUME NEW t \in Threads, Pulse(t) PROVE Goal
  <2>1. pc[t] = "pulse" /\ UNCHANGED <<items, thread_count>>
    BY <1>8 DEF Pulse
  <2>2. CASE lp64 /\ waiters = 0
    <3>1. Counted = {}
      <4>1. IsFiniteSet(Counted) /\ Cardinality(Counted) = 0
        BY <2>2, ThreadSets DEF Inv, WaitersExact, Counted, At
      <4>2. QED
        BY <4>1, FS_EmptySet
    <3>2. \E m \in {"leave", "idle"} : Goto(t, m)
      BY <1>8, <2>2 DEF Pulse, AfterPulse
    <3>3. At("asleep")' = {} /\ At("wait")' = {}
      BY <1>0, <3>1, <3>2 DEF Counted, At, Goto
    <3>4. QED
      BY <3>3 DEF PulsesToCome, NobodySleepsOnItems
  <2>3. CASE ~(lp64 /\ waiters = 0)
    <3>1. /\ Goto(t, "wake")
          /\ missed' = [u \in Threads |-> IF u \in Waiting THEN missed[u] + 1 ELSE missed[u]]
      BY <1>8, <2>3 DEF Pulse
    <3>2. /\ OnTheWay' = OnTheWay /\ At("asleep")' = At("asleep") /\ At("wait")' = At("wait")
          /\ (At("pulse") \union At("wake"))' = At("pulse") \union At("wake")
      BY <1>0, <2>1, <3>1 DEF OnTheWay, At, Goto
    <3>3. \A u \in At("wait") : missed'[u] # 0
      BY <1>0, <3>1 DEF At, Waiting
    <3>4. NobodySleepsOnItems'
      BY <1>0, <2>1, <3>2 DEF NobodySleepsOnItems, Broadcasting
    <3>5. QED
      BY <3>2, <3>3, <3>4 DEF PulsesToCome
  <2>4. QED
    BY <2>2, <2>3
<1>9. ASSUME NEW t \in Threads, Wake(t) PROVE Goal
  <2>1. PICK woken \in SUBSET At("asleep") :
          /\ woken = At("asleep") \/ Cardinality(woken) = thread_count[t]
          /\ Cardinality(At("asleep")) <= thread_count[t] => woken = At("asleep")
          /\ t \notin woken
          /\ pc' = [u \in Threads |-> IF u = t THEN AfterPulse(t) ELSE IF u \in woken THEN "uncount" ELSE pc[u]]
          /\ At("asleep")' = At("asleep") \ woken
          /\ At("uncount")' = At("uncount") \union woken
          /\ At("wake")' = At("wake") \ {t}
          /\ At("pulse")' = At("pulse")
          /\ At("wait")' = At("wait")
    BY <1>0, <1>9, WakeEffect
  <2>2. /\ pc[t] = "wake" /\ thread_count' = [thread_count EXCEPT ![t] = 0] /\ UNCHANGED <<items, missed>>
    BY <1>9 DEF Wake
  <2>3. PulsesToCome'
    <3>1. Broadcasting(At("pulse")) => Broadcasting(At("pulse"))'
      BY <1>0, <2>1, <2>2 DEF Broadcasting, At
    <3>2. QED
      BY <1>0, <2>1, <2>2, <3>1 DEF PulsesToCome
  <2>4. NobodySleepsOnItems'
    <3>1. CASE woken = At("asleep")
      BY <2>1, <3>1 DEF NobodySleepsOnItems
    <3>2. CASE woken # At("asleep")
      <4>1. thread_count[t] = 1 /\ thread_count[t] # Cardinality(Threads) /\ Cardinality(woken) = 1
        <5>1. Cardinality(At("asleep")) <= Cardinality(Threads) /\ t \in At("wake")
          BY <2>2, ThreadSets DEF At
        <5>2. thread_count[t] # Cardinality(Threads)
          BY <2>1, <3>2, <5>1
        <5>3. QED
          BY <1>0, <2>1, <3>2, <5>1, <5>2 DEF PulseCounts
      <4>2. PICK w \in woken : TRUE
        <5>1. woken # {}
          BY <4>1, FS_EmptySet
        <5>2. QED
          BY <5>1
      <4>3. w \in Threads /\ pc[w] = "asleep" /\ w # t /\ t \in OnTheWay /\ w \notin OnTheWay
        BY <2>1, <2>2, <4>2, SMTT(30) DEF At, OnTheWay
      <4>4. (OnTheWay \ {t}) \union {w} \subseteq OnTheWay'
        BY <1>0, <2>1, <2>2, <4>3, SMTT(30) DEF OnTheWay, At
      <4>5. OnTheWay \ {t} \in SUBSET Threads /\ w \notin OnTheWay \ {t} /\ OnTheWay' \in SUBSET Threads
        BY <4>3, Ways DEF OnTheWay, At
      <4>6. Cardinality((OnTheWay \ {t}) \union {w}) = Cardinality(OnTheWay)
        <5>1. Cardinality(OnTheWay \ {t}) = Cardinality(OnTheWay) - 1
          BY <4>3, Ways, OneThread
        <5>2. Cardinality((OnTheWay \ {t}) \union {w}) = Cardinality(OnTheWay \ {t}) + 1
          BY <4>3, <4>5, OneThread
        <5>3. QED
          BY <5>1, <5>2, Ways
      <4>7. Cardinality(OnTheWay) <= Cardinality(OnTheWay') /\ Cardinality(OnTheWay') \in Nat
        <5>1. (OnTheWay \ {t}) \union {w} \in SUBSET Threads
          BY <4>3, <4>5
        <5>2. QED
          BY <4>4, <4>5, <4>6, <5>1, ThreadSets
      <4>8. Broadcasting(At("pulse") \union At("wake")) => Broadcasting(At("pulse") \union At("wake"))'
        BY <1>0, <2>1, <2>2, <4>1 DEF Broadcasting, At
      <4>9. QED
        BY <1>0, <2>1, <2>2, <4>7, <4>8, Ways DEF NobodySleepsOnItems
    <3>3. QED
      BY <3>1, <3>2
  <2>5. QED
    BY <2>3, <2>4
<1>10. QED
  BY <1>1, <1>2, <1>3, <1>4, <1>5, <1>6, <1>7, <1>8, <1>9 DEF Next, Progress

-----------------------------------------------------------------------------
(***************************************************************************)
(* Every step of wait, signal, broadcast and of their users preserves the  *)
(* inductive invariant.                                                    *)
(***************************************************************************)
LEMMA NextInv == Inv /\ [Next]_vars => Inv'
<1>1. ASSUME Inv, Next PROVE Inv'
  <2>1. TypeOK'
    <3>1. RestTyped' /\ waiters' \in 0 .. Cardinality(Threads)
      BY <1>1, ControlKept, WaitersKept
    <3>2. lp64' \in BOOLEAN
      BY <1>1, ControlKept, SMTT(30) DEF Inv, TypeOK
    <3>3. QED
      BY <3>1, <3>2 DEF TypeOK, RestTyped
  <2>2. QED
    BY <1>1, <2>1, ControlKept, WaitersKept, WordKeptOn, CoverKept DEF Inv, NoSignalLost
<1>2. ASSUME Inv, UNCHANGED vars PROVE Inv'
  BY <1>2
     DEF vars, cond, locals, Inv, TypeOK, Ownership, WaitersExact, WordKept, PulsesToCome, PulseCounts, NoSignalLost,
         UnlockAndWaitAtomic, NobodySleepsOnItems, OnTheWay, Broadcasting, Counted, Waiting, At
<1>3. QED
  BY <1>1, <1>2

(***************************************************************************)
(* pthread_cond_signal and broadcast are lost on no thread that has begun  *)
(* to wait, and the early return of __pthread_cond_pulse for a count of 0  *)
(* skips nobody: while a thread sleeps there is somebody on the way for    *)
(* every item.                                                             *)
(***************************************************************************)
THEOREM CondNoSignalLost == Spec => []NoSignalLost
<1>1. Inv => NoSignalLost
  BY DEF Inv
<1>2. QED
  BY InitInv, NextInv, <1>1, PTL DEF Spec
=============================================================================
