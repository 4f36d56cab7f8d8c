------------------------ MODULE PthreadRwlockProofs -------------------------
(***************************************************************************)
(* Proofs about the read-write lock for any finite set of threads.         *)
(***************************************************************************)
EXTENDS PthreadRwlock, FiniteSetTheorems, TLAPS

(***************************************************************************)
(* The holds and the pending threads that the word counts are finite.      *)
(***************************************************************************)
LEMMA HoldsFinite == IsFiniteSet(ReadHolds)
<1>1. IsFiniteSet(1 .. MaxHolds)
  BY FS_Interval, RwlockAssumption
<1>2. IsFiniteSet(Threads \X (1 .. MaxHolds))
  BY <1>1, FS_Product, RwlockAssumption
<1>3. ReadHolds \subseteq Threads \X (1 .. MaxHolds)
  BY DEF ReadHolds
<1>4. QED
  BY <1>2, <1>3, FS_Subset

(***************************************************************************)
(* Finitely many threads are pending.                                      *)
(***************************************************************************)
LEMMA PendingFinite == \A m \in Modes : IsFiniteSet(Pending(m))
BY FS_Subset, RwlockAssumption DEF Pending

(***************************************************************************)
(* A read lock adds one hold.                                              *)
(***************************************************************************)
LEMMA HoldAdded ==
  ASSUME NEW t \in Threads, reads \in [Threads -> 0 .. MaxHolds], reads[t] < MaxHolds,
         reads' = [reads EXCEPT ![t] = @ + 1]
  PROVE  Cardinality(ReadHolds') = Cardinality(ReadHolds) + 1
<1> DEFINE h == <<t, reads[t] + 1>>
<1>1. h \notin ReadHolds
  BY RwlockAssumption DEF ReadHolds
<1>2. ReadHolds' = ReadHolds \union {h}
  <2>1. ASSUME NEW u \in Threads, NEW n \in 1 .. MaxHolds
        PROVE  n <= reads'[u] <=> n <= reads[u] \/ (u = t /\ n = reads[t] + 1)
    BY RwlockAssumption
  <2>2. reads[t] + 1 \in 1 .. MaxHolds
    BY RwlockAssumption
  <2>3. QED
    BY <2>1, <2>2 DEF ReadHolds
<1>3. QED
  BY <1>1, <1>2, HoldsFinite, FS_AddElement, SMTT(30)

(***************************************************************************)
(* An unlock by a reader takes one hold away.                              *)
(***************************************************************************)
LEMMA HoldDropped ==
  ASSUME NEW t \in Threads, reads \in [Threads -> 0 .. MaxHolds], reads[t] > 0,
         reads' = [reads EXCEPT ![t] = @ - 1]
  PROVE  Cardinality(ReadHolds') = Cardinality(ReadHolds) - 1
<1> DEFINE h == <<t, reads[t]>>
<1>1. h \in ReadHolds
  BY RwlockAssumption DEF ReadHolds
<1>2. ReadHolds' = ReadHolds \ {h}
  <2>1. ASSUME NEW u \in Threads, NEW n \in 1 .. MaxHolds
        PROVE  n <= reads'[u] <=> n <= reads[u] /\ ~(u = t /\ n = reads[t])
    BY RwlockAssumption
  <2>3. QED
    BY <2>1 DEF ReadHolds
<1>3. QED
  BY <1>1, <1>2, HoldsFinite, FS_RemoveElement, Zenon

(***************************************************************************)
(* The count of the word is 0 exactly when nobody holds the lock for       *)
(* reading.                                                                *)
(***************************************************************************)
LEMMA NoHolds ==
  ASSUME reads \in [Threads -> 0 .. MaxHolds]
  PROVE  Cardinality(ReadHolds) = 0 <=> \A t \in Threads : reads[t] = 0
<1>1. ASSUME ReadHolds = {}, NEW t \in Threads PROVE reads[t] = 0
  <2>1. SUFFICES ASSUME reads[t] # 0 PROVE FALSE
    OBVIOUS
  <2>2. <<t, 1>> \in ReadHolds
    BY <2>1, RwlockAssumption DEF ReadHolds
  <2>3. QED
    BY <1>1, <2>2
<1>2. ASSUME \A t \in Threads : reads[t] = 0 PROVE ReadHolds = {}
  BY <1>2, RwlockAssumption DEF ReadHolds
<1>3. QED
  BY <1>1, <1>2, HoldsFinite, FS_EmptySet

(***************************************************************************)
(* A step in which nobody becomes pending or stops being pending leaves    *)
(* the counts and flags right.                                             *)
(***************************************************************************)
LEMMA PendingKept ==
  ASSUME PendingAgrees, UNCHANGED <<pendingCount, havePending>>,
         \A u \in Threads : /\ pc'[u] \in PendingLocations <=> pc[u] \in PendingLocations
                            /\ pc[u] \in PendingLocations => mode'[u] = mode[u]
  PROVE  PendingAgrees'
<1>1. \A m \in Modes : Pending(m)' = Pending(m)
  BY DEF Pending
<1>2. QED
  BY <1>1 DEF PendingAgrees

(***************************************************************************)
(* What becoming pending and ceasing to be pending do to the count.        *)
(***************************************************************************)
LEMMA PendingAdded ==
  ASSUME TypeOK, NEW t \in Threads, pc[t] \notin PendingLocations, UNCHANGED mode,
         NEW l \in PendingLocations, pc' = [pc EXCEPT ![t] = l]
  PROVE  \A m \in Modes :
           /\ Cardinality(Pending(m)') = Cardinality(Pending(m)) + IF m = mode[t] THEN 1 ELSE 0
           /\ Pending(m)' = {} <=> Pending(m) = {} /\ m # mode[t]
<1> SUFFICES ASSUME NEW m \in Modes
             PROVE  /\ Cardinality(Pending(m)') = Cardinality(Pending(m)) + IF m = mode[t] THEN 1 ELSE 0
                    /\ Pending(m)' = {} <=> Pending(m) = {} /\ m # mode[t]
  OBVIOUS
<1>1. t \notin Pending(m)
  BY DEF Pending
<1>2. Pending(m)' = IF m = mode[t] THEN Pending(m) \union {t} ELSE Pending(m)
  BY DEF Pending, TypeOK
<1>3. Cardinality(Pending(m)) \in Nat
  BY PendingFinite, FS_CardinalityType
<1>4. Pending(m)' = {} <=> Pending(m) = {} /\ m # mode[t]
  BY <1>2
<1>5. Cardinality(Pending(m)') = Cardinality(Pending(m)) + IF m = mode[t] THEN 1 ELSE 0
  <2>1. CASE m = mode[t]
    BY <2>1, <1>1, <1>2, PendingFinite, FS_AddElement, Zenon
  <2>2. CASE m # mode[t]
    BY <2>2, <1>2, <1>3
  <2>3. QED
    BY <2>1, <2>2
<1>6. QED
  BY <1>4, <1>5

(***************************************************************************)
(* A thread that is no longer pending is no longer counted.                *)
(***************************************************************************)
LEMMA PendingRemoved ==
  ASSUME TypeOK, NEW t \in Threads, pc[t] \in PendingLocations, UNCHANGED mode,
         NEW l, l \notin PendingLocations, pc' = [pc EXCEPT ![t] = l]
  PROVE  \A m \in Modes :
           /\ Cardinality(Pending(m)) \in Nat
           /\ Cardinality(Pending(m)') = Cardinality(Pending(m)) - IF m = mode[t] THEN 1 ELSE 0
           /\ m = mode[t] => Cardinality(Pending(m)) # 0
           /\ Pending(m)' = {} <=> Cardinality(Pending(m)') = 0
<1> SUFFICES ASSUME NEW m \in Modes
             PROVE  /\ Cardinality(Pending(m)) \in Nat
                    /\ Cardinality(Pending(m)') = Cardinality(Pending(m)) - IF m = mode[t] THEN 1 ELSE 0
                    /\ m = mode[t] => Cardinality(Pending(m)) # 0
                    /\ Pending(m)' = {} <=> Cardinality(Pending(m)') = 0
  OBVIOUS
<1>1. m = mode[t] => t \in Pending(m)
  BY DEF Pending
<1>2. Pending(m)' = IF m = mode[t] THEN Pending(m) \ {t} ELSE Pending(m)
  BY DEF Pending, TypeOK
<1>3. Cardinality(Pending(m)) \in Nat
  BY PendingFinite, FS_CardinalityType
<1>4. IsFiniteSet(Pending(m)') /\ IsFiniteSet(Pending(m))
  BY <1>2, PendingFinite, FS_RemoveElement
<1>5. Cardinality(Pending(m)') = Cardinality(Pending(m)) - IF m = mode[t] THEN 1 ELSE 0
  BY <1>1, <1>2, <1>3, <1>4, FS_RemoveElement
<1>6. m = mode[t] => Cardinality(Pending(m)) # 0
  BY <1>1, <1>4, FS_EmptySet
<1>7. QED
  BY <1>3, <1>4, <1>5, <1>6, FS_EmptySet

-----------------------------------------------------------------------------
(***************************************************************************)
(* pthread_rwlock_init satisfies the inductive invariant.                  *)
(***************************************************************************)
LEMMA InitInv == Init => Inv
<1> SUFFICES ASSUME Init PROVE Inv
  OBVIOUS
<1>1. TypeOK
  <2>1. /\ readerCount \in 0 .. MaxReaders
        /\ pendingCount \in [Modes -> Nat]
        /\ pc \in [Threads -> Locations]
        /\ reads \in [Threads -> 0 .. MaxHolds]
    BY RwlockAssumption DEF Init, Locations
  <2>2. QED
    BY <2>1, Zenon DEF Init, TypeOK, Modes
<1>b. WriterIsAlone /\ WriterTidExact /\ CallsAllowed
  BY ActorsAssumption
     DEF Init, WriterIsAlone, WriterTidExact, CallsAllowed, PendingLocations, WriterLocations
<1>a. HandoverUnderway
  BY DEF Init, HandoverUnderway
<1>2. WordAgrees
  BY <1>1, NoHolds DEF Init, WordAgrees, WriterLocations, TypeOK
<1>3. PendingAgrees
  <2>1. \A m \in Modes : Pending(m) = {}
    BY DEF Init, Pending, PendingLocations
  <2>2. QED
    BY <2>1, FS_EmptySet, Zenon DEF Init, PendingAgrees
<1>4. QED
  BY <1>1, <1>a, <1>b, <1>2, <1>3 DEF Inv

(***************************************************************************)
(* The parts of the invariant that need no counting.                       *)
(***************************************************************************)
Control == TypeOK /\ WriterIsAlone /\ WriterTidExact /\ CallsAllowed
           /\ (ownedByWriter <=> \E t \in Threads : pc[t] \in WriterLocations)

(***************************************************************************)
(* Every step of pthread_rwlock_t keeps them.                              *)
(***************************************************************************)
LEMMA ControlKept == Inv /\ [Next]_vars => Control'
<1> SUFFICES ASSUME Inv, [Next]_vars PROVE Control'
  OBVIOUS
<1>0. readerCount = 0 <=> \A t \in Threads : reads[t] = 0
  BY NoHolds DEF Inv, TypeOK, WordAgrees
<1>a. \A t \in Threads : reads[t] > 0 => readerCount > 0
  BY <1>0, SMTT(30) DEF Inv, TypeOK
<1>b. \A t \in Threads : pc[t] \in {"unpend", "expired"} => pendingCount[mode[t]] > 0
  <2>1. SUFFICES ASSUME NEW t \in Threads, pc[t] \in {"unpend", "expired"}
                 PROVE  pendingCount[mode[t]] > 0
    OBVIOUS
  <2>2. mode[t] \in Modes /\ Pending(mode[t]) # {}
    BY <2>1, SMTT(30) DEF Inv, TypeOK, Pending, PendingLocations
  <2>3. QED
    BY <2>2, PendingFinite, FS_EmptySet, FS_CardinalityType, SMTT(30) DEF Inv, PendingAgrees
<1> USE RwlockAssumption, ActorsAssumption
    DEF Inv, Control, TypeOK, WriterIsAlone, WriterTidExact, CallsAllowed, WordAgrees, Locations,
        PendingLocations, WriterLocations, Modes, Goto
<1>1. ASSUME NEW t \in Threads, TryLock(t) PROVE Control'
  <2>1. CASE MayCall(t, "read") /\ AcquireRead(t)
    BY <2>1, <1>1 DEF TryLock, MayCall, AcquireRead, CanAcquire, fixed, call
  <2>2. CASE MayCall(t, "write") /\ AcquireWrite(t)
    BY <2>2, <1>0, <1>1 DEF TryLock, MayCall, AcquireWrite, CanAcquire, fixed, call
  <2>3. QED
    BY <1>1, <2>1, <2>2 DEF TryLock
<1>2. ASSUME NEW t \in Threads, NEW m \in Modes, NEW d \in BOOLEAN, Lock(t, m, d) PROVE Control'
  BY <1>2, SMTT(30) DEF Lock, MayCall, fixed, word
<1>3. ASSUME NEW t \in Threads, Try(t) PROVE Control'
  <2>1. CASE mode[t] = "read" /\ AcquireRead(t)
    BY <2>1, <1>3, SMTT(30) DEF Try, AcquireRead, CanAcquire, fixed, call
  <2>2. CASE mode[t] = "write" /\ AcquireWrite(t)
    BY <2>2, <1>0, <1>3 DEF Try, AcquireWrite, CanAcquire, fixed, call
  <2>3. CASE UNCHANGED <<word, reads>> /\ (Goto(t, "idle") \/ Goto(t, "reload"))
    BY <2>3, <1>3 DEF Try, fixed, call, word
  <2>4. QED
    BY <1>3, <2>1, <2>2, <2>3, SMTT(30) DEF Try
<1>4. ASSUME NEW t \in Threads, Reload(t) PROVE Control'
  BY <1>4 DEF Reload, fixed, call, word
<1>5. ASSUME NEW t \in Threads, Pend(t) PROVE Control'
  BY <1>5 DEF Pend, fixed, call
<1>6. ASSUME NEW t \in Threads, FutexWait(t) PROVE Control'
  BY <1>6 DEF FutexWait, fixed, call, word
<1>7. ASSUME NEW t \in Threads, Unpend(t) PROVE Control'
  BY <1>b, <1>7, SMTT(30) DEF Unpend, fixed, call
<1>8. ASSUME NEW t \in Threads, SetWriterTid(t) PROVE Control'
  BY <1>8 DEF SetWriterTid, fixed, call, word
<1>9. ASSUME NEW t \in Threads, UnlockClearTid(t) PROVE Control'
  BY <1>9 DEF UnlockClearTid, fixed, call, word
<1>10. ASSUME NEW t \in Threads, UnlockWrite(t) PROVE Control'
  BY <1>10, ZenonT(30) DEF UnlockWrite, fixed, call
<1>11. ASSUME NEW t \in Threads, UnlockRead(t) PROVE Control'
  BY <1>a, <1>11 DEF UnlockRead, fixed, call
<1>12. ASSUME NEW t \in Threads, Handoff(t) PROVE Control'
  BY <1>12, SMTT(30) DEF Handoff, HandoffTo, fixed, call, word
<1>13. ASSUME NEW t \in Threads, Wake(t) PROVE Control'
  BY <1>13, SMTT(30) DEF Wake, WakeOne, WakeAll, Asleep, fixed, call, word
<1>14. ASSUME NEW t \in Threads, Interrupt(t) PROVE Control'
  BY <1>14, SMTT(30) DEF Interrupt, fixed, call, word
<1>15. ASSUME NEW t \in Threads, Timeout(t) PROVE Control'
  BY <1>15, SMTT(30) DEF Timeout, fixed, call, word
<1>16. CASE UNCHANGED vars
  BY <1>16 DEF vars, fixed, call, word
<1>17. QED
  BY <1>1, <1>2, <1>3, <1>4, <1>5, <1>6, <1>7, <1>8, <1>9, <1>10, <1>11, <1>12, <1>13, <1>14,
     <1>15, <1>16, SMTT(30) DEF Next, Progress

(***************************************************************************)
(* Every step keeps reader_count equal to the number of holds.             *)
(***************************************************************************)
LEMMA HoldsCounted ==
  Inv /\ [Next]_vars => readerCount' = Cardinality(ReadHolds')
<1> SUFFICES ASSUME Inv, [Next]_vars PROVE readerCount' = Cardinality(ReadHolds')
  OBVIOUS
<1>1. readerCount = Cardinality(ReadHolds) /\ readerCount \in Int
  BY DEF Inv, WordAgrees, TypeOK
<1>2. CASE UNCHANGED <<readerCount, reads>>
  BY <1>1, <1>2 DEF ReadHolds
<1>3. ASSUME NEW t \in Threads, AcquireRead(t), reads[t] < MaxHolds
      PROVE  readerCount' = Cardinality(ReadHolds')
  BY <1>1, <1>3, HoldAdded, Zenon DEF AcquireRead, Inv, TypeOK
<1>4. ASSUME NEW t \in Threads, UnlockRead(t) PROVE readerCount' = Cardinality(ReadHolds')
  BY <1>1, <1>4, HoldDropped, Zenon DEF UnlockRead, Inv, TypeOK
<1>5. ASSUME NEW t \in Threads, TryLock(t) PROVE readerCount' = Cardinality(ReadHolds')
  <2>1. MayCall(t, "read") => reads[t] < MaxHolds
    BY RwlockAssumption DEF MayCall, Inv, TypeOK
  <2>2. QED
    BY <1>2, <1>3, <1>5, <2>1 DEF TryLock, AcquireWrite
<1>6. ASSUME NEW t \in Threads, Try(t) PROVE readerCount' = Cardinality(ReadHolds')
  <2>1. mode[t] = "read" => reads[t] < MaxHolds
    BY <1>6 DEF Try, Inv, CallsAllowed
  <2>2. QED
    BY <1>2, <1>3, <1>6, <2>1 DEF Try, AcquireWrite, word
<1>7. UNCHANGED <<readerCount, reads>> \/ \E t \in Threads : TryLock(t) \/ Try(t) \/ UnlockRead(t)
  BY SMTT(30) DEF Next, Progress, Lock, Reload, Pend, FutexWait, Unpend, SetWriterTid, UnlockClearTid,
         UnlockWrite, Handoff, Wake, Interrupt, Timeout, vars, word
<1>8. QED
  BY <1>2, <1>4, <1>5, <1>6, <1>7

(***************************************************************************)
(* Every step keeps the pending counts and flags right.                    *)
(***************************************************************************)
LEMMA PendingCounted == Inv /\ [Next]_vars => PendingAgrees'
<1> SUFFICES ASSUME Inv, [Next]_vars PROVE PendingAgrees'
  OBVIOUS
<1>1. ASSUME NEW t \in Threads, Pend(t) PROVE PendingAgrees'
  <2>1. PICK l \in PendingLocations : pc' = [pc EXCEPT ![t] = l]
    BY <1>1, Zenon DEF Pend, Goto, PendingLocations
  <2>2. mode[t] \in Modes /\ pc[t] \notin PendingLocations /\ UNCHANGED mode
    BY <1>1 DEF Pend, PendingLocations, Inv, TypeOK, call
  <2>3. \A m \in Modes :
           /\ Cardinality(Pending(m)') = Cardinality(Pending(m)) + IF m = mode[t] THEN 1 ELSE 0
           /\ Pending(m)' = {} <=> Pending(m) = {} /\ m # mode[t]
    BY <2>1, <2>2, PendingAdded, Zenon DEF Inv
  <2>4. QED
    BY <1>1, <2>2, <2>3 DEF Pend, PendingAgrees, Inv, TypeOK
<1>2. ASSUME NEW t \in Threads, Unpend(t) PROVE PendingAgrees'
  <2>1. PICK l \in {"idle", "try"} : pc' = [pc EXCEPT ![t] = l]
    BY <1>2, Zenon DEF Unpend, Goto
  <2>2. mode[t] \in Modes /\ pc[t] \in PendingLocations /\ UNCHANGED mode /\ l \notin PendingLocations
    BY <1>2 DEF Unpend, PendingLocations, Inv, TypeOK, call
  <2>3. \A m \in Modes :
           /\ Cardinality(Pending(m)) \in Nat
           /\ Cardinality(Pending(m)') = Cardinality(Pending(m)) - IF m = mode[t] THEN 1 ELSE 0
           /\ m = mode[t] => Cardinality(Pending(m)) # 0
           /\ Pending(m)' = {} <=> Cardinality(Pending(m)') = 0
    BY <2>1, <2>2, PendingRemoved, Zenon DEF Inv
  <2>4. \A m \in Modes : Pending(m) = {} <=> Cardinality(Pending(m)) = 0
    BY PendingFinite, FS_EmptySet
  <2>5. SUFFICES ASSUME NEW m \in Modes
                 PROVE  /\ pendingCount'[m] = Cardinality(Pending(m)')
                        /\ havePending'[m] <=> Pending(m)' # {}
    BY DEF PendingAgrees
  <2>6. /\ pendingCount[m] = Cardinality(Pending(m))
        /\ havePending[m] <=> Pending(m) # {}
        /\ pendingCount \in [Modes -> Nat] /\ havePending \in [Modes -> BOOLEAN]
    BY DEF Inv, PendingAgrees, TypeOK
  <2>7. CASE m = mode[t]
    <3>1. /\ pendingCount'[m] = pendingCount[m] - 1
          /\ havePending'[m] = (havePending[m] /\ pendingCount[m] # 1)
      BY <1>2, <2>6, <2>7, SMTT(30) DEF Unpend
    <3>2. Pending(m)' # {} <=> pendingCount[m] # 1
      BY <2>3, <2>6, <2>7
    <3>3. QED
      BY <2>3, <2>4, <2>6, <2>7, <3>1, <3>2, Zenon
  <2>8. CASE m # mode[t]
    BY <1>2, <2>2, <2>3, <2>4, <2>6, <2>8 DEF Unpend
  <2>9. QED
    BY <2>7, <2>8
<1> DEFINE Kept == /\ UNCHANGED <<pendingCount, havePending>>
                   /\ \A u \in Threads :
                        /\ pc'[u] \in PendingLocations <=> pc[u] \in PendingLocations
                        /\ pc[u] \in PendingLocations => mode'[u] = mode[u]
<1>3. Kept \/ \E t \in Threads : Pend(t) \/ Unpend(t)
  <2> USE DEF Inv, TypeOK, PendingLocations, Goto
  <2>1. ASSUME NEW t \in Threads, TryLock(t) \/ Try(t) \/ Reload(t)
        PROVE  Kept
    BY <2>1 DEF TryLock, Try, Reload, MayCall, AcquireRead, AcquireWrite, call, word
  <2>2. ASSUME NEW t \in Threads, NEW m \in Modes, NEW d \in BOOLEAN, Lock(t, m, d)
        PROVE  Kept
    BY <2>2 DEF Lock, MayCall, word
  <2>3. ASSUME NEW t \in Threads, FutexWait(t) \/ Interrupt(t) \/ Timeout(t)
        PROVE  Kept
    BY <2>3 DEF FutexWait, Interrupt, Timeout, call, word
  <2>4. ASSUME NEW t \in Threads,
               SetWriterTid(t) \/ UnlockClearTid(t) \/ UnlockWrite(t) \/ UnlockRead(t)
        PROVE  Kept
    BY <2>4 DEF SetWriterTid, UnlockClearTid, UnlockWrite, UnlockRead, call, word
  <2>5. ASSUME NEW t \in Threads, Handoff(t) PROVE Kept
    BY <2>5 DEF Handoff, HandoffTo, call, word
  <2>6. ASSUME NEW t \in Threads, Wake(t) PROVE Kept
    BY <2>6 DEF Wake, WakeOne, WakeAll, Asleep, call, word
  <2>7. CASE UNCHANGED vars
    BY <2>7, SMTT(30) DEF vars, call, word
  <2>8. QED
    BY <2>1, <2>2, <2>3, <2>4, <2>5, <2>6, <2>7, Zenon DEF Next, Progress
<1>4. QED
  BY <1>1, <1>2, <1>3, PendingKept DEF Inv

(***************************************************************************)
(* In terms of threads: who makes a flag set and a count nonzero.          *)
(***************************************************************************)
LEMMA PendingThreads ==
  ASSUME PendingAgrees, NEW m \in Modes
  PROVE  /\ havePending[m] <=> \E u \in Threads : pc[u] \in PendingLocations /\ mode[u] = m
         /\ pendingCount[m] = 0 <=> ~ havePending[m]
BY PendingFinite, FS_EmptySet, Zenon DEF PendingAgrees, Pending

(***************************************************************************)
(* Without deadlines every step keeps a free lock being handed over, if    *)
(* anybody waits for it.                                                   *)
(***************************************************************************)
LEMMA HandoverKept == Inv /\ [Next]_vars => HandoverUnderway'
<1> SUFFICES ASSUME Inv, [Next]_vars, ~deadlines'
             PROVE  /\ \A t \in Threads : ~timed'[t] /\ pc'[t] # "expired"
                    /\ Free' /\ (\E t \in Threads : pc'[t] \in {"wait", "asleep"})
                         => \E t \in Threads : SeesToIt(t)'
  BY SMTT(30) DEF HandoverUnderway
<1>0. ~deadlines
  BY SMTT(30) DEF Next, Progress, TryLock, Lock, Try, Reload, Pend, FutexWait, Unpend, SetWriterTid, UnlockClearTid,
         UnlockWrite, UnlockRead, Handoff, Wake, Interrupt, Timeout, vars, fixed
<1>a. \A t \in Threads : ~timed[t] /\ pc[t] # "expired"
  BY <1>0 DEF Inv, HandoverUnderway
<1>b. Free /\ (\E t \in Threads : pc[t] \in {"wait", "asleep"}) => \E t \in Threads : SeesToIt(t)
  BY <1>0 DEF Inv, HandoverUnderway
<1>c. \A m \in Modes :
         /\ havePending[m] <=> \E u \in Threads : pc[u] \in PendingLocations /\ mode[u] = m
         /\ pendingCount[m] = 0 <=> ~ havePending[m]
  BY PendingThreads DEF Inv
<1>d. TypeOK
  BY SMTT(30) DEF Inv
<1> HIDE DEF Inv
<1> USE <1>a, <1>b, <1>c, <1>d, RwlockAssumption
    DEF TypeOK, Free, SeesToIt, Asleep, CanAcquire, Locations, PendingLocations, WriterLocations, Modes, Goto
<1> DEFINE Goal == /\ \A t \in Threads : ~timed'[t] /\ pc'[t] # "expired"
                   /\ Free' /\ (\E t \in Threads : pc'[t] \in {"wait", "asleep"})
                         => \E t \in Threads : SeesToIt(t)'
<1>1. ASSUME NEW t \in Threads, TryLock(t) PROVE Goal
  BY <1>1, SMTT(30) DEF TryLock, AcquireRead, AcquireWrite, fixed, call
<1>2. ASSUME NEW t \in Threads, NEW m \in Modes, NEW d \in BOOLEAN, Lock(t, m, d) PROVE Goal
  BY <1>0, <1>2, SMTT(30) DEF Lock, MayCall, fixed, word
<1>3. ASSUME NEW t \in Threads, Try(t) PROVE Goal
  BY <1>3, SMTT(30) DEF Try, AcquireRead, AcquireWrite, fixed, call, word
<1>4. ASSUME NEW t \in Threads, Reload(t) PROVE Goal
  BY <1>4, SMTT(30) DEF Reload, fixed, call, word
<1>5. ASSUME NEW t \in Threads, Pend(t) PROVE Goal
  BY <1>5, SMTT(30) DEF Pend, fixed, call
<1>6. ASSUME NEW t \in Threads, FutexWait(t) PROVE Goal
  BY <1>6, SMTT(30) DEF FutexWait, fixed, call, word
<1>7. ASSUME NEW t \in Threads, Unpend(t) PROVE Goal
  BY <1>7, SMTT(30) DEF Unpend, fixed, call
<1>8. ASSUME NEW t \in Threads, SetWriterTid(t) PROVE Goal
  BY <1>8, SMTT(30) DEF SetWriterTid, fixed, call, word
<1>9. ASSUME NEW t \in Threads, UnlockClearTid(t) PROVE Goal
  BY <1>9, SMTT(30) DEF UnlockClearTid, fixed, call, word
<1>10. ASSUME NEW t \in Threads, UnlockWrite(t) PROVE Goal
  BY <1>10, SMTT(30) DEF UnlockWrite, AnyPending, fixed, call
<1>11. ASSUME NEW t \in Threads, UnlockRead(t) PROVE Goal
  BY <1>11, SMTT(30) DEF UnlockRead, AnyPending, fixed, call
<1>12. ASSUME NEW t \in Threads, Handoff(t) PROVE Goal
  BY <1>12, SMTT(30) DEF Handoff, HandoffTo, fixed, call, word
<1>13. ASSUME NEW t \in Threads, Wake(t) PROVE Goal
  <2>0. UNCHANGED <<ownedByWriter, readerCount, havePending, preferWriter, mode, timed>>
    BY <1>13, SMTT(30) DEF Wake, fixed, call, word
  <2>1. CASE pc[t] = "wakewrite" /\ Asleep("write") = {}
    <3>1. pc' = [pc EXCEPT ![t] = "idle"]
      BY <1>13, <2>1, Zenon DEF Wake, WakeOne
    <3>2. QED
      BY <2>0, <2>1, <3>1, SMTT(30)
  <2>2. CASE pc[t] = "wakewrite" /\ Asleep("write") # {}
    <3>1. PICK w \in Threads : /\ pc[w] = "asleep" /\ mode[w] = "write"
                               /\ pc' = [pc EXCEPT ![t] = "idle", ![w] = "unpend"]
      BY <1>13, <2>2, SMTT(30) DEF Wake, WakeOne
    <3>2. Free' => SeesToIt(w)'
      BY <2>0, <2>2, <3>1, SMTT(30)
    <3>3. QED
      BY <2>0, <2>2, <3>1, <3>2, SMTT(30)
  <2>3. CASE pc[t] = "wakeread"
    <3>1. pc' = [u \in Threads |-> IF u = t THEN "idle"
                                   ELSE IF pc[u] = "asleep" /\ mode[u] = "read" THEN "unpend"
                                   ELSE pc[u]]
      BY <1>13, <2>3, SMTT(30) DEF Wake, WakeAll
    <3>2. QED
      BY <2>0, <2>3, <3>1, SMTT(30)
  <2>4. QED
    BY <1>13, <2>1, <2>2, <2>3, SMTT(30) DEF Wake
<1>14. ASSUME NEW t \in Threads, Interrupt(t) PROVE Goal
  BY <1>14, SMTT(30) DEF Interrupt, fixed, call, word
<1>15. ASSUME NEW t \in Threads, Timeout(t) PROVE Goal
  BY <1>15, SMTT(30) DEF Timeout
<1>16. ASSUME UNCHANGED vars PROVE Goal
  BY <1>16 DEF vars, fixed, call, word
<1> HIDE DEF Goal
<1>17. ASSUME NEW t \in Threads, Progress(t) PROVE Goal
  BY <1>3, <1>4, <1>5, <1>6, <1>7, <1>8, <1>9, <1>10, <1>11, <1>12, <1>13, <1>17, Zenon DEF Progress
<1>18. Goal
  BY <1>1, <1>2, <1>14, <1>15, <1>16, <1>17, Zenon DEF Next
<1>19. QED
  BY <1>18, Zenon DEF Goal

-----------------------------------------------------------------------------
(***************************************************************************)
(* Every access of a call to the word, the counts or a futex preserves the *)
(* inductive invariant.                                                    *)
(***************************************************************************)
LEMMA NextInv == Inv /\ [Next]_vars => Inv'
BY ControlKept, HoldsCounted, PendingCounted, HandoverKept, SMTT(30) DEF Inv, Control, WordAgrees

(***************************************************************************)
(* pthread_rwlock keeps its writer alone and its word, writer_tid and      *)
(* pending counts exact, for any number of threads and holds.              *)
(***************************************************************************)
THEOREM RwlockInvariant == Spec => []Inv
BY InitInv, NextInv, PTL DEF Spec

(***************************************************************************)
(* In a program without timed calls, no thread is left asleep on a lock    *)
(* that nobody holds and nobody is handing over.                           *)
(***************************************************************************)
THEOREM RwlockHandover == Spec => []NobodySleepsOnFreeLock
<1>1. Inv => NobodySleepsOnFreeLock
  BY DEF Inv, NobodySleepsOnFreeLock, HandoverReachesWaiter, HandoverUnderway, SeesToIt, Free, WordAgrees,
         WriterLocations
<1>2. QED
  BY RwlockInvariant, <1>1, PTL
=============================================================================
