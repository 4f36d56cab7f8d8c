----------------------- MODULE SystemPropertiesProofs -----------------------
(***************************************************************************)
(* Proofs about SystemProperties, for every set of properties, any number  *)
(* of readers and any number of updates: a reader never returns a torn     *)
(* value or one of another property, and what it returns was current       *)
(* during its call.                                                        *)
(*                                                                         *)
(* The invariant has a part that only the writer's steps touch and a part  *)
(* for each reader.  A writer's step disturbs a reader's part only in the  *)
(* few ways that Rely lists, and a reader's step leaves the other readers  *)
(* and the writer alone.                                                   *)
(***************************************************************************)
EXTENDS SystemProperties, TLAPS

-----------------------------------------------------------------------------
(*  The writer: every step keeps the types, and the writer keeps the part  *)
(*  of the invariant about what it has stored, whatever readers do.        *)

(***************************************************************************)
(* What the increments of a serial do to its dirty bit and to the number   *)
(* of the value it stands for.                                             *)
(***************************************************************************)
LEMMA Parity ==
  ASSUME NEW s \in Nat
  PROVE  /\ s \div 2 \in Nat
         /\ SERIAL_DIRTY(s) => ~SERIAL_DIRTY(s + 1) /\ (s + 1) \div 2 = s \div 2 + 1
         /\ ~SERIAL_DIRTY(s) => SERIAL_DIRTY(s + 1) /\ (s + 1) \div 2 = s \div 2
  BY DEF SERIAL_DIRTY

(***************************************************************************)
(* A buffer whose halves are both v is the whole of v.                     *)
(***************************************************************************)
LEMMA WholeOf ==
  ASSUME NEW f \in [Halves -> Values], NEW v, \A h \in Halves : f[h] = v
  PROVE  f = Whole(v)
  BY Zenon DEF Whole

(***************************************************************************)
(* A new value is one.                                                     *)
(***************************************************************************)
LEMMA NewValueType ==
  ASSUME TypeOK
  PROVE  /\ NewValue \in Values /\ NoValue \in Values
         /\ \A p \in Props : <<p, 0>> \in Values
         /\ wprop \in Props /\ serial["main"][wprop] \in Nat
  BY Parity DEF TypeOK, WriterTypeOK, ReaderTypeOK, Values, NewValue, Areas

(***************************************************************************)
(* The history keeps its types, and a name that is found is a name.        *)
(***************************************************************************)
LEMMA PublishType ==
  ASSUME TypeOK, NEW a \in Areas, NEW p \in Props, Publish(a, p)
  PROVE  /\ published' \in [Areas -> SUBSET Props]
         /\ current' \in [Areas -> [Props -> Values]]
         /\ window' \in [Readers -> SUBSET Values]
<1>1. published' \in [Areas -> SUBSET Props]
  BY Zenon DEF Publish, TypeOK, WriterTypeOK, ReaderTypeOK
<1>2. CASE p \in published[a]
  BY <1>1, <1>2, Zenon DEF Publish, TypeOK, WriterTypeOK, ReaderTypeOK
<1>3. CASE p \notin published[a]
  <2>1. BecomesCurrent(a, p, <<p, 0>>) /\ <<p, 0>> \in Values
    BY <1>3, NewValueType, Zenon DEF Publish
  <2>2. current' \in [Areas -> [Props -> Values]]
    BY <2>1, Zenon DEF BecomesCurrent, TypeOK, WriterTypeOK, ReaderTypeOK
  <2>3. window' \in [Readers -> SUBSET Values]
    BY <2>1, Zenon DEF BecomesCurrent, TypeOK, WriterTypeOK, ReaderTypeOK
  <2>4. QED
    BY <1>1, <2>2, <2>3, Zenon
<1>4. QED
  BY <1>2, <1>3, Zenon

(***************************************************************************)
(* A step is one of the writer's or leaves all it has written alone.       *)
(***************************************************************************)
LEMMA OnlyTheWriter ==
  ASSUME [Next]_vars
  PROVE  \/ \E p \in Props : Update(p) \/ Add(p)
         \/ WriterStep
         \/ UNCHANGED <<fixed, shared, writer>>
<1>1. ASSUME NEW r \in Readers, ReaderStep(r) PROVE UNCHANGED <<fixed, shared, writer>>
  BY <1>1, Zenon DEF ReaderStep, Call, LoadSerial, CopyHalf, Check, GetAreaSerial, Find, GetSerial,
              StartWait, FutexWait, ReloadSerial
<1>2. ASSUME NEW r \in Readers, Interrupt(r) \/ Timeout(r) PROVE UNCHANGED <<fixed, shared, writer>>
  BY <1>2, Zenon DEF Interrupt, Timeout
<1>3. QED
  BY <1>1, <1>2, Zenon DEF Next, vars

(***************************************************************************)
(* Every step keeps the types of the writer's variables.                   *)
(***************************************************************************)
LEMMA WriterType ==
  ASSUME TypeOK, [Next]_vars
  PROVE  WriterTypeOK'
<1>0. WriterTypeOK /\ NewValue \in Values /\ (\A p \in Props : <<p, 0>> \in Values)
  BY NewValueType, Zenon DEF TypeOK
<1> USE <1>0, PropertiesAssumption
    DEF WriterTypeOK, fixed, shared, Areas, WriterLocations, AddLocations
<1>1. ASSUME NEW p \in Props, Update(p) PROVE WriterTypeOK'
  BY <1>1 DEF Update, Used
<1>2. ASSUME NEW p \in Props, Add(p) PROVE WriterTypeOK'
  <2>1. published' \in [Areas -> SUBSET Props] /\ current' \in [Areas -> [Props -> Values]]
    BY <1>2, PublishType, Zenon DEF Add
  <2>2. QED
    BY <1>2, <2>1 DEF Add
<1>3. CASE CopyToBackup
  BY <1>3 DEF CopyToBackup
<1>4. CASE MarkDirty
  BY <1>4 DEF MarkDirty, Halves
<1>5. CASE CopyValue
  BY <1>5 DEF CopyValue
<1>6. CASE MarkOverrideDirty
  BY <1>6, Zenon DEF MarkOverrideDirty, Halves
<1>7. CASE MarkClean
  BY <1>7 DEF MarkClean, BecomesCurrent
<1>8. CASE MarkOverrideClean
  BY <1>8, Zenon DEF MarkOverrideClean, BecomesCurrent
<1>9. CASE WakeWatchers
  BY <1>9, Zenon DEF WakeWatchers
<1>10. CASE Bump
  BY <1>10 DEF Bump
<1>11. CASE BumpOverride
  BY <1>11 DEF BumpOverride
<1>12. CASE WakeAny
  BY <1>12, Zenon DEF WakeAny
<1>13. CASE AddOverride
  <2>1. published' \in [Areas -> SUBSET Props] /\ current' \in [Areas -> [Props -> Values]]
    BY <1>13, PublishType, Zenon DEF AddOverride
  <2>2. QED
    BY <1>13, <2>1, Zenon DEF AddOverride
<1>14. CASE BumpAddedOverride
  BY <1>14 DEF BumpAddedOverride
<1>15. CASE UNCHANGED <<fixed, shared, writer>>
  BY <1>15, Zenon DEF writer
<1>16. QED
  BY Zenon, <1>1, <1>2, <1>3, <1>4, <1>5, <1>6, <1>7, <1>8, <1>9, <1>10, <1>11, <1>12, <1>13, <1>14, <1>15,
     OnlyTheWriter, Zenon DEF WriterStep

(***************************************************************************)
(* Every step keeps the types of the readers' variables: the writer's only *)
(* wake readers and add to windows.                                        *)
(***************************************************************************)
LEMMA ReaderType ==
  ASSUME TypeOK, [Next]_vars
  PROVE  ReaderTypeOK'
<1>0. ReaderTypeOK /\ NewValue \in Values
  BY NewValueType, Zenon DEF TypeOK
<1>1. ASSUME NEW p \in Props, Update(p) PROVE ReaderTypeOK'
  BY <1>0, <1>1, Zenon DEF ReaderTypeOK, Update, fixed, reader, cache
<1>a. ASSUME window' \in [Readers -> SUBSET Values], UNCHANGED <<fixed, reader>> PROVE ReaderTypeOK'
  BY <1>0, <1>a, Zenon DEF ReaderTypeOK, fixed, reader, cache
<1>2. ASSUME NEW p \in Props, Add(p) PROVE ReaderTypeOK'
  BY <1>a, <1>2, PublishType, Zenon DEF Add, Areas
<1>3. CASE MarkClean
  <2>1. window' \in [Readers -> SUBSET Values]
    BY <1>0, <1>3, Zenon DEF MarkClean, BecomesCurrent, ReaderTypeOK
  <2>2. QED
    BY <1>3, <1>a, <2>1, Zenon DEF MarkClean
<1>4. CASE MarkOverrideClean
  <2>1. current["main"][wprop] \in Values
    BY Zenon DEF TypeOK, WriterTypeOK, Areas
  <2>2. window' \in [Readers -> SUBSET Values]
    BY <1>0, <1>4, <2>1, Zenon DEF MarkOverrideClean, BecomesCurrent, ReaderTypeOK
  <2>3. QED
    BY <1>4, <1>a, <2>2, Zenon DEF MarkOverrideClean
<1>5. CASE AddOverride
  <2>1. wprop \in Props /\ "override" \in Areas
    BY Zenon DEF TypeOK, WriterTypeOK, Areas
  <2>2. QED
    BY <1>5, <1>a, <2>1, PublishType, Zenon DEF AddOverride
<1>6. CASE CopyToBackup \/ MarkDirty \/ CopyValue \/ MarkOverrideDirty \/ Bump \/ BumpOverride \/ BumpAddedOverride
  <2>1. UNCHANGED <<fixed, reader, window>>
    BY <1>6, Zenon DEF CopyToBackup, MarkDirty, CopyValue, MarkOverrideDirty, Bump, BumpOverride, BumpAddedOverride
  <2>2. QED
    BY <1>0, <1>a, <2>1, Zenon DEF ReaderTypeOK
<1>7. CASE WakeWatchers \/ WakeAny
  <2>1. /\ UNCHANGED <<fixed, rserial, buf, copying, waitfor, cache, window>>
        /\ \E w : Wake(w)
    BY <1>7, Zenon DEF WakeWatchers, WakeAny
  <2>2. rpc' \in [Readers -> ReaderLocations]
    BY <1>0, <2>1, Zenon DEF Wake, ReaderTypeOK, ReaderLocations
  <2>3. QED
    BY <1>0, <2>1, <2>2, Zenon DEF ReaderTypeOK, fixed, cache
<1>8. ASSUME NEW r \in Readers, ReaderStep(r) \/ Interrupt(r) \/ Timeout(r) PROVE ReaderTypeOK'
  <2>0. /\ Serial(r) \in Nat /\ area_serial[area[r]] \in Nat /\ current[area[r]][target[r]] \in Values
        /\ NoValue \in Values
    BY NewValueType, Zenon DEF TypeOK, WriterTypeOK, ReaderTypeOK, Serial
  <2> USE <1>0, <2>0 DEF ReaderTypeOK, fixed, cache, Halves, ReaderLocations, Goto
  <2>1. CASE Call(r)
    BY <2>1 DEF Call
  <2>2. CASE LoadSerial(r)
    BY <2>2, Zenon DEF LoadSerial
  <2>3. CASE CopyHalf(r)
    <3>1. \A h \in Halves : dirty_backup[area[r]][h] \in Values /\ value[area[r]][target[r]][h] \in Values
      BY DEF TypeOK, WriterTypeOK
    <3>2. QED
      BY <2>3, <3>1 DEF CopyHalf
  <2>4. CASE Check(r)
    <3>0. UNCHANGED <<fixed, buf, waitfor, window>>
      BY <2>4, Zenon DEF Check
    <3>1. CASE Serial(r) = rserial[r] /\ r \in Watchers
      <4>1. rpc' = [rpc EXCEPT ![r] = "got"] /\ UNCHANGED <<rserial, copying>> /\ UNCHANGED cache
        BY <2>4, <3>1, Zenon DEF Check, Deliver, Goto
      <4>2. QED
        BY <3>0, <4>1, Zenon
    <3>2. CASE Serial(r) = rserial[r] /\ r \notin Watchers
      <4>1. /\ rpc' = [rpc EXCEPT ![r] = "got"] /\ UNCHANGED <<rserial, copying>>
            /\ cached_property_serial_' = [cached_property_serial_ EXCEPT ![r] = rserial[r]]
            /\ cached_value_' = [cached_value_ EXCEPT ![r] = buf[r]]
            /\ UNCHANGED <<prop_info_, cached_area_serial_>>
        BY <2>4, <3>2, Zenon DEF Check, Deliver, Goto
      <4>2. QED
        BY <3>0, <4>1, Zenon
    <3>3. CASE Serial(r) # rserial[r]
      <4>1. /\ rpc' = [rpc EXCEPT ![r] = "copy"] /\ UNCHANGED cache
            /\ rserial' = [rserial EXCEPT ![r] = Serial(r)]
            /\ copying' = [copying EXCEPT ![r] = Halves]
        BY <2>4, <3>3, Zenon DEF Check, Goto
      <4>2. QED
        BY <3>0, <4>1, Zenon
    <3>4. QED
      BY <3>1, <3>2, <3>3, Zenon
  <2>5. CASE GetAreaSerial(r)
    BY <2>5, Zenon DEF GetAreaSerial
  <2>6. CASE Find(r)
    BY <2>6 DEF Find
  <2>7. CASE GetSerial(r)
    BY <2>7, Zenon DEF GetSerial
  <2>8. CASE StartWait(r)
    BY <2>8, Zenon DEF StartWait
  <2>9. CASE FutexWait(r)
    BY <2>9, Zenon DEF FutexWait
  <2>10. CASE ReloadSerial(r)
    BY <2>10, Zenon DEF ReloadSerial, Awaited
  <2>11. CASE Interrupt(r)
    BY <2>11, Zenon DEF Interrupt
  <2>12. CASE Timeout(r)
    BY <2>12, Zenon DEF Timeout
  <2>13. QED
    BY <1>8, <2>1, <2>2, <2>3, <2>4, <2>5, <2>6, <2>7, <2>8, <2>9, <2>10, <2>11, <2>12, Zenon DEF ReaderStep
<1>9. CASE UNCHANGED vars
  BY <1>0, <1>9, Zenon DEF vars, ReaderTypeOK, fixed, reader, cache
<1>10. QED
  BY <1>1, <1>2, <1>3, <1>4, <1>5, <1>6, <1>7, <1>8, <1>9, Zenon DEF Next, WriterStep

(***************************************************************************)
(* What a process has been started with stays.                             *)
(***************************************************************************)
LEMMA FixedStays ==
  ASSUME [Next]_vars
  PROVE  UNCHANGED fixed
<1>1. ASSUME NEW p \in Props, Update(p) \/ Add(p) PROVE UNCHANGED fixed
  BY <1>1, Zenon DEF Update, Add
<1>2. CASE WriterStep
  BY <1>2, Zenon DEF WriterStep, CopyToBackup, MarkDirty, CopyValue, MarkOverrideDirty, MarkClean,
              MarkOverrideClean, WakeWatchers, Bump, BumpOverride, WakeAny, AddOverride, BumpAddedOverride
<1>3. QED
  BY <1>1, <1>2, OnlyTheWriter, Zenon

(***************************************************************************)
(* The serials of a property go through an update in step.                 *)
(***************************************************************************)
LEMMA NextSerials ==
  ASSUME WriterTypeOK, WriterInv, [Next]_vars
  PROVE  SerialsInStep'
<1>h. /\ serial \in [Areas -> [Props -> Nat]]
      /\ wprop \in Props
      /\ SerialsInStep /\ TodoInStep
  BY Zenon DEF WriterTypeOK, WriterInv
<1> USE <1>h
<1> USE DEF fixed, shared, Areas, Used, SerialsInStep, TodoInStep, Dirty, AddLocations
<1>1. ASSUME NEW p \in Props, Update(p) PROVE SerialsInStep'
  BY <1>1, Zenon DEF Update
<1>2. ASSUME NEW p \in Props, Add(p) PROVE SerialsInStep'
  BY <1>2, Zenon DEF Add
<1>3. CASE CopyToBackup
  BY <1>3, Zenon DEF CopyToBackup
<1>4. CASE MarkDirty
  <2>1. serial["main"][wprop] \in Nat /\ ~SERIAL_DIRTY(serial["main"][wprop])
    BY <1>4, Zenon DEF MarkDirty
  <2>2. SERIAL_DIRTY(serial["main"][wprop] + 1)
    BY <2>1, Parity, Zenon
  <2>3. \A a \in Areas, p \in Props :
          serial'[a][p] = IF a = "main" /\ p = wprop THEN serial["main"][wprop] + 1 ELSE serial[a][p]
    BY <1>4, Zenon DEF MarkDirty
  <2>4. \A a \in Used', p \in Props : SERIAL_DIRTY(serial'[a][p]) <=> wprop' = p /\ wpc' \in Dirty(a)'
    BY <1>4, <2>1, <2>2, <2>3, Zenon DEF MarkDirty
  <2>5. QED
    BY <1>4, <2>1, <2>3, <2>4 DEF MarkDirty
<1>5. CASE CopyValue
  BY <1>5, Zenon DEF CopyValue
<1>6. CASE MarkOverrideDirty
  BY <1>6 DEF MarkOverrideDirty
<1>7. CASE MarkClean
  <2>1. serial["main"][wprop] \in Nat /\ SERIAL_DIRTY(serial["main"][wprop])
    BY <1>7, Zenon DEF MarkClean
  <2>2. ~SERIAL_DIRTY(serial["main"][wprop] + 1)
    BY <2>1, Parity, Zenon
  <2>3. \A a \in Areas, p \in Props :
          serial'[a][p] = IF a = "main" /\ p = wprop THEN serial["main"][wprop] + 1 ELSE serial[a][p]
    BY <1>7, Zenon DEF MarkClean
  <2>4. \A a \in Used', p \in Props : SERIAL_DIRTY(serial'[a][p]) <=> wprop' = p /\ wpc' \in Dirty(a)'
    <3>1. wprop' = wprop /\ Used' = Used /\ wpc = "clean" /\ wpc' \in {"oclean", "wake"}
      BY <1>7, Zenon DEF MarkClean
    <3>2. "override" \in Used => wpc' = "oclean"
      BY <1>7, Zenon DEF MarkClean
    <3>3. \A p \in Props : SERIAL_DIRTY(serial'["main"][p]) <=> wprop' = p /\ wpc' \in Dirty("main")
      BY <2>2, <2>3, <3>1, Zenon
    <3>4. "override" \in Used => \A p \in Props :
            SERIAL_DIRTY(serial'["override"][p]) <=> wprop' = p /\ wpc' \in Dirty("override")
      BY <2>3, <3>1, <3>2, Zenon
    <3>5. ASSUME NEW a \in Used', NEW p \in Props
          PROVE  SERIAL_DIRTY(serial'[a][p]) <=> wprop' = p /\ wpc' \in Dirty(a)'
      <4>1. a = "main" \/ (a = "override" /\ "override" \in Used)
        BY <3>1, Zenon
      <4>2. QED
        BY <3>3, <3>4, <4>1, Zenon
    <3>6. QED
      BY <3>5, Zenon
  <2>5. ASSUME have_override, NEW p \in Props
        PROVE  serial'["main"][p] = serial'["override"][p] + IF wprop = p THEN 1 ELSE 0
    BY <1>7, <2>1, <2>3, <2>5 DEF MarkClean
  <2>6. have_override' = have_override /\ wprop' = wprop /\ (have_override => wpc' = "oclean")
    BY <1>7, Zenon DEF MarkClean
  <2>7. QED
    BY <2>4, <2>5, <2>6, Zenon
<1>8. CASE MarkOverrideClean
  BY <1>8 DEF MarkOverrideClean
<1>9. CASE WakeWatchers
  BY <1>9, Zenon DEF WakeWatchers
<1>10. CASE Bump
  BY <1>10, Zenon DEF Bump
<1>11. CASE BumpOverride
  BY <1>11, Zenon DEF BumpOverride
<1>12. CASE WakeAny
  BY <1>12, Zenon DEF WakeAny
<1>13. CASE AddOverride
  BY <1>13, Zenon DEF AddOverride
<1>14. CASE BumpAddedOverride
  BY <1>14, Zenon DEF BumpAddedOverride
<1>15. CASE UNCHANGED <<fixed, shared, writer>>
  BY <1>15, Zenon DEF writer
<1>16. QED
  BY <1>1, <1>2, <1>3, <1>4, <1>5, <1>6, <1>7, <1>8, <1>9, <1>10, <1>11, <1>12, <1>13, <1>14, <1>15, OnlyTheWriter, Zenon DEF WriterStep

(***************************************************************************)
(* The override area counts at most one change more than the main one.     *)
(***************************************************************************)
LEMMA NextAreas ==
  ASSUME WriterTypeOK, WriterInv, [Next]_vars
  PROVE  AreasInStep'
<1>h. /\ area_serial \in [Areas -> Nat]
      /\ AreasInStep /\ TodoInStep
  BY Zenon DEF WriterTypeOK, WriterInv
<1> USE <1>h
<1> USE DEF fixed, shared, Areas, AreasInStep, TodoInStep
<1>1. ASSUME NEW p \in Props, Update(p) PROVE AreasInStep'
  BY <1>1, Zenon DEF Update
<1>2. ASSUME NEW p \in Props, Add(p) PROVE AreasInStep'
  BY <1>2, Zenon DEF Add
<1>3. CASE CopyToBackup
  BY <1>3, Zenon DEF CopyToBackup
<1>4. CASE MarkDirty
  BY <1>4, Zenon DEF MarkDirty
<1>5. CASE CopyValue
  BY <1>5, Zenon DEF CopyValue
<1>6. CASE MarkOverrideDirty
  BY <1>6, Zenon DEF MarkOverrideDirty
<1>7. CASE MarkClean
  BY <1>7, Zenon DEF MarkClean
<1>8. CASE MarkOverrideClean
  BY <1>8, Zenon DEF MarkOverrideClean
<1>9. CASE WakeWatchers
  BY <1>9, Zenon DEF WakeWatchers
<1>10. CASE Bump
  BY <1>10 DEF Bump
<1>11. CASE BumpOverride
  BY <1>11 DEF BumpOverride
<1>12. CASE WakeAny
  BY <1>12, Zenon DEF WakeAny
<1>13. CASE AddOverride
  BY <1>13 DEF AddOverride
<1>14. CASE BumpAddedOverride
  BY <1>14 DEF BumpAddedOverride
<1>15. CASE UNCHANGED <<fixed, shared, writer>>
  BY <1>15, Zenon DEF writer
<1>16. QED
  BY <1>1, <1>2, <1>3, <1>4, <1>5, <1>6, <1>7, <1>8, <1>9, <1>10, <1>11, <1>12, <1>13, <1>14, <1>15, OnlyTheWriter, Zenon DEF WriterStep

(***************************************************************************)
(* Both areas have the same names, and a property without a name is new.   *)
(***************************************************************************)
LEMMA NextPublished ==
  ASSUME WriterTypeOK, WriterInv, [Next]_vars
  PROVE  PublishedInStep'
<1>h. /\ serial \in [Areas -> [Props -> Nat]]
      /\ published \in [Areas -> SUBSET Props]
      /\ wprop \in Props
      /\ PublishedInStep /\ TodoInStep
  BY Zenon DEF WriterTypeOK, WriterInv
<1> USE <1>h
<1> USE DEF fixed, shared, Areas, Used, PublishedInStep, TodoInStep
<1>1. ASSUME NEW p \in Props, Update(p) PROVE PublishedInStep'
  BY <1>1, Zenon DEF Update
<1>2. ASSUME NEW p \in Props, Add(p) PROVE PublishedInStep'
  BY <1>2, Zenon DEF Add, Publish
<1>3. CASE CopyToBackup
  BY <1>3, Zenon DEF CopyToBackup
<1>4. CASE MarkDirty
  BY <1>4, Zenon DEF MarkDirty
<1>5. CASE CopyValue
  BY <1>5, Zenon DEF CopyValue
<1>6. CASE MarkOverrideDirty
  BY <1>6, Zenon DEF MarkOverrideDirty
<1>7. CASE MarkClean
  BY <1>7, Zenon DEF MarkClean
<1>8. CASE MarkOverrideClean
  BY <1>8, Zenon DEF MarkOverrideClean
<1>9. CASE WakeWatchers
  BY <1>9, Zenon DEF WakeWatchers
<1>10. CASE Bump
  BY <1>10, Zenon DEF Bump
<1>11. CASE BumpOverride
  BY <1>11, Zenon DEF BumpOverride
<1>12. CASE WakeAny
  BY <1>12, Zenon DEF WakeAny
<1>13. CASE AddOverride
  BY <1>13, Zenon DEF AddOverride, Publish
<1>14. CASE BumpAddedOverride
  BY <1>14, Zenon DEF BumpAddedOverride
<1>15. CASE UNCHANGED <<fixed, shared, writer>>
  BY <1>15, Zenon DEF writer
<1>16. QED
  BY <1>1, <1>2, <1>3, <1>4, <1>5, <1>6, <1>7, <1>8, <1>9, <1>10, <1>11, <1>12, <1>13, <1>14, <1>15, OnlyTheWriter, Zenon DEF WriterStep

(***************************************************************************)
(* Each of the four stores to a serial adds one.  The first store in an    *)
(* area leaves the number of the value, the second one counts it.          *)
(***************************************************************************)
LEMMA StoreDirty ==
  ASSUME WriterTypeOK, WriterInv, NEW a0 \in Used,
         (MarkDirty /\ a0 = "main") \/ (MarkOverrideDirty /\ a0 = "override")
  PROVE  /\ \A a \in Used, p \in Props : serial'[a][p] \div 2 = serial[a][p] \div 2
         /\ \A a \in Used, p \in Props :
              serial'[a][p] = serial[a][p] + IF a = a0 /\ p = wprop THEN 1 ELSE 0
<1>h. /\ serial \in [Areas -> [Props -> Nat]]
      /\ wprop \in Props
      /\ SerialsInStep
  BY Zenon DEF WriterTypeOK, WriterInv
<1> USE <1>h
<1> USE DEF Used, Areas
<1>1. serial[a0][wprop] \in Nat /\ ~SERIAL_DIRTY(serial[a0][wprop])
  <2>1. CASE MarkDirty /\ a0 = "main"
    BY <2>1, Zenon DEF SerialsInStep, MarkDirty, Dirty
  <2>2. CASE MarkOverrideDirty /\ a0 = "override"
    BY <2>2, Zenon DEF SerialsInStep, MarkOverrideDirty, Dirty
  <2>3. QED
    BY <2>1, <2>2, Zenon
<1>2. (serial[a0][wprop] + 1) \div 2 = serial[a0][wprop] \div 2
  BY <1>1, Parity, Zenon
<1>3. \A a \in Used, p \in Props :
        serial'[a][p] = serial[a][p] + IF a = a0 /\ p = wprop THEN 1 ELSE 0
  <2>1. CASE MarkDirty /\ a0 = "main"
    BY <2>1 DEF MarkDirty
  <2>2. CASE MarkOverrideDirty /\ a0 = "override"
    BY <2>2 DEF MarkOverrideDirty, SerialsInStep
  <2>3. QED
    BY <2>1, <2>2, Zenon
<1>4. ASSUME NEW a \in Used, NEW p \in Props
      PROVE  serial'[a][p] \div 2 = serial[a][p] \div 2
  <2>1. serial[a][p] \in Nat /\ serial[a][p] \div 2 \in Nat
    BY Parity, Zenon
  <2>2. CASE a = a0 /\ p = wprop
    BY <1>2, <1>3, <2>2, Zenon
  <2>3. CASE ~(a = a0 /\ p = wprop)
    <3>1. serial'[a][p] = serial[a][p]
      BY <1>3, <2>1, <2>3
    <3>2. QED
      BY <3>1, Zenon
  <2>4. QED
    BY <2>2, <2>3, Zenon
<1>5. QED
  BY <1>3, <1>4, Zenon

(***************************************************************************)
(* The second store.                                                       *)
(***************************************************************************)
LEMMA StoreClean ==
  ASSUME WriterTypeOK, WriterInv, NEW a0 \in Used,
         (MarkClean /\ a0 = "main") \/ (MarkOverrideClean /\ a0 = "override")
  PROVE  /\ \A a \in Used, p \in Props :
              serial'[a][p] \div 2 = serial[a][p] \div 2 + IF a = a0 /\ p = wprop THEN 1 ELSE 0
         /\ \A a \in Used, p \in Props :
              serial'[a][p] = serial[a][p] + IF a = a0 /\ p = wprop THEN 1 ELSE 0
<1>h. /\ serial \in [Areas -> [Props -> Nat]]
      /\ wprop \in Props
      /\ SerialsInStep
  BY Zenon DEF WriterTypeOK, WriterInv
<1> USE <1>h
<1> USE DEF Used, Areas
<1>1. serial[a0][wprop] \in Nat /\ SERIAL_DIRTY(serial[a0][wprop])
  <2>1. CASE MarkClean /\ a0 = "main"
    BY <2>1, Zenon DEF SerialsInStep, MarkClean, Dirty
  <2>2. CASE MarkOverrideClean /\ a0 = "override"
    BY <2>2, Zenon DEF SerialsInStep, MarkOverrideClean, Dirty
  <2>3. QED
    BY <2>1, <2>2, Zenon
<1>2. (serial[a0][wprop] + 1) \div 2 = serial[a0][wprop] \div 2 + 1
  BY <1>1, Parity, Zenon
<1>3. \A a \in Used, p \in Props :
        serial'[a][p] = serial[a][p] + IF a = a0 /\ p = wprop THEN 1 ELSE 0
  <2>1. CASE MarkClean /\ a0 = "main"
    BY <2>1 DEF MarkClean
  <2>2. CASE MarkOverrideClean /\ a0 = "override"
    BY <2>2 DEF MarkOverrideClean, SerialsInStep
  <2>3. QED
    BY <2>1, <2>2, Zenon
<1>4. ASSUME NEW a \in Used, NEW p \in Props
      PROVE  serial'[a][p] \div 2 = serial[a][p] \div 2 + IF a = a0 /\ p = wprop THEN 1 ELSE 0
  <2>1. serial[a][p] \in Nat /\ serial[a][p] \div 2 \in Nat
    BY Parity, Zenon
  <2>2. CASE a = a0 /\ p = wprop
    BY <1>2, <1>3, <2>2, Zenon
  <2>3. CASE ~(a = a0 /\ p = wprop)
    <3>1. serial'[a][p] = serial[a][p]
      BY <1>3, <2>1, <2>3
    <3>2. QED
      BY <2>1, <2>3, <3>1
  <2>4. QED
    BY <2>2, <2>3, Zenon
<1>5. QED
  BY <1>3, <1>4, Zenon

(***************************************************************************)
(* A name that becomes known has the value of its serial, which is 0.      *)
(***************************************************************************)
LEMMA PublishCurrent ==
  ASSUME WriterTypeOK, WriterInv, NEW a0 \in Areas, NEW p0 \in Props, Publish(a0, p0), UNCHANGED <<serial, have_override>>
  PROVE  CurrentInStep'
<1>h. /\ published \in [Areas -> SUBSET Props]
      /\ current \in [Areas -> [Props -> Values]]
      /\ CurrentInStep /\ PublishedInStep
  BY Zenon DEF WriterTypeOK, WriterInv
<1> USE <1>h
<1> USE DEF Areas, Used
<1>1. CASE p0 \in published[a0]
  BY <1>1, Zenon DEF Publish, CurrentInStep
<1>2. CASE p0 \notin published[a0]
  <2>1. \A a \in Areas, p \in Props :
          current'[a][p] = IF a = a0 /\ p = p0 THEN <<p0, 0>> ELSE current[a][p]
    <3>1. BecomesCurrent(a0, p0, <<p0, 0>>)
      BY <1>2, Zenon DEF Publish
    <3>2. current' = [current EXCEPT ![a0][p0] = <<p0, 0>>]
      BY <3>1, Zenon DEF BecomesCurrent
    <3>3. QED
      BY <3>2, Zenon
  <2>2. \A a \in Areas, p \in Props :
          p \in published'[a] <=> p \in published[a] \/ (a = a0 /\ p = p0)
    BY Zenon DEF Publish
  <2>3. a0 \in Used => serial[a0][p0] \div 2 = 0
    BY <1>2 DEF PublishedInStep
  <2>4. ASSUME NEW a \in Used, NEW p \in Props
        PROVE  current'[a][p] = IF p \in published'[a] THEN <<p, serial[a][p] \div 2>> ELSE NoValue
    <3>1. CASE a = a0 /\ p = p0
      BY <2>1, <2>2, <2>3, <3>1, Zenon
    <3>2. CASE ~(a = a0 /\ p = p0)
      <4>1. current'[a][p] = current[a][p] /\ (p \in published'[a] <=> p \in published[a])
        BY <2>1, <2>2, <3>2, Zenon
      <4>2. QED
        BY <4>1, Zenon DEF CurrentInStep
    <3>3. QED
      BY <3>1, <3>2, Zenon
  <2>5. QED
    BY <2>4, Zenon DEF CurrentInStep
<1>3. QED
  BY <1>1, <1>2, Zenon

(***************************************************************************)
(* The history of the current values is that of the clean serials.         *)
(***************************************************************************)
LEMMA NextCurrent ==
  ASSUME WriterTypeOK, WriterInv, [Next]_vars
  PROVE  CurrentInStep'
<1>h. /\ serial \in [Areas -> [Props -> Nat]]
      /\ wprop \in Props
      /\ published \in [Areas -> SUBSET Props]
      /\ current \in [Areas -> [Props -> Values]]
      /\ SerialsInStep /\ TodoInStep /\ PublishedInStep /\ CurrentInStep
  BY Zenon DEF WriterTypeOK, WriterInv
<1> USE <1>h
<1>0. /\ Used' = Used /\ Used \subseteq Areas /\ "main" \in Used
      /\ wprop \in published["main"]
  BY FixedStays DEF fixed, Used, Areas, PublishedInStep
<1>a. ASSUME UNCHANGED <<serial, published, current>> PROVE CurrentInStep'
  BY <1>0, <1>a, Zenon DEF CurrentInStep
<1>b. ASSUME NEW a0 \in Used, wprop \in published[a0], published' = published,
             \A a \in Used, p \in Props :
               /\ serial'[a][p] \div 2 = serial[a][p] \div 2 + IF a = a0 /\ p = wprop THEN 1 ELSE 0
               /\ current'[a][p] = IF a = a0 /\ p = wprop THEN <<wprop, serial[a0][wprop] \div 2 + 1>>
                                   ELSE current[a][p]
      PROVE  CurrentInStep'
  <2>1. ASSUME NEW a \in Used', NEW p \in Props
        PROVE  current'[a][p] = IF p \in published'[a] THEN <<p, serial'[a][p] \div 2>> ELSE NoValue
    <3>1. a \in Used /\ a \in Areas /\ serial[a][p] \div 2 \in Nat
      BY <1>0, Parity, Zenon
    <3>2. CASE a = a0 /\ p = wprop
      BY <1>b, <3>1, <3>2, Zenon
    <3>3. CASE ~(a = a0 /\ p = wprop)
      <4>1. serial'[a][p] \div 2 = serial[a][p] \div 2 /\ current'[a][p] = current[a][p]
        BY <1>b, <3>1, <3>3
      <4>2. QED
        BY <1>b, <3>1, <4>1, Zenon DEF CurrentInStep
    <3>4. QED
      BY <3>2, <3>3, Zenon
  <2>2. QED
    BY <2>1, Zenon DEF CurrentInStep
<1>c. ASSUME NEW a0 \in Used, (MarkDirty /\ a0 = "main") \/ (MarkOverrideDirty /\ a0 = "override")
      PROVE  CurrentInStep'
  <2>1. \A a \in Used, p \in Props : serial'[a][p] \div 2 = serial[a][p] \div 2
    BY <1>c, StoreDirty, Zenon
  <2>2. UNCHANGED <<published, current>>
    BY <1>c, Zenon DEF MarkDirty, MarkOverrideDirty
  <2>3. QED
    BY <1>0, <2>1, <2>2 DEF CurrentInStep
<1>1. ASSUME NEW p \in Props, Update(p) PROVE CurrentInStep'
  BY <1>1, <1>a, Zenon DEF Update, shared
<1>2. ASSUME NEW p \in Props, Add(p) PROVE CurrentInStep'
  BY <1>2, PublishCurrent, Zenon DEF Add, fixed, Areas
<1>3. CASE CopyToBackup
  BY <1>3, <1>a, Zenon DEF CopyToBackup
<1>4. CASE MarkDirty
  BY <1>0, <1>4, <1>c, Zenon
<1>5. CASE CopyValue
  BY <1>5, <1>a, Zenon DEF CopyValue
<1>6. CASE MarkOverrideDirty
  BY <1>6, <1>c, Zenon DEF MarkOverrideDirty, TodoInStep, Used, Areas
<1>7. CASE MarkClean
  <2>1. \A a \in Used, p \in Props :
          serial'[a][p] \div 2 = serial[a][p] \div 2 + IF a = "main" /\ p = wprop THEN 1 ELSE 0
    BY <1>0, <1>7, StoreClean, Zenon
  <2>2. current' = [current EXCEPT !["main"][wprop] = NewValue] /\ published' = published
    BY <1>7, Zenon DEF MarkClean, BecomesCurrent
  <2>3. QED
    BY <1>0, <1>b, <2>1, <2>2, Zenon DEF NewValue, Areas
<1>8. CASE MarkOverrideClean
  <2>1. "override" \in Used /\ wprop \in published["override"] /\ wpc = "oclean" /\ have_override
    BY <1>8, Zenon DEF MarkOverrideClean, TodoInStep, Used, Areas, PublishedInStep
  <2>2. \A a \in Used, p \in Props :
          serial'[a][p] \div 2 = serial[a][p] \div 2 + IF a = "override" /\ p = wprop THEN 1 ELSE 0
    BY <1>8, <2>1, StoreClean, Zenon
  <2>3. current' = [current EXCEPT !["override"][wprop] = current["main"][wprop]] /\ published' = published
    BY <1>8, Zenon DEF MarkOverrideClean, BecomesCurrent
  <2>4. current["main"][wprop] = <<wprop, serial["override"][wprop] \div 2 + 1>>
    <3>1. serial["main"][wprop] = serial["override"][wprop] + 1 /\ SERIAL_DIRTY(serial["override"][wprop])
      BY <2>1, Zenon DEF SerialsInStep, Dirty
    <3>2. serial["main"][wprop] \div 2 = serial["override"][wprop] \div 2 + 1
      BY <3>1, Parity, Zenon DEF Areas
    <3>3. current["main"][wprop] = <<wprop, serial["main"][wprop] \div 2>>
      BY <1>0, <1>h, Zenon DEF CurrentInStep
    <3>4. QED
      BY <3>2, <3>3, Zenon
  <2>5. QED
    BY <1>0, <1>b, <2>1, <2>2, <2>3, <2>4
<1>9. CASE WakeWatchers
  BY <1>9, <1>a, Zenon DEF WakeWatchers, shared
<1>10. CASE Bump
  BY <1>10, <1>a, Zenon DEF Bump
<1>11. CASE BumpOverride
  BY <1>11, <1>a, Zenon DEF BumpOverride
<1>12. CASE WakeAny
  BY <1>12, <1>a, Zenon DEF WakeAny, shared
<1>13. CASE AddOverride
  BY <1>13, PublishCurrent, Zenon DEF AddOverride, fixed, Areas
<1>14. CASE BumpAddedOverride
  BY <1>14, <1>a, Zenon DEF BumpAddedOverride
<1>15. CASE UNCHANGED <<fixed, shared, writer>>
  BY <1>15, <1>a, Zenon DEF shared
<1>16. QED
  BY Zenon, <1>1, <1>2, <1>3, <1>4, <1>5, <1>6, <1>7, <1>8, <1>9, <1>10, <1>11, <1>12, <1>13, <1>14, <1>15,
     OnlyTheWriter, Zenon DEF WriterStep

(***************************************************************************)
(* What a memcpy still has to copy is in the areas it copies to.           *)
(***************************************************************************)
LEMMA NextTodo ==
  ASSUME WriterTypeOK, WriterInv, [Next]_vars
  PROVE  TodoInStep'
<1>h. /\ todo \subseteq Areas \X Halves
      /\ TodoInStep
  BY Zenon DEF WriterTypeOK, WriterInv
<1> USE <1>h
<1> USE DEF fixed, Areas, Used, TodoInStep
<1>1. ASSUME NEW p \in Props, Update(p) PROVE TodoInStep'
  BY <1>1, Zenon DEF Update
<1>2. ASSUME NEW p \in Props, Add(p) PROVE TodoInStep'
  BY <1>2, Zenon DEF Add
<1>3. CASE CopyToBackup
  BY <1>3, Zenon DEF CopyToBackup
<1>4. CASE MarkDirty
  BY <1>4, Zenon DEF MarkDirty
<1>5. CASE CopyValue
  BY <1>5, Zenon DEF CopyValue
<1>6. CASE MarkOverrideDirty
  BY <1>6, Zenon DEF MarkOverrideDirty
<1>7. CASE MarkClean
  BY <1>7, Zenon DEF MarkClean
<1>8. CASE MarkOverrideClean
  BY <1>8, Zenon DEF MarkOverrideClean
<1>9. CASE WakeWatchers
  BY <1>9, Zenon DEF WakeWatchers
<1>10. CASE Bump
  BY <1>10, Zenon DEF Bump
<1>11. CASE BumpOverride
  BY <1>11, Zenon DEF BumpOverride
<1>12. CASE WakeAny
  BY <1>12, Zenon DEF WakeAny
<1>13. CASE AddOverride
  BY <1>13, Zenon DEF AddOverride
<1>14. CASE BumpAddedOverride
  BY <1>14, Zenon DEF BumpAddedOverride
<1>15. CASE UNCHANGED <<fixed, shared, writer>>
  BY <1>15, Zenon DEF writer
<1>16. QED
  BY <1>1, <1>2, <1>3, <1>4, <1>5, <1>6, <1>7, <1>8, <1>9, <1>10, <1>11, <1>12, <1>13, <1>14, <1>15, OnlyTheWriter, Zenon DEF WriterStep

(***************************************************************************)
(* A store to one half of a value leaves every other half alone.           *)
(***************************************************************************)
LEMMA StoreHalf ==
  ASSUME NEW f \in [Areas -> [Props -> [Halves -> Values]]],
         NEW a0 \in Areas, NEW p0 \in Props, NEW h0 \in Halves, NEW v,
         NEW a \in Areas, NEW p \in Props, NEW h \in Halves
  PROVE  [f EXCEPT ![a0][p0][h0] = v][a][p][h] =
           IF a = a0 /\ p = p0 /\ h = h0 THEN v ELSE f[a][p][h]
  OBVIOUS

(***************************************************************************)
(* Each half of a value is the one of the serial or the next one.          *)
(***************************************************************************)
LEMMA NextValues ==
  ASSUME WriterTypeOK, WriterInv, [Next]_vars
  PROVE  ValuesInStep'
<1> SUFFICES ASSUME NEW a \in Used', NEW p \in Props, NEW h \in Halves
             PROVE  value'[a][p][h] =
                      <<p, serial'[a][p] \div 2 + IF wprop' = p /\ Renewed(a, h)' THEN 1 ELSE 0>>
  BY Zenon DEF ValuesInStep
<1> DEFINE Goal == value'[a][p][h] =
                     <<p, serial'[a][p] \div 2 + IF wprop' = p /\ Renewed(a, h)' THEN 1 ELSE 0>>
<1>h. /\ SerialsInStep /\ TodoInStep
      /\ a \in Used /\ a \in Areas /\ "main" \in Used
      /\ value[a][p][h] = <<p, serial[a][p] \div 2 + IF wprop = p /\ Renewed(a, h) THEN 1 ELSE 0>>
  BY FixedStays DEF WriterInv, ValuesInStep, fixed, Used, Areas
<1>i. serial[a][p] \in Nat /\ serial[a][p] \div 2 \in Nat
  BY <1>h, Parity DEF WriterTypeOK
<1>a. ASSUME serial'[a][p] \div 2 = serial[a][p] \div 2, value'[a][p][h] = value[a][p][h],
             (wprop' = p /\ Renewed(a, h)') <=> (wprop = p /\ Renewed(a, h))
      PROVE  Goal
  BY <1>h, <1>a, Zenon
<1>b. ASSUME NEW a0 \in Used, (MarkDirty /\ a0 = "main") \/ (MarkOverrideDirty /\ a0 = "override")
      PROVE  Goal
  <2>1. serial'[a][p] \div 2 = serial[a][p] \div 2
    BY <1>b, <1>h, StoreDirty, Zenon
  <2>2. value' = value /\ wprop' = wprop /\ (Renewed(a, h)' <=> Renewed(a, h))
    BY <1>b, <1>h, Zenon DEF MarkDirty, MarkOverrideDirty, Renewed, Copied, Areas, Halves
  <2>3. QED
    BY <1>a, <2>1, <2>2, Zenon
<1>c. ASSUME NEW a0 \in Used, (MarkClean /\ a0 = "main") \/ (MarkOverrideClean /\ a0 = "override")
      PROVE  Goal
  <2>1. serial'[a][p] \div 2 = serial[a][p] \div 2 + IF a = a0 /\ p = wprop THEN 1 ELSE 0
    BY <1>c, <1>h, StoreClean, Zenon
  <2>2. /\ value' = value /\ wprop' = wprop
        /\ IF a = a0 THEN Renewed(a, h) /\ ~Renewed(a, h)' ELSE Renewed(a, h)' <=> Renewed(a, h)
    <3>1. CASE MarkClean /\ a0 = "main"
      BY <1>h, <3>1, Zenon DEF MarkClean, Renewed, Used, Areas
    <3>2. CASE MarkOverrideClean /\ a0 = "override"
      BY <1>h, <3>2, Zenon DEF MarkOverrideClean, Renewed, Areas
    <3>3. QED
      BY <1>c, <3>1, <3>2, Zenon
  <2>3. CASE a = a0 /\ p = wprop
    <3>1. value[a][p][h] = <<p, serial[a][p] \div 2 + 1>>
      BY <1>h, <2>2, <2>3, Zenon
    <3>2. serial'[a][p] \div 2 + (IF wprop' = p /\ Renewed(a, h)' THEN 1 ELSE 0) = serial[a][p] \div 2 + 1
      BY <1>i, <2>1, <2>2, <2>3
    <3>3. QED
      BY <2>2, <3>1, <3>2, Zenon
  <2>4. CASE ~(a = a0 /\ p = wprop)
    <3>1. serial'[a][p] \div 2 = serial[a][p] \div 2
      BY <1>i, <2>1, <2>4
    <3>2. QED
      BY <1>a, <2>2, <2>4, <3>1, Zenon
  <2>5. QED
    BY <2>3, <2>4, Zenon
<1>1. ASSUME NEW q \in Props, Update(q) PROVE Goal
  BY <1>1, <1>a, Zenon DEF Update, shared, Renewed
<1>2. ASSUME NEW q \in Props, Add(q) PROVE Goal
  BY <1>2, <1>a, Zenon DEF Add, Renewed
<1>3. CASE CopyToBackup
  BY <1>3, <1>a, Zenon DEF CopyToBackup, Renewed
<1>4. CASE MarkDirty
  BY <1>4, <1>b, <1>h, Zenon
<1>5. CASE CopyValue
  <2>1. PICK c \in todo : /\ value' = [value EXCEPT ![c[1]][wprop][c[2]] = NewValue]
                          /\ todo' = todo \ {c}
    BY <1>5, Zenon DEF CopyValue
  <2>2. /\ c[1] = IF wpc = "value" THEN "main" ELSE "override"
        /\ c[2] \in Halves /\ c = <<c[1], c[2]>>
        /\ serial' = serial /\ wprop' = wprop /\ wpc \in {"value", "ovalue"}
        /\ wpc' = IF todo' # {} THEN wpc ELSE IF wpc = "value" /\ have_override THEN "odirty" ELSE "clean"
    BY <1>5, <1>h DEF CopyValue, TodoInStep
  <2>3. value'[a][p][h] = IF a = c[1] /\ p = wprop /\ h = c[2] THEN NewValue ELSE value[a][p][h]
    <3>1. /\ value \in [Areas -> [Props -> [Halves -> Values]]] /\ wprop \in Props
          /\ c[1] \in Areas
      BY <2>2, Zenon DEF WriterTypeOK, Areas
    <3>2. a \in Areas /\ c[2] \in Halves
      BY <1>h, <2>2, Zenon
    <3>3. [value EXCEPT ![c[1]][wprop][c[2]] = NewValue][a][p][h] =
            IF a = c[1] /\ p = wprop /\ h = c[2] THEN NewValue ELSE value[a][p][h]
      BY <3>1, <3>2, StoreHalf
    <3>4. QED
      BY <2>1, <3>3, Zenon
  <2>4. Renewed(a, h)' <=> Renewed(a, h) \/ (a = c[1] /\ h = c[2])
    BY <1>h, <2>1, <2>2, Zenon DEF TodoInStep, Renewed, Copied, Areas, Halves, Used
  <2>5. CASE a = c[1] /\ p = wprop /\ h = c[2]
    <3>1. serial["main"][wprop] \div 2 = serial[a][wprop] \div 2
      BY <1>h, <2>2, <2>5 DEF TodoInStep, SerialsInStep, WriterTypeOK, Areas
    <3>2. QED
      BY <2>2, <2>3, <2>4, <2>5, <3>1, Zenon DEF NewValue
  <2>6. CASE ~(a = c[1] /\ p = wprop /\ h = c[2])
    BY <1>a, <2>2, <2>3, <2>4, <2>6, Zenon
  <2>7. QED
    BY <2>5, <2>6, Zenon
<1>6. CASE MarkOverrideDirty
  <2>1. "override" \in Used
    BY <1>6, <1>h, Zenon DEF MarkOverrideDirty, TodoInStep, Used, Areas
  <2>2. QED
    BY <1>6, <1>b, <2>1, Zenon
<1>7. CASE MarkClean
  BY <1>7, <1>c, <1>h, Zenon
<1>8. CASE MarkOverrideClean
  <2>1. "override" \in Used
    BY <1>8, <1>h, Zenon DEF MarkOverrideClean, TodoInStep, Used, Areas
  <2>2. QED
    BY <1>8, <1>c, <2>1, Zenon
<1>9. CASE WakeWatchers
  BY <1>9, <1>a, Zenon DEF WakeWatchers, shared, Renewed
<1>10. CASE Bump
  BY <1>10, <1>a, Zenon DEF Bump, Renewed
<1>11. CASE BumpOverride
  BY <1>11, <1>a, Zenon DEF BumpOverride, Renewed
<1>12. CASE WakeAny
  BY <1>12, <1>a, Zenon DEF WakeAny, shared, Renewed
<1>13. CASE AddOverride
  BY <1>13, <1>a, Zenon DEF AddOverride, Renewed
<1>14. CASE BumpAddedOverride
  BY <1>14, <1>a, Zenon DEF BumpAddedOverride, Renewed
<1>15. CASE UNCHANGED <<fixed, shared, writer>>
  BY <1>15, <1>a, Zenon DEF shared, writer, Renewed, Copied
<1>16. QED
  BY Zenon, <1>1, <1>2, <1>3, <1>4, <1>5, <1>6, <1>7, <1>8, <1>9, <1>10, <1>11, <1>12, <1>13, <1>14, <1>15,
     OnlyTheWriter, Zenon DEF WriterStep

(***************************************************************************)
(* The backup is the value of the serial until the last store of an        *)
(* update.                                                                 *)
(***************************************************************************)
LEMMA NextBackups ==
  ASSUME WriterTypeOK, WriterInv, [Next]_vars
  PROVE  BackupsInStep'
<1> SUFFICES ASSUME NEW a \in Used', NEW h \in Halves, BackedUp(a, h)'
             PROVE  dirty_backup'[a][h] = <<wprop', serial'[a][wprop'] \div 2>>
  BY Zenon DEF BackupsInStep
<1> DEFINE Goal == dirty_backup'[a][h] = <<wprop', serial'[a][wprop'] \div 2>>
<1>h. /\ SerialsInStep /\ TodoInStep
      /\ a \in Used /\ a \in Areas /\ "main" \in Used /\ wprop \in Props
      /\ BackedUp(a, h) => dirty_backup[a][h] = <<wprop, serial[a][wprop] \div 2>>
  BY FixedStays DEF WriterInv, WriterTypeOK, BackupsInStep, fixed, Used, Areas
<1>i. serial[a][wprop] \in Nat /\ serial[a][wprop] \div 2 \in Nat
  BY <1>h, Parity DEF WriterTypeOK
<1>a. ASSUME serial'[a][wprop] \div 2 = serial[a][wprop] \div 2, dirty_backup'[a][h] = dirty_backup[a][h],
             wprop' = wprop, BackedUp(a, h)
      PROVE  Goal
  BY <1>h, <1>a, Zenon
<1>b. ASSUME NEW a0 \in Used, (MarkDirty /\ a0 = "main") \/ (MarkOverrideDirty /\ a0 = "override")
      PROVE  Goal
  <2>1. serial'[a][wprop] \div 2 = serial[a][wprop] \div 2
    BY <1>b, <1>h, StoreDirty, Zenon
  <2>2. dirty_backup' = dirty_backup /\ wprop' = wprop /\ BackedUp(a, h)
    BY <1>b, Zenon DEF MarkDirty, MarkOverrideDirty, BackedUp, Dirty
  <2>3. QED
    BY <1>a, <2>1, <2>2, Zenon
<1>1. ASSUME NEW q \in Props, Update(q) PROVE Goal
  BY <1>1, <1>h, FixedStays, Zenon DEF Update, BackedUp, Dirty, Copied, Used, fixed
<1>2. ASSUME NEW q \in Props, Add(q) PROVE Goal
  BY <1>2, Zenon DEF Add, BackedUp, Dirty
<1>3. CASE CopyToBackup
  <2>1. PICK c \in todo :
          /\ dirty_backup' = [dirty_backup EXCEPT ![c[1]][c[2]] = value[c[1]][wprop][c[2]]]
          /\ todo' = todo \ {c}
    BY <1>3, Zenon DEF CopyToBackup
  <2>2. /\ c[1] \in Used /\ c[1] \in Areas /\ c[2] \in Halves /\ c = <<c[1], c[2]>>
        /\ serial' = serial /\ wprop' = wprop /\ wpc = "backup" /\ wpc' \in {"backup", "dirty"}
        /\ wpc' = "dirty" => todo' = {}
    BY <1>3, <1>h DEF CopyToBackup, TodoInStep, Used, Areas
  <2>3. dirty_backup'[a][h] = IF a = c[1] /\ h = c[2] THEN value[a][wprop][h] ELSE dirty_backup[a][h]
    <3>1. dirty_backup \in [Areas -> [Halves -> Values]]
      BY Zenon DEF WriterTypeOK
    <3>2. QED
      BY <1>h, <2>1, <2>2, <3>1, Zenon
  <2>4. CASE a = c[1] /\ h = c[2]
    <3>1. ~Renewed(a, h)
      BY <1>h, <2>2, Zenon DEF Renewed
    <3>2. value[a][wprop][h] = <<wprop, serial[a][wprop] \div 2 + 0>>
      BY <1>h, <3>1, Zenon DEF WriterInv, ValuesInStep
    <3>3. QED
      BY <1>i, <2>2, <2>3, <2>4, <3>2
  <2>5. CASE ~(a = c[1] /\ h = c[2])
    <3>1. BackedUp(a, h)
      BY <2>1, <2>2, <2>5 DEF BackedUp, Copied, Dirty
    <3>2. QED
      BY <1>a, <2>2, <2>3, <2>5, <3>1, Zenon
  <2>6. QED
    BY <2>4, <2>5, Zenon
<1>4. CASE MarkDirty
  BY <1>4, <1>b, <1>h, Zenon
<1>5. CASE CopyValue
  BY <1>5, <1>a, Zenon DEF CopyValue, BackedUp, Dirty
<1>6. CASE MarkOverrideDirty
  <2>1. "override" \in Used
    BY <1>6, <1>h, Zenon DEF MarkOverrideDirty, TodoInStep, Used, Areas
  <2>2. QED
    BY <1>6, <1>b, <2>1, Zenon
<1>7. CASE MarkClean
  <2>1. serial'[a][wprop] \div 2 = serial[a][wprop] \div 2 + IF a = "main" /\ wprop = wprop THEN 1 ELSE 0
    BY <1>7, <1>h, StoreClean, Zenon
  <2>2. dirty_backup' = dirty_backup /\ wprop' = wprop /\ BackedUp(a, h) /\ a # "main"
    BY <1>7, Zenon DEF MarkClean, BackedUp, Dirty
  <2>3. serial'[a][wprop] \div 2 = serial[a][wprop] \div 2
    BY <1>i, <2>1, <2>2
  <2>4. QED
    BY <1>a, <2>2, <2>3, Zenon
<1>8. CASE MarkOverrideClean
  BY <1>8, Zenon DEF MarkOverrideClean, BackedUp, Dirty
<1>9. CASE WakeWatchers
  BY <1>9, Zenon DEF WakeWatchers, BackedUp, Dirty
<1>10. CASE Bump
  BY <1>10, Zenon DEF Bump, BackedUp, Dirty
<1>11. CASE BumpOverride
  BY <1>11, Zenon DEF BumpOverride, BackedUp, Dirty
<1>12. CASE WakeAny
  BY <1>12, Zenon DEF WakeAny, BackedUp, Dirty
<1>13. CASE AddOverride
  BY <1>13, Zenon DEF AddOverride, BackedUp, Dirty
<1>14. CASE BumpAddedOverride
  BY <1>14, Zenon DEF BumpAddedOverride, BackedUp, Dirty
<1>15. CASE UNCHANGED <<fixed, shared, writer>>
  BY <1>15, <1>a, Zenon DEF shared, writer, BackedUp, Copied
<1>16. QED
  BY Zenon, <1>1, <1>2, <1>3, <1>4, <1>5, <1>6, <1>7, <1>8, <1>9, <1>10, <1>11, <1>12, <1>13, <1>14, <1>15,
     OnlyTheWriter, Zenon DEF WriterStep

-----------------------------------------------------------------------------
(*  The readers.                                                           *)

(***************************************************************************)
(* What a reader can rely on when somebody else takes a step: its own      *)
(* state stays, except that it may be woken; serials do not go back; names *)
(* stay; the area's serial has grown once an Add is over; and no value     *)
(* becomes current that its window does not get.                           *)
(***************************************************************************)
Counted(r) ==
  target[r] \in published'[area[r]] /\ ~BeingAdded(area[r], target[r])' =>
    \/ area_serial[area[r]] < area_serial'[area[r]]
    \/ target[r] \in published[area[r]] /\ ~BeingAdded(area[r], target[r])

Rely(r) ==
  /\ UNCHANGED fixed
  /\ UNCHANGED <<rserial[r], buf[r], copying[r], prop_info_[r], cached_area_serial_[r],
                 cached_property_serial_[r], cached_value_[r]>>
  /\ rpc'[r] = rpc[r] \/ (rpc[r] = "asleep" /\ rpc'[r] = "reload")
  /\ serial[area[r]][target[r]] <= serial'[area[r]][target[r]]
  /\ published[area[r]] \subseteq published'[area[r]]
  /\ area_serial[area[r]] <= area_serial'[area[r]]
  /\ Counted(r)
  /\ window[r] \subseteq window'[r]
  /\ r \in Reading => current'[area[r]][target[r]] \in {current[area[r]][target[r]]} \union window'[r]

(***************************************************************************)
(* That is enough to keep what the invariant says of the reader.           *)
(***************************************************************************)
LEMMA RelyKeeps ==
  ASSUME TypeOK, TypeOK', NEW r \in Readers, ReaderInv(r), Rely(r)
  PROVE  ReaderInv(r)'
<1> DEFINE a == area[r]
           p == target[r]
<1>1. /\ a \in Areas /\ p \in Props /\ serial[a][p] \in Nat /\ serial'[a][p] \in Nat
      /\ area_serial[a] \in Nat /\ area_serial'[a] \in Nat
      /\ rserial[r] \in Nat /\ cached_area_serial_[r] \in Nat
  BY DEF TypeOK, WriterTypeOK, ReaderTypeOK
<1>2. /\ area' = area /\ target' = target /\ Used' = Used
      /\ Watchers' = Watchers /\ Cachers' = Cachers
  BY Zenon DEF Rely, fixed, Used, Watchers, Cachers
<1>3. /\ rserial'[r] = rserial[r] /\ buf'[r] = buf[r] /\ copying'[r] = copying[r]
      /\ prop_info_'[r] = prop_info_[r] /\ cached_area_serial_'[r] = cached_area_serial_[r]
      /\ cached_property_serial_'[r] = cached_property_serial_[r]
      /\ cached_value_'[r] = cached_value_[r]
      /\ rpc'[r] \in {rpc[r], "reload"} /\ (rpc'[r] # rpc[r] => rpc'[r] = "reload")
  BY Zenon DEF Rely
<1>4. CopiesInStep(r)'
  BY <1>1, <1>2, <1>3 DEF ReaderInv, CopiesInStep, Rely, Serial
<1>5. FoundFirst(r)'
  BY <1>1, <1>2, <1>3, Zenon DEF ReaderInv, FoundFirst, Rely
<1>6. AdditionsSeen(r)'
  <2>0. cached_area_serial_[r] <= area_serial[a] /\ area_serial[a] <= area_serial'[a]
    BY Zenon DEF ReaderInv, AdditionsSeen, Rely
  <2>1. cached_area_serial_[r] <= area_serial'[a]
    BY <1>1, <2>0
  <2>2. rpc'[r] = "find" => rserial[r] <= area_serial'[a]
    <3>1. rpc'[r] = "find" => rserial[r] <= area_serial[a]
      BY <1>3, Zenon DEF ReaderInv, AdditionsSeen
    <3>2. QED
      BY <1>1, <2>0, <3>1
  <2>3. ASSUME ~prop_info_[r], p \in published'[a], ~BeingAdded(a, p)'
        PROVE  cached_area_serial_[r] < area_serial'[a]
    <3>1. area_serial[a] < area_serial'[a] \/ cached_area_serial_[r] < area_serial[a]
      BY <2>3, Zenon DEF ReaderInv, AdditionsSeen, Rely, Counted
    <3>2. QED
      BY <1>1, <2>0, <3>1
  <2>4. QED
    BY <1>2, <1>3, <2>1, <2>2, <2>3, Zenon DEF AdditionsSeen, BeingAdded
<1>7. WindowExact(r)'
  <2>1. r \in Reading' => current'[a][p] \in window'[r]
    BY <1>3, Zenon DEF ReaderInv, WindowExact, Rely, Reading
  <2>2. rpc'[r] = "get" => NoValue \in window'[r] \/ cached_area_serial_[r] < area_serial'[a]
    BY <1>1, <1>3 DEF ReaderInv, WindowExact, Rely
  <2>3. QED
    BY <1>2, <1>3, <2>1, <2>2, Zenon DEF WindowExact
<1>8. ASSUME rpc'[r] = "got" PROVE Trio(r)' /\ WasCurrent(r)'
  <2>1. Trio(r) /\ WasCurrent(r)
    BY <1>3, <1>8, Zenon DEF ReaderInv
  <2>2. Trio(r)'
    BY <1>2, <1>3, <2>1, Zenon DEF Trio, Whole
  <2>3. WasCurrent(r)'
    BY <1>2, <1>3, <2>1, ZenonT(30) DEF WasCurrent, Whole, Rely
  <2>4. QED
    BY <2>2, <2>3, Zenon
<1>9. QED
  BY <1>4, <1>5, <1>6, <1>7, <1>8, Zenon DEF ReaderInv

(***************************************************************************)
(* The window of a call gets every value that becomes current.             *)
(***************************************************************************)
LEMMA BecomesRely ==
  ASSUME TypeOK, NEW r \in Readers, NEW a \in Areas, NEW p \in Props, NEW v, BecomesCurrent(a, p, v)
  PROVE  /\ window[r] \subseteq window'[r]
         /\ r \in Reading =>
              current'[area[r]][target[r]] \in {current[area[r]][target[r]]} \union window'[r]
<1>1. /\ area[r] \in Areas /\ target[r] \in Props
      /\ current'[area[r]][target[r]] =
           IF area[r] = a /\ target[r] = p THEN v ELSE current[area[r]][target[r]]
  BY DEF BecomesCurrent, TypeOK, WriterTypeOK, ReaderTypeOK
<1>2. window'[r] = IF r \in Reading /\ area[r] = a /\ target[r] = p THEN window[r] \union {v} ELSE window[r]
  BY Zenon DEF BecomesCurrent
<1>3. QED
  BY <1>1, <1>2, Zenon

(***************************************************************************)
(* Neither does a new name take a reader by surprise.                      *)
(***************************************************************************)
LEMMA PublishRely ==
  ASSUME TypeOK, NEW r \in Readers, NEW a \in Areas, NEW p \in Props, Publish(a, p)
  PROVE  /\ window[r] \subseteq window'[r]
         /\ r \in Reading =>
              current'[area[r]][target[r]] \in {current[area[r]][target[r]]} \union window'[r]
         /\ published[area[r]] \subseteq published'[area[r]]
         /\ target[r] \in published'[area[r]] =>
              target[r] \in published[area[r]] \/ (area[r] = a /\ target[r] = p)
<1>1. /\ area[r] \in Areas
      /\ published'[area[r]] = IF area[r] = a THEN published[area[r]] \union {p} ELSE published[area[r]]
  BY Zenon DEF Publish, TypeOK, WriterTypeOK, ReaderTypeOK
<1>2. CASE p \in published[a]
  BY <1>1, <1>2, Zenon DEF Publish
<1>3. CASE p \notin published[a]
  BY <1>1, <1>3, BecomesRely, SMTT(30) DEF Publish
<1>4. QED
  BY <1>2, <1>3, Zenon

(***************************************************************************)
(* Every step of the writer is one a reader can rely on.                   *)
(***************************************************************************)
LEMMA WriterRely ==
  ASSUME TypeOK, WriterInv, NEW r \in Readers, area[r] \in Used,
         (\E p \in Props : Update(p) \/ Add(p)) \/ WriterStep
  PROVE  Rely(r)
<1> DEFINE a0 == area[r]
           p0 == target[r]
<1>0. /\ a0 \in Areas /\ p0 \in Props /\ serial[a0][p0] \in Nat /\ area_serial[a0] \in Nat
      /\ WriterTypeOK /\ TodoInStep /\ AreasInStep
      /\ serial \in [Areas -> [Props -> Nat]] /\ area_serial \in [Areas -> Nat] /\ wprop \in Props
  BY Zenon DEF TypeOK, WriterTypeOK, ReaderTypeOK, WriterInv
<1>p. PICK p1 \in Props : Update(p1) \/ Add(p1) \/ WriterStep
  <2>1. wprop \in Props
    BY <1>0, Zenon
  <2>2. QED
    BY <2>1, Zenon
<1>1. /\ UNCHANGED fixed
      /\ UNCHANGED <<rserial[r], buf[r], copying[r], prop_info_[r], cached_area_serial_[r],
                     cached_property_serial_[r], cached_value_[r]>>
      /\ rpc'[r] = rpc[r] \/ (rpc[r] = "asleep" /\ rpc'[r] = "reload")
  <2>1. CASE WakeWatchers \/ WakeAny
    <3>1. UNCHANGED <<fixed, rserial, buf, copying, cache>> /\ \E w : Wake(w)
      BY <2>1, Zenon DEF WakeWatchers, WakeAny
    <3>2. QED
      BY <3>1, Zenon DEF cache, Wake
  <2>2. CASE ~(WakeWatchers \/ WakeAny)
    <3>1. UNCHANGED <<fixed, reader>>
      BY <1>p, <2>2, Zenon DEF WriterStep, Update, Add, CopyToBackup, MarkDirty, CopyValue, MarkOverrideDirty,
        MarkClean, MarkOverrideClean, Bump, BumpOverride, AddOverride, BumpAddedOverride
    <3>2. QED
      BY <3>1, Zenon DEF reader, cache
  <2>3. QED
    BY <2>1, <2>2, Zenon
<1>a. area' = area /\ target' = target
  BY <1>1, Zenon DEF fixed
<1>w. WriterTypeOK
  BY <1>0, Zenon
<1>2. serial[a0][p0] <= serial'[a0][p0]
  <2>1. CASE MarkDirty \/ MarkClean
    <3>1. serial' = [serial EXCEPT !["main"][wprop] = serial["main"][wprop] + 1]
      BY <2>1, Zenon DEF MarkDirty, MarkClean
    <3>2. QED
      BY <1>0, <3>1
  <2>2. CASE MarkOverrideDirty
    <3>1. "override" \in Used
      BY <1>0, <2>2, Zenon DEF MarkOverrideDirty, TodoInStep, Used, Areas
    <3>2. \A a \in Used, p \in Props :
            serial'[a][p] = serial[a][p] + IF a = "override" /\ p = wprop THEN 1 ELSE 0
      BY <1>w, <2>2, <3>1, StoreDirty, Zenon
    <3>3. QED
      BY <1>0, <3>2
  <2>3. CASE MarkOverrideClean
    <3>1. "override" \in Used
      BY <1>0, <2>3, Zenon DEF MarkOverrideClean, TodoInStep, Used, Areas
    <3>2. \A a \in Used, p \in Props :
            serial'[a][p] = serial[a][p] + IF a = "override" /\ p = wprop THEN 1 ELSE 0
      BY <1>w, <2>3, <3>1, StoreClean, Zenon
    <3>3. QED
      BY <1>0, <3>2
  <2>4. CASE ~(MarkDirty \/ MarkClean \/ MarkOverrideDirty \/ MarkOverrideClean)
    <3>1. serial' = serial
      BY <1>p, <2>4, Zenon DEF WriterStep, Update, Add, CopyToBackup, CopyValue, WakeWatchers, WakeAny,
        Bump, BumpOverride, AddOverride, BumpAddedOverride, shared
    <3>2. QED
      BY <1>0, <3>1
  <2>5. QED
    BY <2>1, <2>2, <2>3, <2>4, Zenon
<1>3. /\ published[a0] \subseteq published'[a0]
      /\ area_serial[a0] <= area_serial'[a0]
      /\ Counted(r)
  <2>1. ASSUME NEW p \in Props, Add(p)
        PROVE  /\ published[a0] \subseteq published'[a0]
               /\ area_serial[a0] <= area_serial'[a0]
               /\ Counted(r)
    <3>1. Publish("main", p) /\ wpc = "idle" /\ wpc' \in AddLocations /\ wprop' = p /\ area_serial' = area_serial
      BY <2>1, Zenon DEF Add, AddLocations
    <3>2. /\ published[a0] \subseteq published'[a0]
          /\ p0 \in published'[a0] => p0 \in published[a0] \/ (a0 = "main" /\ p0 = p)
      BY <3>1, PublishRely, Zenon DEF Areas
    <3>3. QED
      BY <1>0, <1>a, <3>1, <3>2 DEF Counted, BeingAdded, AddLocations
  <2>2. CASE AddOverride
    <3>1. /\ Publish("override", wprop) /\ wpc = "oadd" /\ wprop' = wprop /\ area_serial' = area_serial
          /\ wpc' = IF wprop \in published["override"] THEN "addbump" ELSE "oaddbump"
      BY <2>2, Zenon DEF AddOverride
    <3>2. /\ published[a0] \subseteq published'[a0]
          /\ p0 \in published'[a0] => p0 \in published[a0] \/ (a0 = "override" /\ p0 = wprop)
      BY <1>0, <3>1, PublishRely, Zenon DEF Areas
    <3>3. QED
      BY <1>0, <1>a, <3>1, <3>2 DEF Counted, BeingAdded, AddLocations, Areas
  <2>3. CASE Bump
    <3>1. /\ area_serial' = [area_serial EXCEPT !["main"] = area_serial["main"] + 1]
          /\ published' = published /\ wprop' = wprop /\ wpc \in {"bump", "addbump"}
          /\ wpc' \in {"obump", "wakearea"}
      BY <2>3, Zenon DEF Bump
    <3>2. area_serial'[a0] = area_serial[a0] + IF a0 = "main" THEN 1 ELSE 0
      BY <1>0, <3>1
    <3>3. QED
      BY <1>0, <1>a, <3>1, <3>2 DEF Counted, BeingAdded, AddLocations, Areas
  <2>4. CASE BumpOverride
    <3>1. /\ area_serial' = [area_serial EXCEPT !["override"] = area_serial["main"] + 1]
          /\ published' = published /\ wpc = "obump" /\ wpc' = "wakearea"
      BY <2>4, Zenon DEF BumpOverride
    <3>2. area_serial[a0] <= area_serial'[a0]
      BY <1>0, <3>1 DEF AreasInStep, TodoInStep, Areas
    <3>3. QED
      BY <1>a, <3>1, <3>2, Zenon DEF Counted, BeingAdded, AddLocations
  <2>5. CASE BumpAddedOverride
    <3>1. /\ area_serial' = [area_serial EXCEPT !["override"] = area_serial["override"] + 1]
          /\ published' = published /\ wprop' = wprop /\ wpc = "oaddbump" /\ wpc' = "addbump"
      BY <2>5, Zenon DEF BumpAddedOverride
    <3>2. area_serial'[a0] = area_serial[a0] + IF a0 = "override" THEN 1 ELSE 0
      BY <1>0, <3>1
    <3>3. QED
      BY <1>0, <1>a, <3>1, <3>2 DEF Counted, BeingAdded, AddLocations, Areas
  <2>6. CASE ~(Add(p1) \/ AddOverride \/ Bump \/ BumpOverride \/ BumpAddedOverride)
    <3>1. UNCHANGED <<published, area_serial>> /\ wpc \notin AddLocations /\ wpc' \notin AddLocations
      BY <1>p, <2>6, Zenon DEF WriterStep, Update, CopyToBackup, CopyValue, WakeWatchers, WakeAny,
        MarkDirty, MarkClean, MarkOverrideDirty, MarkOverrideClean, shared, AddLocations
    <3>2. QED
      BY <1>0, <1>a, <3>1 DEF Counted, BeingAdded, AddLocations
  <2>7. QED
    BY <2>1, <2>2, <2>3, <2>4, <2>5, <2>6, Zenon
<1>4. /\ window[r] \subseteq window'[r]
      /\ r \in Reading => current'[a0][p0] \in {current[a0][p0]} \union window'[r]
  <2>1. ASSUME NEW p \in Props, Add(p)
        PROVE  /\ window[r] \subseteq window'[r]
               /\ r \in Reading => current'[a0][p0] \in {current[a0][p0]} \union window'[r]
    BY <2>1, PublishRely, Zenon DEF Add, Areas
  <2>2. CASE AddOverride
    BY <1>0, <2>2, PublishRely, Zenon DEF AddOverride, Areas
  <2>3. CASE MarkClean
    BY <1>0, <2>3, BecomesRely, Zenon DEF MarkClean, Areas
  <2>4. CASE MarkOverrideClean
    BY <1>0, <2>4, BecomesRely, Zenon DEF MarkOverrideClean, Areas
  <2>5. CASE ~(Add(p1) \/ AddOverride \/ MarkClean \/ MarkOverrideClean)
    <3>1. UNCHANGED <<current, window>>
      BY <1>p, <2>5, Zenon DEF WriterStep, Update, CopyToBackup, CopyValue, WakeWatchers, WakeAny,
        MarkDirty, MarkOverrideDirty, Bump, BumpOverride, BumpAddedOverride, shared
    <3>2. QED
      BY <3>1, Zenon
  <2>6. QED
    BY <2>1, <2>2, <2>3, <2>4, <2>5, Zenon
<1>5. QED
  BY <1>1, <1>2, <1>3, <1>4, Zenon DEF Rely

(***************************************************************************)
(* A step of a reader leaves everything of the others alone.               *)
(***************************************************************************)
LEMMA OnlyOneReader ==
  ASSUME TypeOK, NEW r \in Readers, ReaderStep(r) \/ Interrupt(r) \/ Timeout(r), NEW q \in Readers \ {r}
  PROVE  /\ UNCHANGED <<fixed, shared, writer>>
         /\ UNCHANGED <<rserial[q], buf[q], copying[q], prop_info_[q], cached_area_serial_[q],
                        cached_property_serial_[q], cached_value_[q], rpc[q], window[q]>>
<1> USE DEF TypeOK, ReaderTypeOK, Goto, cache
<1>1. CASE Call(r)
  BY <1>1, Zenon DEF Call
<1>2. CASE LoadSerial(r)
  BY <1>2, Zenon DEF LoadSerial
<1>3. CASE CopyHalf(r)
  BY <1>3, Zenon DEF CopyHalf
<1>4. CASE Check(r)
  <2>1. CASE Serial(r) = rserial[r]
    BY <1>4, <2>1, Zenon DEF Check, Deliver
  <2>2. CASE Serial(r) # rserial[r]
    BY <1>4, <2>2, Zenon DEF Check
  <2>3. QED
    BY <2>1, <2>2, Zenon
<1>5. CASE GetAreaSerial(r)
  BY <1>5, Zenon DEF GetAreaSerial
<1>6. CASE Find(r)
  BY <1>6, Zenon DEF Find
<1>7. CASE GetSerial(r)
  BY <1>7, Zenon DEF GetSerial
<1>8. CASE StartWait(r)
  BY <1>8, Zenon DEF StartWait
<1>9. CASE FutexWait(r)
  BY <1>9, Zenon DEF FutexWait
<1>10. CASE ReloadSerial(r)
  BY <1>10, Zenon DEF ReloadSerial
<1>11. CASE Interrupt(r)
  BY <1>11, Zenon DEF Interrupt
<1>12. CASE Timeout(r)
  BY <1>12, ZenonT(30) DEF Timeout
<1>13. QED
  BY <1>1, <1>2, <1>3, <1>4, <1>5, <1>6, <1>7, <1>8, <1>9, <1>10, <1>11, <1>12, Zenon DEF ReaderStep

(***************************************************************************)
(* So it is one the others can rely on, and so is no step at all.          *)
(***************************************************************************)
LEMMA QuietRely ==
  ASSUME TypeOK, NEW q \in Readers, UNCHANGED <<fixed, shared, writer>>,
         UNCHANGED <<rserial[q], buf[q], copying[q], prop_info_[q], cached_area_serial_[q],
                     cached_property_serial_[q], cached_value_[q], rpc[q], window[q]>>
  PROVE  Rely(q)
<1>1. serial[area[q]][target[q]] \in Nat /\ area_serial[area[q]] \in Nat
  BY Zenon DEF TypeOK, WriterTypeOK, ReaderTypeOK
<1>2. Counted(q)
  BY Zenon DEF Counted, BeingAdded, fixed, shared, writer
<1>3. QED
  BY <1>1, <1>2 DEF Rely, shared

(***************************************************************************)
(* What stays when nobody writes.                                          *)
(***************************************************************************)
LEMMA Still ==
  ASSUME UNCHANGED <<fixed, shared, writer>>
  PROVE  /\ area' = area /\ target' = target /\ published' = published /\ serial' = serial
         /\ area_serial' = area_serial /\ current' = current /\ wpc' = wpc /\ wprop' = wprop
         /\ Watchers' = Watchers /\ Cachers' = Cachers /\ Used' = Used
  BY Zenon DEF fixed, shared, writer, Watchers, Cachers, Used

(***************************************************************************)
(* What holds of a reader, and the types of what it looks at.              *)
(***************************************************************************)
View(r) ==
  /\ CopiesInStep(r) /\ FoundFirst(r) /\ AdditionsSeen(r) /\ WindowExact(r)
  /\ area[r] \in Used /\ area[r] \in Areas /\ target[r] \in Props
  /\ Serial(r) \in Nat /\ area_serial[area[r]] \in Nat /\ Serial(r) = serial[area[r]][target[r]]
  /\ rserial[r] \in Nat /\ copying[r] \subseteq Halves /\ cached_area_serial_[r] \in Nat
  /\ buf[r] \in [Halves -> Values] /\ cached_value_[r] \in [Halves -> Values]

(***************************************************************************)
(* It follows from the invariant.                                          *)
(***************************************************************************)
LEMMA ReaderView ==
  ASSUME TypeOK, NEW r \in Readers, ReaderInv(r)
  PROVE  View(r)
<1>1. CopiesInStep(r) /\ FoundFirst(r) /\ AdditionsSeen(r) /\ WindowExact(r) /\ area[r] \in Used
  BY Zenon DEF ReaderInv, FoundFirst
<1>2. area[r] \in Areas /\ target[r] \in Props
  BY Zenon DEF TypeOK, ReaderTypeOK
<1>3. Serial(r) \in Nat /\ area_serial[area[r]] \in Nat /\ Serial(r) = serial[area[r]][target[r]]
  BY <1>2, Zenon DEF TypeOK, WriterTypeOK, Serial
<1>4. /\ rserial[r] \in Nat /\ copying[r] \subseteq Halves /\ cached_area_serial_[r] \in Nat
      /\ buf[r] \in [Halves -> Values] /\ cached_value_[r] \in [Halves -> Values]
  BY Zenon DEF TypeOK, ReaderTypeOK
<1>5. QED
  BY <1>1, <1>2, <1>3, <1>4, Zenon DEF View

(***************************************************************************)
(* The steps of a reader that only move it, or begin a copy.               *)
(***************************************************************************)
LEMMA MovesKeep ==
  ASSUME TypeOK, NEW r \in Readers, ReaderInv(r),
         \/ StartWait(r) \/ FutexWait(r) \/ ReloadSerial(r) \/ Interrupt(r) \/ Timeout(r) \/ LoadSerial(r)
  PROVE  ReaderInv(r)'
<1>0. View(r)
  BY ReaderView, Zenon
<1>1. /\ UNCHANGED <<fixed, shared, writer>>
      /\ UNCHANGED <<buf, prop_info_, cached_area_serial_, cached_property_serial_, cached_value_>>
  BY Zenon DEF StartWait, FutexWait, ReloadSerial, Interrupt, Timeout, LoadSerial, cache
<1>2. /\ rpc'[r] \in {"wait", "asleep", "reload", "idle", "copy"}
      /\ rpc'[r] = "copy" => /\ rpc[r] = "load" /\ rserial'[r] = Serial(r) /\ copying'[r] = Halves
                             /\ window' = window
  BY Zenon DEF StartWait, FutexWait, ReloadSerial, Interrupt, Timeout, LoadSerial, TypeOK, ReaderTypeOK, Goto
<1>3. CopiesInStep(r)'
  <2>1. Serial(r)' = Serial(r) /\ Serial(r) \in Nat
    BY <1>0, <1>1, Still, Zenon DEF View, Serial
  <2>2. Serial(r) <= Serial(r)
    BY <2>1
  <2>3. QED
    BY <1>0, <1>1, <1>2, <2>1, <2>2, Still, Zenon DEF View, CopiesInStep
<1>4. FoundFirst(r)'
  BY <1>1, <1>2, Still, <1>0, Zenon DEF View, FoundFirst
<1>5. AdditionsSeen(r)'
  BY <1>1, <1>2, Still, <1>0, Zenon DEF View, AdditionsSeen, BeingAdded
<1>6. WindowExact(r)'
  BY <1>1, <1>2, Still, <1>0, Zenon DEF View, WindowExact, Reading
<1>7. QED
  BY <1>2, <1>3, <1>4, <1>5, <1>6, Zenon DEF ReaderInv

(***************************************************************************)
(* A call begins.                                                          *)
(***************************************************************************)
LEMMA CallKeeps ==
  ASSUME TypeOK, WriterInv, NEW r \in Readers, ReaderInv(r), Call(r)
  PROVE  ReaderInv(r)'
<1>0. View(r)
  BY ReaderView, Zenon
<1>1. /\ UNCHANGED <<fixed, shared, writer>>
      /\ UNCHANGED <<rserial, buf, copying, prop_info_, cached_area_serial_, cached_property_serial_,
                     cached_value_>>
  BY Zenon DEF Call, cache
<1>2. /\ rpc[r] = "idle" /\ rpc'[r] \in {"load", "serial", "get"}
      /\ rpc'[r] = IF r \in Watchers THEN "load" ELSE IF prop_info_[r] THEN "serial" ELSE "get"
      /\ window'[r] = {current[area[r]][target[r]]} \union
                      IF wpc \in AddLocations /\ wprop = target[r] THEN {NoValue} ELSE {}
  BY Zenon DEF Call, TypeOK, ReaderTypeOK, Goto
<1>3. CopiesInStep(r)'
  BY <1>1, <1>2, Still, <1>0, Zenon DEF View, CopiesInStep, Serial
<1>4. FoundFirst(r)'
  BY <1>1, <1>2, Still, <1>0, Zenon DEF View, FoundFirst, Cachers, Watchers
<1>5. AdditionsSeen(r)'
  BY <1>1, <1>2, Still, <1>0, Zenon DEF View, AdditionsSeen, BeingAdded
<1>6. WindowExact(r)'
  <2>1. ASSUME rpc'[r] = "get", NoValue \notin window'[r]
        PROVE  cached_area_serial_[r] < area_serial[area[r]]
    <3>1. ~prop_info_[r] /\ ~(wpc \in AddLocations /\ wprop = target[r])
      BY <1>2, <2>1, Zenon
    <3>2. target[r] \in published[area[r]]
      <4>1. current[area[r]][target[r]] # NoValue
        BY <1>2, <2>1, Zenon
      <4>2. CurrentInStep /\ area[r] \in Used /\ target[r] \in Props
        BY <1>0, Zenon DEF View, WriterInv
      <4>3. QED
        BY <4>1, <4>2, Zenon DEF CurrentInStep
    <3>3. QED
      BY <1>0, <3>1, <3>2, Zenon DEF View, AdditionsSeen, BeingAdded, AddLocations
  <2>2. QED
    BY <1>1, <1>2, <2>1, Still, Zenon DEF WindowExact
<1>7. QED
  BY <1>2, <1>3, <1>4, <1>5, <1>6, Zenon DEF ReaderInv

(***************************************************************************)
(* A half is copied: from the value while the serial is even, from the     *)
(* backup while it is odd.                                                 *)
(***************************************************************************)
LEMMA CopyKeeps ==
  ASSUME TypeOK, WriterInv, NEW r \in Readers, ReaderInv(r), CopyHalf(r)
  PROVE  ReaderInv(r)'
<1>0. View(r)
  BY ReaderView, Zenon
<1>1. /\ UNCHANGED <<fixed, shared, writer>>
      /\ UNCHANGED <<rserial, prop_info_, cached_area_serial_, cached_property_serial_, cached_value_,
                     window>>
  BY Zenon DEF CopyHalf, cache
<1>2. PICK h0 \in copying[r] :
        /\ buf' = [buf EXCEPT ![r][h0] = IF SERIAL_DIRTY(rserial[r]) THEN dirty_backup[area[r]][h0]
                                         ELSE value[area[r]][target[r]][h0]]
        /\ copying' = [copying EXCEPT ![r] = copying[r] \ {h0}]
  BY Zenon DEF CopyHalf
<1>a. /\ buf'[r] = [buf[r] EXCEPT ![h0] = IF SERIAL_DIRTY(rserial[r]) THEN dirty_backup[area[r]][h0]
                                          ELSE value[area[r]][target[r]][h0]]
      /\ copying'[r] = copying[r] \ {h0}
  BY <1>2, Zenon DEF TypeOK, ReaderTypeOK
<1>3. /\ rpc[r] = "copy" /\ rpc'[r] \in {"copy", "check"}
      /\ rpc'[r] = "check" => copying'[r] = {}
  BY Zenon DEF CopyHalf, TypeOK, ReaderTypeOK, Goto
<1>4. h0 \in Halves
  BY <1>0, Zenon DEF View
<1>5. ASSUME rserial[r] = Serial(r)
      PROVE  buf'[r][h0] = <<target[r], rserial[r] \div 2>>
  <2>0. SerialsInStep /\ ValuesInStep /\ BackupsInStep
    BY Zenon DEF WriterInv
  <2>1. CASE SERIAL_DIRTY(rserial[r])
    <3>1. wprop = target[r] /\ wpc \in Dirty(area[r])
      BY <1>0, <1>5, <2>0, <2>1, Zenon DEF View, SerialsInStep
    <3>2. dirty_backup[area[r]][h0] = <<wprop, serial[area[r]][wprop] \div 2>>
      BY <1>0, <1>4, <2>0, <3>1, Zenon DEF View, BackupsInStep, BackedUp
    <3>3. buf'[r][h0] = dirty_backup[area[r]][h0]
      BY <1>0, <1>4, <1>a, <2>1, Zenon DEF View
    <3>4. QED
      BY <1>0, <1>5, <3>1, <3>2, <3>3, Zenon DEF View
  <2>2. CASE ~SERIAL_DIRTY(rserial[r])
    <3>1. ~(wprop = target[r] /\ wpc \in Dirty(area[r]))
      BY <1>0, <1>5, <2>0, <2>2, Zenon DEF View, SerialsInStep
    <3>2. ~(wprop = target[r] /\ Renewed(area[r], h0))
      BY <1>0, <3>1, Zenon DEF View, Renewed, Dirty, Areas
    <3>3. value[area[r]][target[r]][h0] = <<target[r], serial[area[r]][target[r]] \div 2 + 0>>
      BY <1>0, <1>4, <2>0, <3>2, Zenon DEF View, ValuesInStep
    <3>4. Serial(r) \div 2 \in Nat
      BY <1>0, Parity, Zenon DEF View
    <3>5. buf'[r][h0] = value[area[r]][target[r]][h0]
      BY <1>0, <1>4, <1>a, <2>2, Zenon DEF View
    <3>6. Serial(r) \div 2 + 0 = Serial(r) \div 2
      BY <3>4
    <3>7. QED
      BY <1>0, <1>5, <3>3, <3>5, <3>6, Zenon DEF View
  <2>3. QED
    BY <2>1, <2>2, Zenon
<1>6. CopiesInStep(r)'
  <2>1. ASSUME rserial[r] = Serial(r), NEW h \in Halves \ copying'[r]
        PROVE  buf'[r][h] = <<target[r], rserial[r] \div 2>>
    <3>1. CASE h = h0
      BY <1>5, <2>1, <3>1, Zenon
    <3>2. CASE h # h0
      <4>1. h \in Halves \ copying[r] /\ buf'[r][h] = buf[r][h]
        BY <1>0, <1>4, <1>a, <2>1, <3>2, Zenon DEF View
      <4>2. QED
        BY <1>0, <1>3, <2>1, <4>1, Zenon DEF View, CopiesInStep
    <3>3. QED
      BY <3>1, <3>2, Zenon
  <2>2. Serial(r)' = Serial(r) /\ rserial[r] <= Serial(r)
    BY <1>1, <1>3, Still, <1>0, Zenon DEF View, Serial, CopiesInStep
  <2>3. QED
    BY <1>1, <1>3, <2>1, <2>2, Still, <1>0, Zenon DEF View, CopiesInStep
<1>7. FoundFirst(r)'
  BY <1>1, <1>3, Still, <1>0, Zenon DEF View, FoundFirst
<1>8. AdditionsSeen(r)'
  BY <1>1, <1>3, Still, <1>0, Zenon DEF View, AdditionsSeen, BeingAdded
<1>9. WindowExact(r)'
  BY <1>1, <1>3, Still, <1>0, Zenon DEF View, WindowExact, Reading
<1>10. QED
  BY <1>3, <1>6, <1>7, <1>8, <1>9, Zenon DEF ReaderInv

(***************************************************************************)
(* The value of the serial is the current one of a property that has been  *)
(* found.                                                                  *)
(***************************************************************************)
LEMMA SerialIsCurrent ==
  ASSUME TypeOK, WriterInv, NEW r \in Readers, ReaderInv(r), r \in Watchers \/ prop_info_[r]
  PROVE  current[area[r]][target[r]] = <<target[r], Serial(r) \div 2>>
<1>0. View(r)
  BY ReaderView, Zenon
<1>1. target[r] \in published[area[r]]
  BY <1>0, Zenon DEF View, FoundFirst, WriterInv, PublishedInStep
<1>2. CurrentInStep /\ area[r] \in Used /\ target[r] \in Props /\ Serial(r) = serial[area[r]][target[r]]
  BY <1>0, Zenon DEF View, WriterInv
<1>3. QED
  BY <1>1, <1>2, Zenon DEF CurrentInStep

(***************************************************************************)
(* The second look at the serial: the copy is good, or it starts again.    *)
(***************************************************************************)
LEMMA CheckKeeps ==
  ASSUME TypeOK, WriterInv, NEW r \in Readers, ReaderInv(r), Check(r)
  PROVE  ReaderInv(r)'
<1>0. View(r)
  BY ReaderView, Zenon
<1>1. UNCHANGED <<fixed, shared, writer>> /\ UNCHANGED <<buf, window>> /\ rpc[r] = "check"
  BY Zenon DEF Check
<1>2. r \in Watchers \/ prop_info_[r]
  BY <1>0, <1>1, Zenon DEF View, FoundFirst
<1>3. CASE Serial(r) = rserial[r]
  <2>1. rpc'[r] = "got" /\ UNCHANGED <<rserial, copying>> /\ Deliver(r)
    BY <1>3, Zenon DEF Check, Deliver, TypeOK, ReaderTypeOK, Goto
  <2>2. UNCHANGED <<prop_info_, cached_area_serial_>>
    BY <2>1, Zenon DEF Deliver, cache
  <2>3. \A h \in Halves : buf[r][h] = <<target[r], rserial[r] \div 2>>
    BY <1>0, <1>1, <1>3, Zenon DEF View, CopiesInStep
  <2>4. buf[r] = Whole(<<target[r], rserial[r] \div 2>>)
    BY <1>0, <2>3, WholeOf, Zenon DEF View
  <2>5. <<target[r], rserial[r] \div 2>> \in window[r]
    <3>1. current[area[r]][target[r]] \in window[r]
      BY <1>0, <1>1, Zenon DEF View, WindowExact, Reading
    <3>2. current[area[r]][target[r]] = <<target[r], Serial(r) \div 2>>
      BY <1>2, SerialIsCurrent, Zenon
    <3>3. QED
      BY <1>3, <3>1, <3>2, Zenon
  <2>6. AdditionsSeen(r)' /\ WindowExact(r)'
    BY <1>1, <2>1, <2>2, Still, <1>0, Zenon DEF View, AdditionsSeen, BeingAdded, WindowExact, Reading
  <2>7. CASE r \in Watchers
    <3>1. UNCHANGED <<cached_property_serial_, cached_value_>>
      BY <2>1, <2>7, Zenon DEF Deliver, cache
    <3>2. CopiesInStep(r)'
      BY <1>1, <2>1, <3>1, Still, <1>0, Zenon DEF View, CopiesInStep
    <3>3. FoundFirst(r)'
      BY <1>1, <2>1, <2>2, <2>7, <3>1, Still, <1>0, Zenon DEF View, FoundFirst
    <3>4. Trio(r)' /\ WasCurrent(r)'
      BY <1>1, <2>1, <2>4, <2>5, <2>7, Still, Zenon DEF Trio, WasCurrent, Whole
    <3>5. QED
      BY <2>6, <3>2, <3>3, <3>4, Zenon DEF ReaderInv
  <2>8. CASE r \notin Watchers
    <3>1. cached_property_serial_'[r] = rserial[r] /\ cached_value_'[r] = buf[r] /\ prop_info_[r]
      BY <1>2, <2>1, <2>8, Zenon DEF Deliver, TypeOK, ReaderTypeOK
    <3>2. rserial[r] \in Nat
      BY <1>0, Zenon DEF View
    <3>3. rserial[r] # -1
      BY <3>2
    <3>4. CopiesInStep(r)'
      BY <1>1, <2>1, <2>3, <3>1, <3>3, Still, Zenon DEF CopiesInStep
    <3>5. FoundFirst(r)'
      BY <1>0, <1>1, <2>1, <2>2, <2>8, <3>1, <3>3, Still, Zenon DEF View, FoundFirst
    <3>6. Trio(r)' /\ WasCurrent(r)'
      BY <1>1, <2>1, <2>4, <2>5, <2>8, <3>1, Still, Zenon DEF Trio, WasCurrent, Whole
    <3>7. QED
      BY <2>6, <3>4, <3>5, <3>6, Zenon DEF ReaderInv
  <2>9. QED
    BY <2>7, <2>8, Zenon
<1>4. CASE Serial(r) # rserial[r]
  <2>1. /\ rpc'[r] = "copy" /\ rserial'[r] = Serial(r) /\ copying'[r] = Halves
        /\ UNCHANGED <<prop_info_, cached_area_serial_, cached_property_serial_, cached_value_>>
    BY <1>4, SMTT(30) DEF Check, TypeOK, ReaderTypeOK, Goto, cache
  <2>2. CopiesInStep(r)'
    <3>1. Serial(r)' = Serial(r) /\ Serial(r) \in Nat
      BY <1>0, <1>1, Still, Zenon DEF View, Serial
    <3>2. Serial(r) <= Serial(r)
      BY <3>1
    <3>3. QED
      BY <1>0, <1>1, <2>1, <3>1, <3>2, Still, Zenon DEF View, CopiesInStep
  <2>3. FoundFirst(r)'
    BY <1>1, <1>2, <2>1, Still, <1>0, Zenon DEF View, FoundFirst
  <2>4. AdditionsSeen(r)' /\ WindowExact(r)'
    BY <1>1, <2>1, Still, <1>0, Zenon DEF View, AdditionsSeen, BeingAdded, WindowExact, Reading
  <2>5. QED
    BY <2>1, <2>2, <2>3, <2>4, Zenon DEF ReaderInv
<1>5. QED
  BY <1>3, <1>4, Zenon

(***************************************************************************)
(* CachedProperty::Get without a prop_info: what it returns without        *)
(* looking is nothing, which was current.                                  *)
(***************************************************************************)
LEMMA GetKeeps ==
  ASSUME TypeOK, WriterInv, NEW r \in Readers, ReaderInv(r), GetAreaSerial(r)
  PROVE  ReaderInv(r)'
<1>0. View(r)
  BY ReaderView, Zenon
<1>1. /\ UNCHANGED <<fixed, shared, writer>> /\ rpc[r] = "get"
      /\ UNCHANGED <<buf, copying, prop_info_, cached_area_serial_, cached_property_serial_,
                     cached_value_, window>>
  BY Zenon DEF GetAreaSerial, cache
<1>2. /\ rpc'[r] = IF area_serial[area[r]] # cached_area_serial_[r] THEN "find" ELSE "got"
      /\ rserial'[r] = area_serial[area[r]]
  BY Zenon DEF GetAreaSerial, TypeOK, ReaderTypeOK, Goto
<1>3. ~prop_info_[r] /\ r \notin Watchers /\ cached_property_serial_[r] = -1
  BY <1>0, <1>1, Zenon DEF View, FoundFirst, Watchers, Cachers
<1>4. CopiesInStep(r)' /\ FoundFirst(r)'
  BY <1>0, <1>1, <1>2, <1>3, Still, Zenon DEF View, CopiesInStep, FoundFirst
<1>5. AdditionsSeen(r)' /\ WindowExact(r)'
  <2>1. area_serial[area[r]] \in Nat
    BY <1>0, Zenon DEF View
  <2>2. area_serial[area[r]] <= area_serial[area[r]]
    BY <2>1
  <2>3. QED
    BY <1>0, <1>1, <1>2, <2>2, Still, Zenon
       DEF View, AdditionsSeen, BeingAdded, WindowExact, Reading
<1>6. ASSUME rpc'[r] = "got" PROVE Trio(r)' /\ WasCurrent(r)'
  <2>1. \A h \in Halves : cached_value_[r][h] = NoValue
    BY <1>0, <1>3, Zenon DEF View, CopiesInStep
  <2>2. cached_value_[r] = Whole(NoValue)
    BY <1>0, <2>1, WholeOf, Zenon DEF View
  <2>3. NoValue \in window[r]
    <3>1. area_serial[area[r]] = cached_area_serial_[r] /\ area_serial[area[r]] \in Nat
      BY <1>0, <1>2, <1>6, Zenon DEF View
    <3>2. NoValue \in window[r] \/ cached_area_serial_[r] < area_serial[area[r]]
      BY <1>0, <1>1, Zenon DEF View, WindowExact
    <3>3. QED
      BY <3>1, <3>2
  <2>4. QED
    BY <1>1, <1>3, <2>2, <2>3, Still, Zenon DEF Trio, WasCurrent, Whole
<1>7. QED
  BY <1>4, <1>5, <1>6, Zenon DEF ReaderInv

(***************************************************************************)
(* The prop_info is looked for: if there is none, that is the current      *)
(* state.                                                                  *)
(***************************************************************************)
LEMMA FindKeeps ==
  ASSUME TypeOK, WriterInv, NEW r \in Readers, ReaderInv(r), Find(r)
  PROVE  ReaderInv(r)'
<1>0. View(r)
  BY ReaderView, Zenon
<1>1. /\ UNCHANGED <<fixed, shared, writer>> /\ rpc[r] = "find"
      /\ UNCHANGED <<rserial, buf, copying, cached_property_serial_, cached_value_, window>>
  BY Zenon DEF Find
<1>2. /\ prop_info_'[r] <=> target[r] \in published[area[r]]
      /\ rpc'[r] = IF prop_info_'[r] THEN "serial" ELSE "got"
      /\ cached_area_serial_'[r] = rserial[r]
  <2>1. /\ prop_info_' = [prop_info_ EXCEPT ![r] = target[r] \in published[area[r]]]
        /\ cached_area_serial_' = [cached_area_serial_ EXCEPT ![r] = rserial[r]]
        /\ rpc' = [rpc EXCEPT ![r] = IF prop_info_'[r] THEN "serial" ELSE "got"]
    BY Zenon DEF Find, Goto
  <2>2. prop_info_ \in [Readers -> BOOLEAN] /\ cached_area_serial_ \in [Readers -> Nat]
        /\ rpc \in [Readers -> ReaderLocations]
    BY Zenon DEF TypeOK, ReaderTypeOK
  <2>3. QED
    BY <2>1, <2>2, Zenon
<1>3. ~prop_info_[r] /\ r \notin Watchers /\ r \in Cachers /\ cached_property_serial_[r] = -1
  BY <1>0, <1>1, Zenon DEF View, FoundFirst, Watchers, Cachers
<1>4. CopiesInStep(r)' /\ FoundFirst(r)'
  BY <1>0, <1>1, <1>2, <1>3, Still, Zenon DEF View, CopiesInStep, FoundFirst
<1>5. AdditionsSeen(r)'
  BY <1>0, <1>1, <1>2, Still, Zenon DEF View, AdditionsSeen
<1>6. WindowExact(r)'
  BY <1>0, <1>1, <1>2, Still, Zenon DEF View, WindowExact, Reading
<1>7. ASSUME rpc'[r] = "got" PROVE Trio(r)' /\ WasCurrent(r)'
  <2>1. \A h \in Halves : cached_value_[r][h] = NoValue
    BY <1>0, <1>3, Zenon DEF View, CopiesInStep
  <2>2. cached_value_[r] = Whole(NoValue)
    BY <1>0, <2>1, WholeOf, Zenon DEF View
  <2>3. ~prop_info_'[r] /\ target[r] \notin published[area[r]]
    BY <1>2, <1>7, Zenon
  <2>4. current[area[r]][target[r]] = NoValue
    <3>1. CurrentInStep /\ area[r] \in Used /\ target[r] \in Props
      BY <1>0, Zenon DEF View, WriterInv
    <3>2. QED
      BY <2>3, <3>1, Zenon DEF CurrentInStep
  <2>5. NoValue \in window[r]
    BY <1>0, <1>1, <2>4, Zenon DEF View, WindowExact, Reading
  <2>6. QED
    BY <1>1, <1>3, <2>2, <2>3, <2>5, Still, Zenon DEF Trio, WasCurrent, Whole
<1>8. QED
  BY <1>4, <1>5, <1>6, <1>7, Zenon DEF ReaderInv

(***************************************************************************)
(* The cached value is current if the serial is the one it was read with.  *)
(***************************************************************************)
LEMMA SerialKeeps ==
  ASSUME TypeOK, WriterInv, NEW r \in Readers, ReaderInv(r), GetSerial(r)
  PROVE  ReaderInv(r)'
<1>0. View(r)
  BY ReaderView, Zenon
<1>1. /\ UNCHANGED <<fixed, shared, writer>> /\ rpc[r] = "serial"
      /\ UNCHANGED <<rserial, buf, copying, prop_info_, cached_area_serial_, cached_property_serial_,
                     cached_value_, window>>
  BY Zenon DEF GetSerial, cache
<1>2. rpc'[r] = IF Serial(r) # cached_property_serial_[r] THEN "load" ELSE "got"
  BY Zenon DEF GetSerial, TypeOK, ReaderTypeOK, Goto
<1>3. prop_info_[r] /\ r \notin Watchers
  BY <1>0, <1>1, Zenon DEF View, FoundFirst, Watchers, Cachers
<1>4. CopiesInStep(r)' /\ FoundFirst(r)'
  <2>1. Serial(r) \in Nat
    BY <1>0, Zenon DEF View
  <2>2. Serial(r) # -1
    BY <2>1
  <2>3. rpc'[r] \in {"load", "got"} /\ (rpc'[r] = "got" => cached_property_serial_[r] # -1)
    BY <1>2, <2>2, Zenon
  <2>4. QED
    BY <1>0, <1>1, <1>3, <2>3, Still, Zenon DEF View, CopiesInStep, FoundFirst
<1>5. AdditionsSeen(r)' /\ WindowExact(r)'
  BY <1>0, <1>1, <1>2, Still, Zenon DEF View, AdditionsSeen, BeingAdded, WindowExact, Reading
<1>6. ASSUME rpc'[r] = "got" PROVE Trio(r)' /\ WasCurrent(r)'
  <2>1. Serial(r) = cached_property_serial_[r] /\ cached_property_serial_[r] # -1
    BY <1>0, <1>2, <1>6 DEF View
  <2>2. \A h \in Halves : cached_value_[r][h] = <<target[r], cached_property_serial_[r] \div 2>>
    BY <1>0, <2>1, Zenon DEF View, CopiesInStep
  <2>3. cached_value_[r] = Whole(<<target[r], cached_property_serial_[r] \div 2>>)
    BY <1>0, <2>2, WholeOf, Zenon DEF View
  <2>4. <<target[r], cached_property_serial_[r] \div 2>> \in window[r]
    <3>1. current[area[r]][target[r]] \in window[r]
      BY <1>0, <1>1, Zenon DEF View, WindowExact, Reading
    <3>2. current[area[r]][target[r]] = <<target[r], Serial(r) \div 2>>
      BY <1>3, SerialIsCurrent, Zenon
    <3>3. QED
      BY <2>1, <3>1, <3>2, Zenon
  <2>5. QED
    BY <1>1, <1>3, <2>3, <2>4, Still, ZenonT(30) DEF Trio, WasCurrent, Whole
<1>7. QED
  BY <1>4, <1>5, <1>6, Zenon DEF ReaderInv

FS == INSTANCE FiniteSetTheorems

(***************************************************************************)
(* There is a property from the start, and the area's serial has counted   *)
(* it.                                                                     *)
(***************************************************************************)
LEMMA EarlyCounted == Cardinality(Early) \in Nat \ {0}
<1>1. FS!IsFiniteSet(Props)
  BY PropertiesAssumption, Zenon DEF IsFiniteSet, FS!IsFiniteSet
<1>2. FS!IsFiniteSet(Early)
  BY <1>1, PropertiesAssumption, FS!FS_Subset, Zenon
<1>3. FS!Cardinality(Early) \in Nat /\ FS!Cardinality(Early) # 0
  BY <1>2, PropertiesAssumption, FS!FS_CardinalityType, FS!FS_EmptySet, Zenon
<1>4. Cardinality(Early) = FS!Cardinality(Early)
  BY Zenon DEF Cardinality, FS!Cardinality
<1>5. QED
  BY <1>3, <1>4, Zenon

(***************************************************************************)
(* The invariant holds at first.                                           *)
(***************************************************************************)
LEMMA InitInv == Init => Inv
<1> SUFFICES ASSUME Init PROVE Inv
  OBVIOUS
<1> USE PropertiesAssumption, EarlyCounted DEF Init, Areas, Used, Whole
<1>1. WriterTypeOK
  BY DEF WriterTypeOK, Values, NoValue, WriterLocations
<1>2. ReaderTypeOK
  BY Zenon DEF ReaderTypeOK, Values, ReaderLocations
<1>3. SerialsInStep
  BY DEF SerialsInStep, SERIAL_DIRTY, Dirty
<1>4. ValuesInStep
  BY DEF ValuesInStep, Renewed
<1>5. BackupsInStep /\ TodoInStep
  BY Zenon DEF BackupsInStep, BackedUp, Dirty, TodoInStep
<1>6. CurrentInStep
  <2>1. ASSUME NEW a \in Areas, NEW p \in Props
        PROVE  current[a][p] = IF p \in published[a] THEN <<p, serial[a][p] \div 2>> ELSE NoValue
    <3>1. serial[a][p] \div 2 = 0
      OBVIOUS
    <3>2. current[a][p] = (IF p \in Early THEN <<p, 0>> ELSE NoValue) /\ published[a] = Early
      BY Zenon DEF NoValue
    <3>3. QED
      BY <3>1, <3>2, Zenon
  <2>2. QED
    BY <2>1, Zenon DEF CurrentInStep
<1>7. PublishedInStep /\ AreasInStep
  BY DEF PublishedInStep, AreasInStep
<1>8. ASSUME NEW r \in Readers PROVE ReaderInv(r)
  <2>1. CopiesInStep(r)
    BY Zenon DEF CopiesInStep
  <2>2. FoundFirst(r)
    BY Zenon DEF FoundFirst
  <2>3. AdditionsSeen(r) /\ WindowExact(r)
    BY DEF AdditionsSeen, WindowExact, Reading
  <2>4. QED
    BY <2>1, <2>2, <2>3, Zenon DEF ReaderInv
<1>9. QED
  BY <1>1, <1>2, <1>3, <1>4, <1>5, <1>6, <1>7, <1>8, SMTT(30) DEF Inv, TypeOK, WriterInv

(***************************************************************************)
(* Every step keeps it.                                                    *)
(***************************************************************************)
LEMMA NextInv ==
  ASSUME Inv, [Next]_vars
  PROVE  Inv'
<1>1. TypeOK /\ TypeOK' /\ WriterInv /\ WriterTypeOK
  BY WriterType, ReaderType, Zenon DEF Inv, TypeOK
<1>2. WriterInv'
  BY <1>1, NextSerials, NextValues, NextBackups, NextTodo, NextCurrent, NextPublished, NextAreas, SMTT(30)
     DEF WriterInv
<1>3. ASSUME NEW q \in Readers PROVE ReaderInv(q)'
  <2>1. ReaderInv(q) /\ area[q] \in Used
    BY Zenon DEF Inv, ReaderInv, FoundFirst
  <2>2. CASE (\E p \in Props : Update(p) \/ Add(p)) \/ WriterStep
    BY <1>1, <2>1, <2>2, WriterRely, RelyKeeps, Zenon
  <2>3. CASE UNCHANGED vars
    BY <1>1, <2>1, <2>3, QuietRely, RelyKeeps, Zenon DEF vars, reader, cache
  <2>4. ASSUME NEW r \in Readers, ReaderStep(r) \/ Interrupt(r) \/ Timeout(r), q # r
        PROVE  ReaderInv(q)'
    <3>1. q \in Readers \ {r}
      BY <2>4, Zenon
    <3>2. Rely(q)
      BY <1>1, <2>4, <3>1, OnlyOneReader, QuietRely, Zenon
    <3>3. QED
      BY <1>1, <2>1, <3>2, RelyKeeps, Zenon
  <2>5. CASE ReaderStep(q) \/ Interrupt(q) \/ Timeout(q)
    BY <1>1, <2>1, <2>5, MovesKeep, CallKeeps, CopyKeeps, CheckKeeps, GetKeeps, FindKeeps, SerialKeeps,
       Zenon, Zenon DEF ReaderStep
  <2>6. QED
    BY <2>2, <2>3, <2>4, <2>5, Zenon DEF Next
<1>4. QED
  BY <1>1, <1>2, <1>3, Zenon DEF Inv

(***************************************************************************)
(* The invariant, for every number of readers, properties and updates.     *)
(***************************************************************************)
THEOREM PropertiesInvariant == Spec => []Inv
  BY InitInv, NextInv, PTL DEF Spec

(***************************************************************************)
(* What ReadMutablePropertyValue hands to the callback, and what           *)
(* CachedProperty keeps, is whole, of the right property and belongs to    *)
(* its serial: no reader ever sees a torn value, whatever the writer does  *)
(* in between.                                                             *)
(***************************************************************************)
THEOREM TrioAlwaysConsistent == Spec => []ConsistentTrio
<1>1. Inv => ConsistentTrio
  BY Zenon DEF Inv, ReaderInv, ConsistentTrio
<1>2. QED
  BY <1>1, PropertiesInvariant, PTL

(***************************************************************************)
(* Reads are linearizable: the value returned by a read or by              *)
(* CachedProperty::Get was the property's at some time during the call,    *)
(* and the absence of a property is only reported of a call during which   *)
(* it was absent or still being added.                                     *)
(***************************************************************************)
THEOREM ReadsAlwaysCurrent == Spec => []ReadsAreCurrent
<1>1. Inv => ReadsAreCurrent
  BY Zenon DEF Inv, ReaderInv, ReadsAreCurrent
<1>2. QED
  BY <1>1, PropertiesInvariant, PTL

=============================================================================
