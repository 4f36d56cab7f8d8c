------------------------ MODULE ThreadStorageProofs ------------------------
(***************************************************************************)
(* Proofs about what a thread keeps of its own.  Thread-specific data      *)
(* (PthreadKey), for any set of threads, any number of slots and rounds,   *)
(* and keys created and deleted without bound; and the layout of static    *)
(* TLS (StaticTlsLayout), for segments of any size, alignment and skew.    *)
(***************************************************************************)
EXTENDS PthreadKey, StaticTls, Sequences, TLAPS

(***************************************************************************)
(* The slots are visited in a circle.                                      *)
(***************************************************************************)
LEMMA SlotAfter ==
  ASSUME NEW k \in Slots
  PROVE  /\ (k + 1) % KeyCount = IF k + 1 < KeyCount THEN k + 1 ELSE 0
         /\ (k + 1) % KeyCount \in Slots
         /\ 0 \in Slots
BY KeyAssumption DEF Slots

(***************************************************************************)
(* The parity of a sequence number tells whether the slot's last key is in *)
(* use.                                                                    *)
(***************************************************************************)
LEMMA InUse ==
  ASSUME TypeOK, Numbered, NEW k \in Slots
  PROVE  SeqOfKeyInUse(seq[k]) <=> seq[k] = 2 * gen[k] - 1
BY DEF TypeOK, Numbered, SeqOfKeyInUse

(***************************************************************************)
(* A process starts with the inductive invariant.                          *)
(***************************************************************************)
LEMMA InitInv == Init => Inv
<1> SUFFICES ASSUME Init PROVE Inv
  OBVIOUS
<1> USE KeyAssumption DEF Init, Null
<1>1. TypeOK
  BY DEF TypeOK, Slots, Locations
<1>2. Numbered /\ DestructorOfKey
  BY DEF Numbered, DestructorOfKey, Slots
<1>3. StoresAlone /\ CleaningOne /\ RoundSoFar
  BY DEF StoresAlone, CleaningOne, RoundSoFar, At, Slots
<1>4. QED
  BY <1>1, <1>2, <1>3, Zenon DEF Inv

-----------------------------------------------------------------------------
(***************************************************************************)
(* What going on to the next slot does to the thread's locals, one by one. *)
(***************************************************************************)
LEMMA LocalsAfter ==
  ASSUME TypeOK, NEW t \in Threads, rounds[t] > 0, NEW more \in BOOLEAN, NextSlot(t, more)
  PROVE  /\ pc' \in [Threads -> Locations] /\ i' \in [Threads -> Slots]
         /\ seen' \in [Threads -> Nat] /\ dtor' \in [Threads -> Nat]
         /\ rounds' \in [Threads -> 0 .. Iterations] /\ called' \in [Threads -> BOOLEAN]
         /\ \A u \in Threads \ {t} :
              /\ pc'[u] = pc[u] /\ i'[u] = i[u] /\ seen'[u] = seen[u] /\ dtor'[u] = dtor[u]
              /\ rounds'[u] = rounds[u] /\ called'[u] = called[u]
         /\ i[t] + 1 < KeyCount =>
              pc'[t] = "scan" /\ i'[t] = i[t] + 1 /\ called'[t] = more /\ rounds'[t] = rounds[t]
         /\ ~(i[t] + 1 < KeyCount) /\ more =>
              /\ i'[t] = 0 /\ ~called'[t]
              /\ (pc'[t] = "scan" /\ rounds'[t] > 0) \/ (pc'[t] = "exited" /\ rounds'[t] = 0)
         /\ ~(i[t] + 1 < KeyCount) /\ ~more =>
              i'[t] = 0 /\ ~called'[t] /\ pc'[t] = "exited" /\ rounds'[t] = rounds[t]
<1> USE Zenon
<1> USE KeyAssumption DEF TypeOK, NextSlot, Goto, Locations
<1>1. i[t] \in Slots
  OBVIOUS
<1>2. CASE i[t] + 1 < KeyCount
  BY <1>1, <1>2, SlotAfter DEF Null
<1>3. CASE ~(i[t] + 1 < KeyCount) /\ more
  <2>1. /\ rounds' = [rounds EXCEPT ![t] = rounds[t] - 1]
        /\ pc' = [pc EXCEPT ![t] = IF rounds[t] > 1 THEN "scan" ELSE "exited"]
        /\ called' = [called EXCEPT ![t] = FALSE]
    BY <1>3
  <2>2. rounds[t] - 1 \in 0 .. Iterations
    BY SMT
  <2>3. QED
    BY <1>1, <1>3, <2>1, <2>2, SlotAfter, SMT DEF Null
<1>4. CASE ~(i[t] + 1 < KeyCount) /\ ~more
  BY <1>1, <1>4, SlotAfter DEF Null
<1>5. QED
  BY <1>2, <1>3, <1>4

(***************************************************************************)
(* The loop of pthread_key_clean_all goes on from a slot that is clean.    *)
(***************************************************************************)
LEMMA SlotLeft ==
  ASSUME Inv, NEW t \in Threads, pc[t] \in {"scan", "load", "recheck"},
         NextSlot(t, called[t]), Clean(t, i[t]), UNCHANGED <<key_map, key_data>>
  PROVE  Inv'
<1> USE DEF Inv, key_map
<1>0. rounds[t] > 0 /\ called[t] \in BOOLEAN /\ i[t] \in Slots
  BY Zenon DEF RoundSoFar, TypeOK
<1>1. TypeOK'
  BY <1>0, LocalsAfter, Zenon DEF TypeOK
<1>2. Numbered'
  BY Zenon DEF Numbered
<1>3. StoresAlone' /\ DestructorOfKey' /\ CleaningOne'
  <2>1. /\ pc'[t] \in {"scan", "exited"}
        /\ \A u \in Threads \ {t} : pc'[u] = pc[u] /\ i'[u] = i[u] /\ seen'[u] = seen[u] /\ dtor'[u] = dtor[u]
    BY <1>0, LocalsAfter
  <2>2. StoresAlone'
    BY <2>1 DEF StoresAlone, At
  <2>3. DestructorOfKey'
    BY <2>1 DEF DestructorOfKey, Usable, At
  <2>4. CleaningOne'
    BY <2>1 DEF CleaningOne, At
  <2>5. QED
    BY <2>2, <2>3, <2>4, Zenon
<1>4. RoundSoFar'
  <2>1. \A u \in Threads, k \in Slots : Clean(u, k)' <=> Clean(u, k)
    BY Zenon DEF Clean
  <2>2. \A k \in Slots : k < i[t] + 1 <=> k < i[t] \/ k = i[t]
    BY <1>0 DEF Slots
  <2>3. \A k \in Slots : k < KeyCount /\ ~(k < 0)
    BY KeyAssumption DEF Slots
  <2>4. ~called[t] => \A k \in Slots : k < i[t] + 1 => Clean(t, k)
    BY <2>2, Zenon DEF RoundSoFar
  <2>5. ~(i[t] + 1 < KeyCount) => \A k \in Slots : k < i[t] + 1
    BY <1>0, KeyAssumption DEF Slots
  <2>6. QED
    BY <1>0, <2>1, <2>3, <2>4, <2>5, LocalsAfter DEF RoundSoFar
<1>5. QED
  BY <1>1, <1>2, <1>3, <1>4, Zenon

(***************************************************************************)
(* A slot is clean or not whatever the other threads do to it: they store  *)
(* destructors only where no value is current yet, and let the sequence    *)
(* number only grow.                                                       *)
(***************************************************************************)
LEMMA CleanKept ==
  ASSUME Inv, NEW t \in Threads, NEW k \in Slots, Clean(t, k), key_data'[t] = key_data[t],
         seq'[k] \in Nat, seq'[k] >= seq[k],
         \/ key_destructor'[k] = key_destructor[k]
         \/ \E u \in At("store") : i[u] = k
  PROVE  Clean(t, k)'
<1> USE Zenon
<1>1. key_data[t][k].seq \in Nat /\ seq[k] \in Nat /\ key_data[t][k].seq <= seq[k]
  BY DEF Inv, TypeOK, Numbered
<1>2. key_data'[t][k].seq = seq'[k] => key_data[t][k].seq = seq[k] /\ seq'[k] = seq[k]
  BY <1>1, SMT
<1>3. (\E u \in At("store") : i[u] = k) => key_data[t][k].seq # seq[k]
  BY DEF Inv, StoresAlone
<1>4. QED
  BY <1>2, <1>3 DEF Clean

DataType == [Threads -> [Slots -> [seq : Nat, data : Nat]]]

(***************************************************************************)
(* What a thread may do to its own values: leave them, clear them or set   *)
(* them for the key that is there.                                         *)
(***************************************************************************)
OwnData(t) ==
  /\ key_data' \in DataType
  /\ \A u \in Threads \ {t} : key_data'[u] = key_data[u]
  /\ \A k \in Slots :
       \/ key_data'[t][k] = key_data[t][k]
       \/ key_data'[t][k].seq = key_data[t][k].seq /\ key_data'[t][k].data = Null
       \/ key_data'[t][k].seq = seq[k] /\ key_data'[t][k].data \in {Null, gen[k]} /\ Usable(k)

(***************************************************************************)
(* Values set that way are numbered, and none is set for a key that is     *)
(* still being created.                                                    *)
(***************************************************************************)
LEMMA OwnDataKept ==
  ASSUME Inv, NEW t \in Threads, OwnData(t), UNCHANGED key_map, pc[t] # "store", pc'[t] # "store",
         \A u \in Threads \ {t} : pc'[u] = pc[u] /\ i'[u] = i[u]
  PROVE  Numbered' /\ StoresAlone' /\ DestructorOfKey'
<1> USE Zenon
<1> USE DEF Inv, key_map
<1>0. seq \in [Slots -> Nat] /\ gen \in [Slots -> Nat] /\ key_data \in DataType /\ i \in [Threads -> Slots]
  BY DEF TypeOK, DataType
<1>1. \A u \in At("store")' : u \in At("store") /\ u # t /\ i'[u] = i[u]
  BY DEF At
<1>2. \A u \in At("store") : u \in At("store")' /\ u # t /\ i'[u] = i[u] /\ ~Usable(i[u])
  BY DEF At, Usable
<1>3. Numbered'
  <2>1. \A k \in Slots : Usable(k) => seq[k] = 2 * gen[k] - 1
    BY InUse DEF Usable
  <2>2. \A k \in Slots : key_data'[t][k].seq <= seq[k] /\
          (key_data'[t][k].data # Null => key_data'[t][k].seq = 2 * key_data'[t][k].data - 1)
    <3>1. SUFFICES ASSUME NEW k \in Slots
                   PROVE  /\ key_data'[t][k].seq <= seq[k]
                          /\ key_data'[t][k].data # Null => key_data'[t][k].seq = 2 * key_data'[t][k].data - 1
      OBVIOUS
    <3>2. /\ key_data[t][k].seq <= seq[k] /\ seq[k] \in Nat
          /\ key_data[t][k].data # Null => key_data[t][k].seq = 2 * key_data[t][k].data - 1
      BY <1>0 DEF Numbered
    <3>3. QED
      BY <2>1, <3>2, SMT DEF OwnData, Null
  <2>3. QED
    BY <2>2, SMT DEF Numbered, OwnData
<1>4. StoresAlone'
  <2>1. SUFFICES ASSUME NEW u \in At("store")', NEW v \in Threads PROVE key_data'[v][i[u]].seq # seq[i[u]]
    BY <1>1, SMT DEF StoresAlone
  <2>2. u \in At("store") /\ i[u] \in Slots /\ ~Usable(i[u]) /\ key_data[v][i[u]].seq # seq[i[u]]
    BY <1>0, <1>1, <1>2 DEF StoresAlone, At
  <2>3. QED
    BY <2>2 DEF OwnData
<1>5. DestructorOfKey'
  <2>1. \A k \in Slots : Usable(k)' <=> Usable(k)
    BY <1>1, <1>2 DEF Usable
  <2>2. QED
    BY <2>1 DEF DestructorOfKey
<1>6. QED
  BY <1>3, <1>4, <1>5

(***************************************************************************)
(* Every access of pthread_key_* to the shared slots, and every step of    *)
(* pthread_key_clean_all, preserves the inductive invariant.               *)
(***************************************************************************)
LEMMA NextInv == Inv /\ [Next]_vars => Inv'
<1> USE Zenon
<1> SUFFICES ASSUME Inv, [Next]_vars PROVE Inv'
  OBVIOUS
<1>0. TypeOK /\ Numbered /\ StoresAlone /\ DestructorOfKey /\ CleaningOne /\ RoundSoFar
  BY DEF Inv
<1>i. \A k \in Slots : SeqOfKeyInUse(seq[k]) <=> seq[k] = 2 * gen[k] - 1
  BY <1>0, InUse
<1>1. ASSUME NEW t \in Threads, Create(t) PROVE Inv'
  <2> USE <1>0, <1>1 DEF Create, key_map, Goto
  <2>0. 0 \in Slots
    BY KeyAssumption, SMT DEF Slots
  <2>1. TypeOK'
    BY <2>0 DEF TypeOK, Locations
  <2>2. Numbered' /\ StoresAlone' /\ DestructorOfKey'
    BY DEF TypeOK, Numbered, StoresAlone, DestructorOfKey, Usable, At
  <2>3. CleaningOne' /\ RoundSoFar'
    BY SMT DEF TypeOK, CleaningOne, RoundSoFar, Clean, At
  <2>4. QED
    BY <2>1, <2>2, <2>3 DEF Inv
<1>2. ASSUME NEW t \in Threads, CreateAt(t) PROVE Inv'
  <2>0. i[t] \in Slots
    BY <1>0 DEF TypeOK
  <2>1. CASE SeqOfKeyInUse(seq[i[t]])
    <3>a. PICK n \in Slots, l \in {"create", "run"} :
            /\ i' = [i EXCEPT ![t] = n] /\ pc' = [pc EXCEPT ![t] = l]
            /\ l = "run" => n = 0
      BY <1>2, <2>0, <2>1, SlotAfter DEF CreateAt, Goto
    <3>b. pc[t] = "create" /\ UNCHANGED <<seq, gen, key_destructor, key_data, seen, dtor, rounds, called>>
      BY <1>2, <2>1 DEF CreateAt
    <3> USE <1>0, <3>a, <3>b
    <3>1. TypeOK'
      BY DEF TypeOK, Locations
    <3>2. Numbered' /\ StoresAlone' /\ DestructorOfKey'
      BY DEF TypeOK, Numbered, StoresAlone, DestructorOfKey, Usable, At
    <3>3. CleaningOne' /\ RoundSoFar'
      BY SMT DEF TypeOK, CleaningOne, RoundSoFar, Clean, At
    <3>4. QED
      BY <3>1, <3>2, <3>3 DEF Inv
  <2>2. CASE ~SeqOfKeyInUse(seq[i[t]])
    <3> DEFINE k == i[t]
    <3>0. /\ seq' = [seq EXCEPT ![k] = seq[k] + 1] /\ gen' = [gen EXCEPT ![k] = gen[k] + 1]
          /\ pc' = [pc EXCEPT ![t] = "store"]
          /\ UNCHANGED <<i, key_destructor, key_data, seen, dtor, rounds, called>>
          /\ pc[t] = "create" /\ seq[k] = 2 * gen[k]
      BY <1>0, <1>2, <1>i, <2>0, <2>2 DEF CreateAt, Goto, TypeOK, Numbered
    <3>1. TypeOK'
      BY <1>0, <2>0, <3>0, SMT DEF TypeOK, Locations
    <3>n. \A j \in Slots : seq'[j] \in Nat /\ seq'[j] >= seq[j]
      BY <1>0, <2>0, <3>0, SMT DEF TypeOK
    <3>2. Numbered'
      BY <1>0, <2>0, <3>0, SMT DEF TypeOK, Numbered
    <3>3. \A j \in Slots : SeqOfKeyInUse(seq[j])' <=> (SeqOfKeyInUse(seq[j]) \/ j = k)
      BY <1>0, <1>i, <2>0, <3>0, <3>1, <3>2, InUse, SMT DEF TypeOK, SeqOfKeyInUse
    <3>4. StoresAlone'
      BY <1>0, <2>0, <2>2, <3>0, <3>3, SMT DEF TypeOK, Numbered, StoresAlone, At
    <3>5. DestructorOfKey'
      BY <1>0, <2>0, <3>0, <3>3 DEF TypeOK, DestructorOfKey, Usable, At
    <3>6. CleaningOne'
      BY <1>0, <2>0, <3>0, SMT DEF TypeOK, Numbered, CleaningOne, At
    <3>7. RoundSoFar'
      <4>1. \A u \in Threads, j \in Slots : Clean(u, j) => Clean(u, j)'
        BY <1>0, <2>0, <3>0, <3>1, <3>n, CleanKept DEF TypeOK
      <4>2. QED
        BY <1>0, <2>0, <3>0, <4>1 DEF TypeOK, RoundSoFar
    <3>8. QED
      BY <3>1, <3>2, <3>4, <3>5, <3>6, <3>7 DEF Inv
  <2>3. QED
    BY <2>1, <2>2
<1>3. ASSUME NEW t \in Threads, StoreDestructor(t) PROVE Inv'
  <2> DEFINE k == i[t]
  <2>0. k \in Slots
    BY <1>0 DEF TypeOK
  <2>1. PICK d \in {Null, gen[k]} : key_destructor' = [key_destructor EXCEPT ![k] = d]
    BY <1>3 DEF StoreDestructor
  <2>2. /\ i' = [i EXCEPT ![t] = 0] /\ pc' = [pc EXCEPT ![t] = "run"] /\ pc[t] = "store"
        /\ UNCHANGED <<seq, gen, key_data, seen, dtor, rounds, called>>
    BY <1>3 DEF StoreDestructor, Goto
  <2>3. TypeOK'
    <3>1. d \in Nat /\ 0 \in Slots
      BY <1>0, <2>0, KeyAssumption, SMT DEF TypeOK, Null, Slots
    <3>2. QED
      BY <1>0, <2>0, <2>1, <2>2, <3>1 DEF TypeOK, Locations
  <2>n. /\ \A j \in Slots : seq'[j] \in Nat /\ seq'[j] >= seq[j]
        /\ t \in At("store")
        /\ \A j \in Slots \ {k} : key_destructor'[j] = key_destructor[j]
    BY <1>0, <2>0, <2>1, <2>2, SMT DEF TypeOK, At
  <2>4. Numbered' /\ StoresAlone'
    BY <1>0, <2>0, <2>2 DEF TypeOK, Numbered, StoresAlone, At
  <2>5. DestructorOfKey'
    BY <1>0, <2>0, <2>1, <2>2 DEF TypeOK, DestructorOfKey, Usable, At
  <2>6. CleaningOne'
    BY <1>0, <2>0, <2>2 DEF TypeOK, CleaningOne, At
  <2>7. RoundSoFar'
    <3>1. \A u \in Threads, j \in Slots : Clean(u, j) => Clean(u, j)'
      BY <1>0, <2>0, <2>1, <2>2, <2>3, <2>n, CleanKept DEF TypeOK, At
    <3>2. QED
      BY <1>0, <2>0, <2>2, <3>1 DEF TypeOK, RoundSoFar
  <2>8. QED
    BY <2>3, <2>4, <2>5, <2>6, <2>7 DEF Inv
<1>4. ASSUME NEW t \in Threads, NEW k \in Slots, Delete(t, k) PROVE Inv'
  <2>0. /\ seq' = [seq EXCEPT ![k] = seq[k] + 1] /\ seq[k] = 2 * gen[k] - 1
        /\ \A u \in At("store") : i[u] # k
        /\ UNCHANGED <<key_destructor, gen, key_data, pc, i, seen, dtor, rounds, called>>
    BY <1>i, <1>4 DEF Delete, Usable, locals
  <2>n. \A j \in Slots : seq'[j] \in Nat /\ seq'[j] >= seq[j]
    BY <1>0, <2>0, SMT DEF TypeOK
  <2>1. TypeOK'
    BY <1>0, <2>0, SMT DEF TypeOK
  <2>2. Numbered'
    BY <1>0, <2>0, SMT DEF TypeOK, Numbered
  <2>3. \A j \in Slots : SeqOfKeyInUse(seq[j])' <=> (SeqOfKeyInUse(seq[j]) /\ j # k)
    BY <1>0, <1>i, <2>0, <2>1, <2>2, InUse, SMT DEF TypeOK, SeqOfKeyInUse
  <2>4. StoresAlone' /\ DestructorOfKey'
    BY <1>0, <2>0, <2>3, SMTT(30) DEF TypeOK, StoresAlone, DestructorOfKey, Usable, At
  <2>5. CleaningOne'
    BY <1>0, <2>0, SMT DEF TypeOK, Numbered, CleaningOne, At
  <2>6. RoundSoFar'
    <3>1. \A u \in Threads, j \in Slots : Clean(u, j) => Clean(u, j)'
      BY <1>0, <2>0, <2>1, <2>n, CleanKept DEF TypeOK
    <3>2. QED
      BY <1>0, <2>0, <3>1 DEF TypeOK, RoundSoFar
  <2>7. QED
    BY <2>1, <2>2, <2>4, <2>5, <2>6, SMTT(30) DEF Inv
<1>5. ASSUME NEW t \in Threads, NEW k \in Slots, Set(t, k) \/ Get(t, k) PROVE Inv'
  <2>0. /\ pc[t] = "run" /\ Usable(k)
        /\ UNCHANGED <<seq, key_destructor, gen, pc, i, seen, dtor, rounds, called>>
    BY <1>5 DEF Set, Get, key_map, locals
  <2>1. OwnData(t)
    <3>0. key_data \in DataType /\ seq[k] \in Nat /\ gen[k] \in Nat
      BY <1>0 DEF TypeOK, DataType
    <3>1. CASE Set(t, k)
      <4>1. PICK v \in {Null, gen[k]} : key_data' = [key_data EXCEPT ![t][k] = [seq |-> seq[k], data |-> v]]
        BY <3>1 DEF Set, SetSpecific
      <4> DEFINE d == [seq |-> seq[k], data |-> v]
      <4>2. d \in [seq : Nat, data : Nat] /\ d.seq = seq[k] /\ d.data = v /\ key_data' = [key_data EXCEPT ![t][k] = d]
        BY <3>0, <4>1, SMT DEF Null
      <4> HIDE DEF d
      <4>3. /\ key_data' \in DataType /\ key_data'[t][k] = d
            /\ \A j \in Slots \ {k} : key_data'[t][j] = key_data[t][j]
            /\ \A u \in Threads \ {t} : key_data'[u] = key_data[u]
        BY <3>0, <4>2 DEF DataType
      <4>4. QED
        BY <2>0, <4>2, <4>3 DEF OwnData
    <3>2. CASE Get(t, k)
      <4>1. /\ key_data' \in DataType
            /\ key_data'[t][k].seq = key_data[t][k].seq /\ key_data'[t][k].data = Null
            /\ \A j \in Slots \ {k} : key_data'[t][j] = key_data[t][j]
            /\ \A u \in Threads \ {t} : key_data'[u] = key_data[u]
        <5>1. [key_data[t][k] EXCEPT !.data = Null] \in [seq : Nat, data : Nat]
          BY <3>0, SMT DEF DataType, Null
        <5>2. QED
          BY <3>0, <3>2, <5>1 DEF Get, DataType
      <4>2. QED
        BY <4>1 DEF OwnData
    <3>3. QED
      BY <1>5, <3>1, <3>2
  <2>2. TypeOK'
    BY <1>0, <2>0, <2>1 DEF TypeOK, OwnData, DataType
  <2>3. Numbered' /\ StoresAlone' /\ DestructorOfKey'
    BY <2>0, <2>1, OwnDataKept DEF key_map
  <2>4. \A u \in Threads \ {t} : key_data'[u] = key_data[u]
    BY <2>1 DEF OwnData
  <2>5. CleaningOne'
    BY <1>0, <2>0, <2>4 DEF TypeOK, CleaningOne, At
  <2>6. RoundSoFar'
    <3>1. \A u \in Threads \ {t}, j \in Slots : Clean(u, j) => Clean(u, j)'
      BY <2>0, <2>4, SMTT(30) DEF Clean
    <3>2. QED
      BY <1>0, <2>0, <3>1, SMTT(30) DEF RoundSoFar
  <2>7. QED
    BY <2>2, <2>3, <2>5, <2>6 DEF Inv
<1>6. ASSUME NEW t \in Threads, Exit(t) PROVE Inv'
  <2> USE <1>0, <1>6 DEF Exit, key_map, locals, Goto
  <2>1. TypeOK'
    BY DEF TypeOK, Locations
  <2>2. Numbered' /\ StoresAlone' /\ DestructorOfKey'
    BY SMT DEF TypeOK, Numbered, StoresAlone, DestructorOfKey, Usable, At
  <2>3. CleaningOne'
    BY DEF TypeOK, CleaningOne, At
  <2>4. RoundSoFar'
    <3>1. \A k \in Slots : ~(k < 0)
      BY KeyAssumption, SMT DEF Slots
    <3>2. QED
      BY <3>1, SMT DEF TypeOK, RoundSoFar, Clean
  <2>5. QED
    BY <2>1, <2>2, <2>3, <2>4 DEF Inv
<1>7. ASSUME NEW t \in Threads, Scan(t) PROVE Inv'
  <2> DEFINE d == key_data[t][i[t]]
  <2>0. i[t] \in Slots /\ pc[t] = "scan" /\ UNCHANGED <<key_map, key_data>>
    BY <1>0, <1>7 DEF TypeOK, Scan
  <2>1. CASE SeqOfKeyInUse(seq[i[t]]) /\ d.seq = seq[i[t]] /\ d.data # Null
    <3>0. /\ seen' = [seen EXCEPT ![t] = seq[i[t]]] /\ pc' = [pc EXCEPT ![t] = "load"]
          /\ UNCHANGED <<i, dtor, rounds, called>>
      BY <1>7, <2>1 DEF Scan, Goto
    <3> USE <1>0, <2>0, <2>1, <3>0 DEF key_map
    <3>1. TypeOK'
      BY SMTT(30) DEF TypeOK, Locations
    <3>2. Numbered' /\ StoresAlone' /\ DestructorOfKey'
      BY SMTT(30) DEF TypeOK, Numbered, StoresAlone, DestructorOfKey, Usable, At
    <3>3. CleaningOne' /\ RoundSoFar'
      BY SMTT(30) DEF TypeOK, CleaningOne, RoundSoFar, Clean, At
    <3>4. QED
      BY <3>1, <3>2, <3>3, SMTT(30) DEF Inv
  <2>2. CASE ~(SeqOfKeyInUse(seq[i[t]]) /\ d.seq = seq[i[t]] /\ d.data # Null)
    <3>1. Clean(t, i[t])
      BY <1>0, <1>i, <2>0, <2>2, SMTT(30) DEF Clean, TypeOK, Numbered, Null, SeqOfKeyInUse
    <3>2. NextSlot(t, called[t])
      BY <1>7, <2>2, SMTT(30) DEF Scan
    <3>3. QED
      BY <2>0, <3>1, <3>2, SlotLeft
  <2>3. QED
    BY <2>1, <2>2
<1>8. ASSUME NEW t \in Threads, LoadDestructor(t) PROVE Inv'
  <2>0. i[t] \in Slots /\ pc[t] = "load" /\ UNCHANGED <<key_map, key_data>>
    BY <1>0, <1>8, SMTT(30) DEF TypeOK, LoadDestructor
  <2>1. CASE key_destructor[i[t]] = Null
    <3>1. Clean(t, i[t])
      BY <2>1 DEF Clean
    <3>2. NextSlot(t, called[t])
      BY <1>8, <2>1 DEF LoadDestructor
    <3>3. QED
      BY <2>0, <3>1, <3>2, SlotLeft, SMTT(30)
  <2>2. CASE key_destructor[i[t]] # Null
    <3>0. /\ dtor' = [dtor EXCEPT ![t] = key_destructor[i[t]]] /\ pc' = [pc EXCEPT ![t] = "recheck"]
          /\ UNCHANGED <<i, seen, rounds, called>>
      BY <1>8, <2>2 DEF LoadDestructor, Goto
    <3>a. seq[i[t]] = seen[t] => key_destructor[i[t]] = key_data[t][i[t]].data
      <4>1. SUFFICES ASSUME seq[i[t]] = seen[t] PROVE key_destructor[i[t]] = key_data[t][i[t]].data
        OBVIOUS
      <4>2. key_data[t][i[t]].seq = seq[i[t]] /\ key_data[t][i[t]].data # Null
        BY <1>0, <2>0, <4>1, SMTT(30) DEF CleaningOne, At
      <4>3. seq[i[t]] = 2 * gen[i[t]] - 1 /\ key_data[t][i[t]].data = gen[i[t]]
        <5>1. /\ gen[i[t]] \in Nat /\ key_data[t][i[t]].data \in Nat
              /\ seq[i[t]] \in {2 * gen[i[t]] - 1, 2 * gen[i[t]]}
              /\ key_data[t][i[t]].seq = 2 * key_data[t][i[t]].data - 1
          BY <1>0, <2>0, <4>2 DEF TypeOK, Numbered
        <5>2. QED
          BY <4>2, <5>1, SMT
      <4>4. Usable(i[t])
        BY <1>0, <1>i, <2>0, <4>2, <4>3 DEF Usable, StoresAlone, TypeOK
      <4>5. QED
        BY <1>0, <2>0, <2>2, <4>3, <4>4 DEF DestructorOfKey
    <3> USE <1>0, <2>0, <2>2, <3>0 DEF key_map
    <3>1. TypeOK'
      BY DEF TypeOK, Locations
    <3>2. Numbered' /\ StoresAlone' /\ DestructorOfKey'
      BY SMT DEF TypeOK, Numbered, StoresAlone, DestructorOfKey, Usable, At
    <3>3. CleaningOne'
      BY <3>a DEF TypeOK, CleaningOne, At
    <3>4. RoundSoFar'
      BY SMT DEF TypeOK, RoundSoFar, Clean
    <3>5. QED
      BY <3>1, <3>2, <3>3, <3>4 DEF Inv
  <2>3. QED
    BY <2>1, <2>2
<1>9. ASSUME NEW t \in Threads, Recheck(t) PROVE Inv'
  <2>0. i[t] \in Slots /\ pc[t] = "recheck" /\ UNCHANGED <<key_map, key_data>>
    BY <1>0, <1>9 DEF TypeOK, Recheck
  <2>1. CASE seq[i[t]] # seen[t]
    <3>1. Clean(t, i[t])
      BY <1>0, <2>0, <2>1 DEF Clean, CleaningOne, At
    <3>2. NextSlot(t, called[t])
      BY <1>9, <2>1 DEF Recheck
    <3>3. QED
      BY <2>0, <3>1, <3>2, SlotLeft
  <2>2. CASE seq[i[t]] = seen[t]
    <3>0. pc' = [pc EXCEPT ![t] = "call"] /\ UNCHANGED <<i, seen, dtor, rounds, called>>
      BY <1>9, <2>2 DEF Recheck, Goto, locals
    <3> USE <1>0, <2>0, <2>2, <3>0 DEF key_map
    <3>1. TypeOK'
      BY DEF TypeOK, Locations
    <3>2. Numbered' /\ StoresAlone' /\ DestructorOfKey'
      BY SMTT(30) DEF TypeOK, Numbered, StoresAlone, DestructorOfKey, Usable, At
    <3>3. CleaningOne' /\ RoundSoFar'
      BY SMT DEF TypeOK, CleaningOne, RoundSoFar, Clean, At
    <3>5. QED
      BY <3>1, <3>2, <3>3 DEF Inv
  <2>3. QED
    BY <2>1, <2>2
<1>10. ASSUME NEW t \in Threads, Call(t) PROVE Inv'
  <2>0. /\ i[t] \in Slots /\ pc[t] = "call" /\ UNCHANGED <<seq, key_destructor, gen>>
        /\ NextSlot(t, TRUE) /\ rounds[t] > 0
    BY <1>0, <1>10 DEF TypeOK, Call, RoundSoFar, key_map
  <2>1. /\ pc'[t] \in {"scan", "exited"}
        /\ pc'[t] = "exited" => rounds'[t] = 0
        /\ pc'[t] = "scan" => rounds'[t] > 0 /\ (i'[t] = 0 \/ called'[t])
        /\ \A u \in Threads \ {t} :
              /\ pc'[u] = pc[u] /\ i'[u] = i[u] /\ seen'[u] = seen[u] /\ dtor'[u] = dtor[u]
              /\ rounds'[u] = rounds[u] /\ called'[u] = called[u]
    BY <1>0, <2>0, LocalsAfter
  <2>2. OwnData(t)
    <3> DEFINE cleared == [key_data EXCEPT ![t][i[t]].data = Null]
    <3>0. key_data \in DataType /\ \A k \in Slots : [seq |-> seq[k], data |-> gen[k]] \in [seq : Nat, data : Nat]
      BY <1>0 DEF TypeOK, DataType
    <3>1. /\ cleared \in DataType
          /\ cleared[t][i[t]].seq = key_data[t][i[t]].seq /\ cleared[t][i[t]].data = Null
          /\ \A j \in Slots \ {i[t]} : cleared[t][j] = key_data[t][j]
          /\ \A u \in Threads \ {t} : cleared[u] = key_data[u]
      <4>1. [key_data[t][i[t]] EXCEPT !.data = Null] \in [seq : Nat, data : Nat]
        BY <2>0, <3>0, SMT DEF DataType, Null
      <4>2. QED
        BY <2>0, <3>0, <4>1 DEF DataType
    <3>2. (key_data' = cleared) \/ \E k \in Slots : Usable(k) /\
             key_data' = [cleared EXCEPT ![t][k] = [seq |-> seq[k], data |-> gen[k]]]
      BY <1>10 DEF Call
    <3> HIDE DEF cleared
    <3>3. CASE key_data' = cleared
      BY <3>1, <3>3 DEF OwnData
    <3>4. ASSUME NEW k \in Slots, Usable(k),
                 key_data' = [cleared EXCEPT ![t][k] = [seq |-> seq[k], data |-> gen[k]]]
          PROVE  OwnData(t)
      <4> DEFINE d == [seq |-> seq[k], data |-> gen[k]]
      <4>1. d \in [seq : Nat, data : Nat] /\ d.seq = seq[k] /\ d.data = gen[k] /\ key_data' = [cleared EXCEPT ![t][k] = d]
        BY <3>0, <3>4
      <4> HIDE DEF d
      <4>2. /\ key_data' \in DataType /\ key_data'[t][k] = d
            /\ \A j \in Slots \ {k} : key_data'[t][j] = cleared[t][j]
            /\ \A u \in Threads \ {t} : key_data'[u] = cleared[u]
        BY <3>1, <4>1, SMTT(30) DEF DataType
      <4>3. QED
        BY <3>1, <3>4, <4>1, <4>2, SMT DEF OwnData
    <3>5. QED
      BY <3>2, <3>3, <3>4
  <2>3. TypeOK'
    BY <1>0, <2>0, <2>2, LocalsAfter, ZenonT(30) DEF TypeOK, OwnData, DataType
  <2>4. Numbered' /\ StoresAlone' /\ DestructorOfKey'
    BY <2>0, <2>1, <2>2, OwnDataKept, SMTT(30) DEF key_map
  <2>5. \A u \in Threads \ {t} : key_data'[u] = key_data[u]
    BY <2>2 DEF OwnData
  <2>6. CleaningOne'
    <3> DEFINE Sound(u) == LET d == key_data[u][i[u]]
                           IN /\ d.data # Null
                              /\ pc[u] # "call" => seen[u] = d.seq
                              /\ pc[u] = "recheck" =>
                                   dtor[u] # Null /\ (seq[i[u]] = seen[u] => dtor[u] = d.data)
                              /\ pc[u] = "call" => dtor[u] = d.data
    <3>1. ASSUME NEW u \in At("load")' \cup At("recheck")' \cup At("call")'
          PROVE  u \in Threads \ {t} /\ u \in At("load") \cup At("recheck") \cup At("call")
      BY <2>1, <3>1, SMTT(30) DEF At
    <3>2. ASSUME NEW u \in Threads \ {t} PROVE Sound(u) => Sound(u)'
      BY <2>0, <2>1, <2>5, SMTT(30)
    <3>3. \A u \in At("load") \cup At("recheck") \cup At("call") : Sound(u)
      BY <1>0 DEF CleaningOne
    <3> HIDE DEF Sound
    <3>4. \A u \in At("load")' \cup At("recheck")' \cup At("call")' : Sound(u)'
      BY <3>1, <3>2, <3>3
    <3>5. QED
      BY <3>4 DEF Sound, CleaningOne
  <2>7. RoundSoFar'
    <3>1. \A k \in Slots : ~(k < 0)
      BY KeyAssumption, SMT DEF Slots
    <3>2. \A u \in Threads \ {t}, j \in Slots : Clean(u, j) => Clean(u, j)'
      BY <2>0, <2>5, SMTT(30) DEF Clean
    <3> DEFINE Round(u) ==
          /\ pc[u] = "run" => i[u] = 0
          /\ pc[u] # "exited" => rounds[u] > 0
          /\ pc[u] \in {"run", "create", "store"} => ~called[u]
          /\ pc[u] \in {"scan", "load", "recheck", "call"} /\ ~called[u] =>
               \A k \in Slots : k < i[u] => Clean(u, k)
          /\ pc[u] = "exited" /\ rounds[u] > 0 => \A k \in Slots : Clean(u, k)
    <3>3. ASSUME NEW u \in Threads \ {t} PROVE Round(u) => Round(u)'
      BY <2>0, <2>1, <3>2, SMTT(30)
    <3>4. Round(t)'
      BY <2>1, <3>1, SMT
    <3>5. \A u \in Threads : Round(u)
      BY <1>0 DEF RoundSoFar
    <3> HIDE DEF Round
    <3>6. \A u \in Threads : Round(u)'
      BY <3>3, <3>4, <3>5
    <3>7. QED
      BY <3>6 DEF Round, RoundSoFar
  <2>8. QED
    BY <2>3, <2>4, <2>6, <2>7 DEF Inv
<1>11. CASE UNCHANGED vars
  BY <1>11
     DEF vars, key_map, locals, Inv, TypeOK, Numbered, StoresAlone, DestructorOfKey, CleaningOne,
         RoundSoFar,
         Clean, Usable, At
<1>12. QED
  BY <1>1, <1>2, <1>3, <1>4, <1>5, <1>6, <1>7, <1>8, <1>9, <1>10, <1>11 DEF Next, Cleaning

-----------------------------------------------------------------------------
(***************************************************************************)
(* The numbering of keys and values, and what a thread in                  *)
(* pthread_key_clean_all knows, hold throughout.                           *)
(***************************************************************************)
LEMMA KeyInvariant == Spec => []Inv
BY InitInv, NextInv, PTL DEF Spec

(***************************************************************************)
(* pthread_key_clean_all never calls a destructor on the value of another  *)
(* key, although it loads the destructor and the sequence number in        *)
(* separate steps between which any number of keys may be deleted and      *)
(* created.                                                                *)
(***************************************************************************)
THEOREM KeyDestructor == Spec => []RightDestructor
<1>1. Inv => RightDestructor
  BY SMTT(30) DEF Inv, CleaningOne, RightDestructor, At
<1>2. QED
  BY KeyInvariant, <1>1, PTL

(***************************************************************************)
(* pthread_getspecific never takes the value of a deleted key for one of   *)
(* the key that has its slot now.                                          *)
(***************************************************************************)
THEOREM KeyValue == Spec => []NoStaleData
<1>1. Inv => NoStaleData
  <2>1. SUFFICES ASSUME Inv, NEW t \in Threads, NEW k \in Slots, Usable(k),
                        key_data[t][k].seq = seq[k], key_data[t][k].data # Null
                 PROVE  key_data[t][k].data = gen[k]
    BY Zenon DEF NoStaleData
  <2>2. seq[k] = 2 * gen[k] - 1
    BY <2>1, InUse, Zenon DEF Inv, Usable
  <2>3. /\ gen[k] \in Nat /\ key_data[t][k].data \in Nat
        /\ key_data[t][k].seq = 2 * key_data[t][k].data - 1
    BY <2>1, SMTT(30) DEF Inv, TypeOK, Numbered
  <2>4. QED
    BY <2>1, <2>2, <2>3
<1>2. QED
  BY KeyInvariant, <1>1, PTL

(***************************************************************************)
(* A thread that ends pthread_key_clean_all before the last round has left *)
(* no value with a destructor, although other threads give slots it has    *)
(* passed new keys and new destructors.                                    *)
(***************************************************************************)
THEOREM KeyCleanup == Spec => []NothingLeftBehind
<1>1. Inv => NothingLeftBehind
  BY Zenon DEF Inv, RoundSoFar, Clean, NothingLeftBehind, At
<1>2. QED
  BY KeyInvariant, <1>1, PTL

-----------------------------------------------------------------------------
(*  The layout of static TLS (StaticTlsLayout).                            *)

(***************************************************************************)
(* Division with remainder, for the divisions of align_checked.            *)
(***************************************************************************)
LEMMA DivisionExact ==
  ASSUME NEW n \in Int, NEW a \in Nat \ {0}
  PROVE  /\ n \div a \in Int /\ n % a \in 0 .. a - 1
         /\ n = a * (n \div a) + (n % a)
OBVIOUS

(***************************************************************************)
(* Quotient and remainder are unique.                                      *)
(***************************************************************************)
LEMMA RemainderUnique ==
  ASSUME NEW a \in Nat \ {0}, NEW q \in Int, NEW p \in Int,
         NEW r \in 0 .. a - 1, NEW s \in 0 .. a - 1, a * q + r = a * p + s
  PROVE  q = p /\ r = s
<1>1. a * (q - p) = s - r
  OBVIOUS
<1>2. ~(q - p >= 1)
  <2>1. ASSUME q - p >= 1 PROVE a * (q - p) >= a
    BY <2>1
  <2>2. QED
    BY <1>1, <2>1
<1>3. ~(q - p <= -1)
  <2>1. ASSUME q - p <= -1 PROVE a * (q - p) <= -a
    BY <2>1
  <2>2. QED
    BY <1>1, <2>1
<1>4. q = p
  BY <1>2, <1>3
<1>5. QED
  BY <1>4

(***************************************************************************)
(* The remainder of a multiple plus a skew is the skew.                    *)
(***************************************************************************)
LEMMA SkewOfMultiple ==
  ASSUME NEW a \in Nat \ {0}, NEW q \in Int, NEW s \in 0 .. a - 1
  PROVE  (a * q + s) % a = s
<1> USE Zenon
<1> DEFINE n == a * q + s
<1>1. n \in Int
  BY SMT
<1>2. n \div a \in Int /\ n % a \in 0 .. a - 1 /\ n = a * (n \div a) + (n % a)
  BY <1>1, DivisionExact
<1>3. a * q + s = a * (n \div a) + (n % a)
  BY <1>2
<1> HIDE DEF n
<1>4. n % a = s
  BY <1>2, <1>3, RemainderUnique
<1>5. QED
  BY <1>4 DEF n

(***************************************************************************)
(* What is aligned to b is aligned to every a that b is a multiple of.     *)
(***************************************************************************)
LEMMA AlignedToLess ==
  ASSUME NEW a \in Nat \ {0}, NEW b \in Nat \ {0}, NEW n \in Int, n % b = 0, b % a = 0
  PROVE  n % a = 0
<1>1. PICK k \in Int : n = b * k
  <2>1. n = b * (n \div b) + 0 /\ n \div b \in Int
    BY DivisionExact, Zenon
  <2>2. QED
    BY <2>1
<1>2. PICK l \in Int : b = a * l
  <2>1. b = a * (b \div a) + 0 /\ b \div a \in Int
    BY DivisionExact
  <2>2. QED
    BY <2>1
<1> DEFINE q == l * k
<1>3. q \in Int /\ n = a * q + 0
  BY <1>1, <1>2
<1> HIDE DEF q
<1>4. (a * q + 0) % a = 0
  BY <1>3, SkewOfMultiple
<1>5. QED
  BY <1>3, <1>4, Zenon

(***************************************************************************)
(* align_checked returns the first offset from v on with the alignment and *)
(* the skew.                                                               *)
(***************************************************************************)
LEMMA AlignCheckedFirst ==
  ASSUME NEW v \in Int, NEW a \in Nat \ {0}, NEW s \in 0 .. a - 1
  PROVE  /\ Layout!align_checked(v, a, s) \in v .. v + a - 1
         /\ Layout!align_checked(v, a, s) % a = s
         /\ \E q \in Int : Layout!align_checked(v, a, s) = a * q + s
<1> DEFINE n == v - s + a - 1
           q == n \div a
<1>1. n \in Int
  OBVIOUS
<1>2. q \in Int /\ n % a \in 0 .. a - 1 /\ n = a * q + (n % a)
  BY <1>1, DivisionExact, Zenon
<1>3. Layout!align_checked(v, a, s) = q * a + s
  BY Zenon DEF Layout!align_checked
<1> HIDE DEF q
<1>4. q * a + s = a * q + s
  BY <1>2
<1>5. a * q \in Int
  BY <1>2
<1>6. a * q + s \in v .. v + a - 1
  BY <1>2, <1>5
<1>7. QED
  BY <1>2, <1>3, <1>4, <1>6, SkewOfMultiple, Zenon

(***************************************************************************)
(* And it is the only one within the next a offsets.                       *)
(***************************************************************************)
LEMMA AlignCheckedUnique ==
  ASSUME NEW v \in Int, NEW a \in Nat \ {0}, NEW s \in 0 .. a - 1, NEW q \in Int,
         a * q + s \in v .. v + a - 1
  PROVE  Layout!align_checked(v, a, s) = a * q + s
<1>1. PICK p \in Int : Layout!align_checked(v, a, s) = a * p + s
  BY AlignCheckedFirst, Zenon
<1>2. a * p + s \in v .. v + a - 1
  BY <1>1, AlignCheckedFirst
<1>3. a * (q - p) = a * q - a * p /\ a * q \in Int /\ a * p \in Int
  OBVIOUS
<1>4. a * (q - p) < a /\ a * (q - p) > -a
  BY <1>2, <1>3
<1>5. ~(q - p >= 1)
  <2>1. ASSUME q - p >= 1 PROVE a * (q - p) >= a
    BY <2>1
  <2>2. QED
    BY <1>4, <2>1
<1>6. ~(q - p <= -1)
  <2>1. ASSUME q - p <= -1 PROVE a * (q - p) <= -a
    BY <2>1
  <2>2. QED
    BY <1>4, <2>1
<1>7. q = p
  BY <1>5, <1>6
<1>8. QED
  BY <1>1, <1>7, Zenon

(***************************************************************************)
(* Offsets from an aligned thread pointer are aligned as offsets from 0.   *)
(***************************************************************************)
LEMMA AlignCheckedShifts ==
  ASSUME NEW v \in Int, NEW a \in Nat \ {0}, NEW s \in 0 .. a - 1, NEW p \in Int, p % a = 0
  PROVE  Layout!align_checked(p + v, a, s) = p + Layout!align_checked(v, a, s)
<1>1. PICK q \in Int : Layout!align_checked(v, a, s) = a * q + s
  BY AlignCheckedFirst, Zenon
<1>2. p = a * (p \div a) /\ p \div a \in Int
  BY DivisionExact
<1> DEFINE k == p \div a
<1>3. k \in Int /\ p = a * k
  BY <1>2, Zenon
<1> HIDE DEF k
<1>4. a * (k + q) + s = p + (a * q + s) /\ k + q \in Int
  BY <1>3
<1>5. a * q + s \in v .. v + a - 1
  BY <1>1, AlignCheckedFirst
<1>6. a * (k + q) + s \in p + v .. p + v + a - 1
  BY <1>4, <1>5
<1>7. Layout!align_checked(p + v, a, s) = a * (k + q) + s
  BY <1>4, <1>6, AlignCheckedUnique
<1>8. QED
  BY <1>1, <1>4, <1>7, Zenon

(***************************************************************************)
(* An aligned offset stays where it is, and a segment placed at 0 begins   *)
(* at its skew.                                                            *)
(***************************************************************************)
LEMMA AlignCheckedKeeps ==
  ASSUME NEW p \in Int, NEW a \in Nat \ {0}, NEW s \in 0 .. a - 1, p % a = 0
  PROVE  Layout!align_checked(p, a, s) = p + s
<1>1. Layout!align_checked(0, a, s) = s
  <2> USE Zenon
  <2> DEFINE z == 0
  <2>1. z \in Int /\ z = 0 /\ a * z + s = s
    BY SMT
  <2> HIDE DEF z
  <2>2. a * z + s \in z .. z + a - 1
    BY <2>1, SMT
  <2>3. Layout!align_checked(z, a, s) = a * z + s
    <3>1. z \in Int
      BY <2>1
    <3>2. QED
      BY <2>2, <3>1, AlignCheckedUnique
  <2>4. QED
    BY <2>1, <2>3
<1>2. Layout!align_checked(p + 0, a, s) = p + Layout!align_checked(0, a, s)
  BY AlignCheckedShifts
<1>3. QED
  BY <1>1, <1>2

(***************************************************************************)
(* Without a skew align_checked rounds up to the alignment.                *)
(***************************************************************************)
LEMMA AlignCheckedRoundsUp ==
  ASSUME NEW v \in Int, NEW a \in Nat \ {0}
  PROVE  /\ Layout!align_checked(v, a, 0) \in Int
         /\ Layout!align_checked(v, a, 0) >= v /\ Layout!align_checked(v, a, 0) < v + a
         /\ Layout!align_checked(v, a, 0) % a = 0
<1>1. 0 \in 0 .. a - 1
  OBVIOUS
<1>2. /\ Layout!align_checked(v, a, 0) \in v .. v + a - 1
      /\ Layout!align_checked(v, a, 0) % a = 0
  BY <1>1, AlignCheckedFirst, Zenon
<1>3. QED
  BY <1>2

(***************************************************************************)
(* std::max, of two and of three.                                          *)
(***************************************************************************)
LEMMA MaxOfTwo ==
  ASSUME NEW a \in Int, NEW b \in Int
  PROVE  Layout!Max({a, b}) = IF a >= b THEN a ELSE b
BY DEF Layout!Max

(***************************************************************************)
(* The greatest of three numbers is one of them and no less than any.      *)
(***************************************************************************)
LEMMA MaxOfThree ==
  ASSUME NEW a \in Int, NEW b \in Int, NEW c \in Int
  PROVE  /\ Layout!Max({a, b, c}) \in {a, b, c}
         /\ Layout!Max({a, b, c}) >= a /\ Layout!Max({a, b, c}) >= b /\ Layout!Max({a, b, c}) >= c
BY DEF Layout!Max

(***************************************************************************)
(* The distance of two aligned offsets is aligned, and a skew adds to it.  *)
(***************************************************************************)
LEMMA SkewAdds ==
  ASSUME NEW a \in Nat \ {0}, NEW p \in Int, NEW e \in Int, p % a = 0, e % a = 0,
         NEW s \in 0 .. a - 1
  PROVE  (s + (p - e)) % a = s
<1>1. PICK k \in Int : p = a * k
  <2>1. p = a * (p \div a) + 0 /\ p \div a \in Int
    BY DivisionExact, Zenon
  <2>2. QED
    BY <2>1
<1>2. PICK l \in Int : e = a * l
  <2>1. e = a * (e \div a) + 0 /\ e \div a \in Int
    BY DivisionExact, Zenon
  <2>2. QED
    BY <2>1
<1>3. s + (p - e) = a * (k - l) + s /\ k - l \in Int
  BY <1>1, <1>2
<1>4. QED
  BY <1>3, SkewOfMultiple, Zenon

(***************************************************************************)
(* Alignments are positive; sizes and skews are not negative.              *)
(***************************************************************************)
LEMMA AlignsPositive ==
  Sizes \subseteq Nat /\ Skews \subseteq Nat /\ Aligns \cup {Layout!Word} \subseteq Nat \ {0}
<1>1. Sizes \subseteq Nat /\ Skews \subseteq Nat /\ Aligns \subseteq Nat \ {0}
  BY LayoutAssumption, Zenon
<1>2. QED
  BY <1>1 DEF Layout!Word

(***************************************************************************)
(* Of two alignments the greater is a multiple of the other.               *)
(***************************************************************************)
LEMMA GreaterIsMultiple ==
  ASSUME NEW a \in Aligns \cup {Layout!Word, 1}, NEW b \in Aligns \cup {Layout!Word, 1}, a <= b
  PROVE  a \in Nat \ {0} /\ b \in Nat \ {0} /\ b % a = 0
<1>1. a \in Nat \ {0} /\ b \in Nat \ {0}
  BY LayoutAssumption DEF Layout!Word
<1>2. CASE a = 1
  <2>1. b = 1 * b + 0
    BY <1>1
  <2>2. b % 1 = 0
    BY <1>1, <2>1, SkewOfMultiple
  <2>3. QED
    BY <1>1, <1>2, <2>2, Zenon
<1>3. CASE a # 1
  BY <1>1, <1>3, LayoutAssumption
<1>4. QED
  BY <1>2, <1>3, Zenon

(***************************************************************************)
(* The common step of reserve_bionic_tls and reserve_solib_segment: what   *)
(* is placed next follows what there is, with its alignment.               *)
(***************************************************************************)
LEMMA ReserveKeepsSound ==
  ASSUME Layout!Inv, NEW s \in [size : Nat, align : Aligns \cup {Layout!Word}, skew : Nat],
         s.skew < s.align, step \in {"bionic_tls", "solibs"}, Layout!Reserve(s), step' = "solibs"
  PROVE  Layout!Inv'
<1> DEFINE o == Layout!ReserveAt(cursor, s)
           new == Layout!Place(s, o)
<1>1. /\ s.align \in Nat \ {0} /\ s.skew \in 0 .. s.align - 1
      /\ cursor \in Nat /\ align \in Aligns \cup {Layout!Word, 1}
      /\ placed \in Seq(Layout!Placed)
  <2>1. s.align \in Nat \ {0} /\ s.skew \in Nat
    BY AlignsPositive, Zenon
  <2>2. QED
    BY <2>1 DEF Layout!Inv, Layout!TypeOK
<1>2. o \in Nat /\ o >= cursor /\ o % s.align = s.skew
  <2>1. cursor \in Int
    BY <1>1
  <2>2. /\ Layout!align_checked(cursor, s.align, s.skew) \in cursor .. cursor + s.align - 1
        /\ Layout!align_checked(cursor, s.align, s.skew) % s.align = s.skew
    BY <1>1, <2>1, AlignCheckedFirst, Zenon
  <2>3. QED
    BY <1>1, <2>2 DEF Layout!ReserveAt
<1>3. /\ cursor' = o + s.size /\ cursor' \in Nat /\ cursor' >= cursor
      /\ placed' = Append(placed, new)
      /\ arch' = arch /\ tcb' = tcb /\ exe' = exe
  BY <1>1, <1>2 DEF Layout!Reserve, Layout!EndOf
<1>4. /\ align' \in Aligns \cup {Layout!Word, 1}
      /\ align \in Nat \ {0} /\ align' \in Nat \ {0} /\ align' % align = 0 /\ align' % s.align = 0
  <2>1. align \in Int /\ s.align \in Int
    BY <1>1, LayoutAssumption DEF Layout!Word
  <2>2. align' \in {align, s.align} /\ align' >= align /\ align' >= s.align
    BY <2>1, MaxOfTwo DEF Layout!Reserve
  <2>3. QED
    BY <1>1, <2>2, GreaterIsMultiple, Zenon
<1>5. /\ new \in Layout!Placed /\ new.offset = o /\ new.size = s.size
      /\ new.align = s.align /\ new.skew = s.skew
  BY <1>2, Zenon DEF Layout!Place, Layout!Placed
<1> HIDE DEF o, new
<1>6. /\ placed' \in Seq(Layout!Placed) /\ DOMAIN placed = 1 .. Len(placed)
      /\ DOMAIN placed' = 1 .. Len(placed) + 1 /\ Len(placed) \in Nat
      /\ placed'[Len(placed) + 1] = new
      /\ \A n \in 1 .. Len(placed) : placed'[n] = placed[n] /\ placed[n] \in Layout!Placed
  BY <1>1, <1>3, <1>5
<1>7. Layout!TypeOK'
  BY <1>3, <1>4, <1>6, Zenon DEF Layout!Inv, Layout!TypeOK
<1>8. Layout!PlacedApart'
  <2>1. SUFFICES ASSUME NEW n \in 1 .. Len(placed) + 1
                 PROVE  /\ placed'[n].offset >= 0
                        /\ placed'[n].offset % placed'[n].align = placed'[n].skew
                        /\ align' % placed'[n].align = 0
                        /\ placed'[n].offset + placed'[n].size <= cursor'
                        /\ \A m \in 1 .. n - 1 : placed'[m].offset + placed'[m].size <= placed'[n].offset
    BY <1>6, Zenon DEF Layout!PlacedApart
  <2>2. \A m \in 1 .. Len(placed) :
          /\ placed[m].offset \in Nat /\ placed[m].size \in Nat /\ placed[m].align \in Nat \ {0}
          /\ placed[m].offset % placed[m].align = placed[m].skew
          /\ align % placed[m].align = 0
          /\ placed[m].offset + placed[m].size <= cursor
          /\ \A k \in 1 .. m - 1 : placed[k].offset + placed[k].size <= placed[m].offset
    <3> USE Zenon
    <3>1. \A m \in 1 .. Len(placed) :
            /\ placed[m].offset \in Nat /\ placed[m].size \in Nat
            /\ placed[m].align \in Aligns \cup {Layout!Word}
      BY <1>6 DEF Layout!Placed
    <3>2. QED
      BY <1>6, <3>1, AlignsPositive DEF Layout!Inv, Layout!LayoutIsSound, Layout!PlacedApart
  <2>3. CASE n \in 1 .. Len(placed)
    <3>1. align' % placed[n].align = 0
      BY <1>4, <2>2, <2>3, AlignedToLess
    <3>2. \A m \in 1 .. n - 1 : m \in 1 .. Len(placed)
      BY <1>6, <2>3
    <3>3. QED
      BY <1>1, <1>3, <1>6, <2>2, <2>3, <3>1, <3>2
  <2>4. CASE n = Len(placed) + 1
    <3>1. \A m \in 1 .. n - 1 : m \in 1 .. Len(placed)
      BY <1>6, <2>4
    <3>2. placed'[n] = new
      BY <1>6, <2>4, Zenon
    <3>3. \A m \in 1 .. n - 1 : placed'[m].offset + placed'[m].size <= o
      BY <1>1, <1>2, <1>6, <2>2, <3>1
    <3>4. QED
      BY <1>2, <1>3, <1>4, <1>5, <3>2, <3>3
  <2>5. QED
    BY <1>6, <2>3, <2>4
<1>9. Layout!ExeAsLinked'
  <2> USE Zenon
  <2>1. Layout!tp' = Layout!tp
    BY <1>3 DEF Layout!tp
  <2>2. ASSUME exe >= 0 PROVE Layout!ExeAsLinked'
    <3>1. PICK n \in 1 .. Len(placed) :
            /\ placed[n].offset = exe
            /\ Layout!tp % placed[n].align = 0
            /\ arch = "arm64" =>
                 exe - Layout!tp = Layout!align_checked(2 * Layout!Word, placed[n].align, placed[n].skew)
            /\ arch = "x86_64" => Layout!tp - exe - placed[n].size \in 0 .. placed[n].align - 1
            /\ arch = "riscv64" => exe - Layout!tp = placed[n].skew
      BY <1>6, <2>2 DEF Layout!Inv, Layout!LayoutIsSound, Layout!ExeAsLinked
    <3>2. placed'[n] = placed[n] /\ n \in DOMAIN placed'
      BY <1>6, SMT
    <3>3. QED
      BY <1>3, <2>1, <3>1, <3>2 DEF Layout!ExeAsLinked
  <2>3. QED
    BY <1>3, <2>2 DEF Layout!ExeAsLinked
<1>10. QED
  BY <1>7, <1>8, <1>9, Zenon DEF Layout!Inv, Layout!LayoutIsSound

(***************************************************************************)
(* The two things placed first do not overlap.                             *)
(***************************************************************************)
LEMMA FirstTwoApart ==
  ASSUME NEW p \in Layout!Placed, NEW r \in Layout!Placed, placed' = <<p, r>>,
         p.offset % p.align = p.skew, r.offset % r.align = r.skew,
         align' % p.align = 0, align' % r.align = 0, cursor' \in Nat,
         p.offset + p.size <= r.offset, r.offset + r.size <= cursor'
  PROVE  Layout!PlacedApart'
<1>1. /\ DOMAIN placed' = 1 .. 2 /\ placed'[1] = p /\ placed'[2] = r
      /\ p.offset \in Nat /\ p.size \in Nat /\ r.offset \in Nat /\ r.size \in Nat
  BY DEF Layout!Placed
<1>2. \A n \in 1 .. 2 : \A m \in 1 .. n - 1 : n = 2 /\ m = 1
  OBVIOUS
<1>3. \A n \in 1 .. 2 :
        /\ placed'[n].offset >= 0
        /\ placed'[n].offset % placed'[n].align = placed'[n].skew
        /\ align' % placed'[n].align = 0
        /\ placed'[n].offset + placed'[n].size <= cursor'
  <2>1. SUFFICES ASSUME NEW n \in 1 .. 2
                 PROVE  /\ placed'[n].offset >= 0
                        /\ placed'[n].offset % placed'[n].align = placed'[n].skew
                        /\ align' % placed'[n].align = 0
                        /\ placed'[n].offset + placed'[n].size <= cursor'
    OBVIOUS
  <2>2. n = 1 \/ n = 2
    OBVIOUS
  <2>3. CASE n = 1
    BY <1>1, <2>3
  <2>4. CASE n = 2
    BY <1>1, <2>4
  <2>5. QED
    BY <2>2, <2>3, <2>4, Zenon
<1>4. QED
  BY <1>1, <1>2, <1>3, Zenon DEF Layout!PlacedApart

(***************************************************************************)
(* What the three forms of reserve_exe_segment_and_tcb start from.         *)
(***************************************************************************)
LEMMA ExeSegmentFacts ==
  ASSUME Layout!Inv, step = "exe", NEW s \in Layout!Segments
  PROVE  /\ cursor = 0 /\ align = 1
         /\ s = [size |-> s.size, align |-> s.align, skew |-> s.skew]
         /\ s.size \in Nat /\ s.align \in Aligns /\ s.align \in Nat \ {0} /\ s.skew \in 0 .. s.align - 1
         /\ LET m == Layout!Max({s.align, Layout!Word})
            IN m \in Aligns \cup {Layout!Word} /\ m \in Nat \ {0} /\ m % s.align = 0 /\ m % 8 = 0
         /\ Layout!ReserveAt(0, s) = s.skew
<1> USE Zenon
<1>1. /\ cursor = 0 /\ align = 1
      /\ s = [size |-> s.size, align |-> s.align, skew |-> s.skew]
      /\ s.size \in Nat /\ s.align \in Aligns /\ s.align \in Nat \ {0} /\ s.skew \in 0 .. s.align - 1
  <2>1. s \in [size : Sizes, align : Aligns, skew : Skews] /\ s.skew < s.align
    BY DEF Layout!Segments
  <2>2. s.size \in Nat /\ s.align \in Aligns /\ s.align \in Nat \ {0} /\ s.skew \in Nat
    <3>1. s.size \in Sizes /\ s.align \in Aligns /\ s.skew \in Skews
      BY <2>1
    <3>2. QED
      BY <3>1, AlignsPositive
  <2>3. cursor = 0 /\ align = 1
    BY DEF Layout!Inv
  <2>4. s = [size |-> s.size, align |-> s.align, skew |-> s.skew]
    BY <2>1
  <2>5. QED
    BY <2>1, <2>2, <2>3, <2>4, SMT
<1> DEFINE m == Layout!Max({s.align, Layout!Word})
<1>2. m \in {s.align, Layout!Word} /\ m >= s.align /\ m >= Layout!Word
  BY <1>1, MaxOfTwo, SMT DEF Layout!Word
<1> HIDE DEF m
<1>3. m % s.align = 0 /\ m % Layout!Word = 0 /\ m \in Nat \ {0}
  BY <1>1, <1>2, GreaterIsMultiple
<1>4. Layout!ReserveAt(0, s) = s.skew
  <2>1. 0 % s.align = 0
    <3>1. s.align * 0 + 0 = 0
      BY <1>1, SMT
    <3>2. QED
      BY <1>1, <3>1, SkewOfMultiple, SMT
  <2>2. Layout!align_checked(0, s.align, s.skew) = 0 + s.skew
    <3>1. 0 \in Int
      BY SMT
    <3>2. QED
      BY <1>1, <2>1, <3>1, AlignCheckedKeeps
  <2>3. QED
    BY <1>1, <2>2, SMT DEF Layout!ReserveAt
<1>5. QED
  BY <1>1, <1>2, <1>3, <1>4 DEF m, Layout!Word

(***************************************************************************)
(* align_ becomes a multiple of the alignments it is to cover.             *)
(***************************************************************************)
LEMMA MaxIsMultiple ==
  ASSUME NEW a \in Aligns \cup {Layout!Word, 1}, NEW b \in Aligns \cup {Layout!Word, 1},
         NEW c \in Aligns \cup {Layout!Word, 1}
  PROVE  LET x == Layout!Max({a, b, c})
         IN x \in Aligns \cup {Layout!Word, 1} /\ x % a = 0 /\ x % b = 0 /\ x % c = 0
<1> USE Zenon
<1> DEFINE x == Layout!Max({a, b, c})
<1>1. a \in Int /\ b \in Int /\ c \in Int
  BY LayoutAssumption, SMT DEF Layout!Word
<1>2. x \in {a, b, c} /\ x >= a /\ x >= b /\ x >= c
  BY <1>1, MaxOfThree
<1> HIDE DEF x
<1>3. x \in Aligns \cup {Layout!Word, 1} /\ x % a = 0 /\ x % b = 0 /\ x % c = 0
  BY <1>2, GreaterIsMultiple
<1>4. QED
  BY <1>3 DEF x

(***************************************************************************)
(* x86: the segment before the thread pointer, the slots after it.         *)
(***************************************************************************)
LEMMA ExeX86Sound ==
  ASSUME Layout!Inv, NEW s \in Layout!Segments, Layout!ReserveExeX86(s)
  PROVE  Layout!Inv'
<1> USE Zenon
<1> DEFINE a == s.align
           m == Layout!Max({s.align, Layout!Word})
           end == Layout!align_checked(s.skew + s.size, a, 0)
           pointer == Layout!align_checked(end, m, 0)
<1>1. /\ cursor = 0 /\ align = 1 /\ step = "exe" /\ arch = "x86_64"
      /\ s.size \in Nat /\ a \in Aligns /\ a \in Nat \ {0} /\ s.skew \in 0 .. a - 1
      /\ m \in Nat \ {0} /\ m % a = 0 /\ m % 8 = 0
      /\ Layout!ReserveAt(0, s) = s.skew
  BY ExeSegmentFacts DEF Layout!ReserveExeX86
<1>2. Layout!Tcb = [size |-> 88, align |-> 8, skew |-> 0]
  BY <1>1, SMT DEF Layout!Tcb, Layout!Slots, Layout!AlignedSize, Layout!MIN_TLS_SLOT,
     Layout!MAX_TLS_SLOT,
     Layout!Word
<1>3. end \in Int /\ end >= s.skew + s.size /\ end < s.skew + s.size + a /\ end % a = 0
  <2>1. s.skew + s.size \in Int
    BY <1>1, SMT
  <2>2. QED
    BY <1>1, <2>1, AlignCheckedRoundsUp
<1>4. pointer \in Int /\ pointer >= end /\ pointer % m = 0
  BY <1>1, <1>3, AlignCheckedRoundsUp
<1>5. pointer % a = 0 /\ pointer % 8 = 0
  BY <1>1, <1>4, AlignedToLess, SMT
<1>6. Layout!ReserveTpPair(0, s, Layout!Tcb)
        = [before |-> s.skew + (pointer - end), tp |-> pointer, after |-> pointer]
  <2>1. Layout!ReserveAt(pointer, Layout!Tcb) = pointer
    <3>1. Layout!align_checked(pointer, 8, 0) = pointer + 0
      BY <1>4, <1>5, AlignCheckedKeeps, SMT
    <3>2. QED
      BY <1>2, <1>4, <3>1, SMT DEF Layout!ReserveAt
  <2>2. Layout!EndOf(0, s) = s.skew + s.size
    BY <1>1 DEF Layout!EndOf
  <2>3. Layout!Max({s.align, Layout!Tcb.align}) = m
    BY <1>2 DEF Layout!Word
  <2>4. QED
    BY <1>1, <2>1, <2>2, <2>3 DEF Layout!ReserveTpPair
<1>7. /\ exe' = s.skew + (pointer - end) /\ tcb' = pointer /\ cursor' = pointer + 88
      /\ align' = Layout!Max({1, a, Layout!Word})
      /\ placed' = <<Layout!Place(s, exe'), Layout!Place(Layout!Tcb, tcb')>>
      /\ step' = "bionic_tls" /\ arch' = arch
  <2> DEFINE pair == Layout!ReserveTpPair(0, s, Layout!Tcb)
  <2>1. pair.before = s.skew + (pointer - end) /\ pair.after = pointer
    BY <1>6, SMT
  <2>2. Layout!Tcb.size = 88
    BY <1>2
  <2> HIDE DEF pair, pointer, end
  <2>3. exe' = pair.before /\ tcb' = pair.after /\ cursor' = tcb' + Layout!Tcb.size
    BY <1>1 DEF Layout!ReserveExeX86, pair
  <2>4. /\ align' = Layout!Max({1, a, Layout!Word})
        /\ placed' = <<Layout!Place(s, exe'), Layout!Place(Layout!Tcb, tcb')>>
        /\ step' = "bionic_tls" /\ arch' = arch
    BY <1>1 DEF Layout!ReserveExeX86
  <2>5. QED
    BY <2>1, <2>2, <2>3, <2>4
<1>8. align' \in Aligns \cup {Layout!Word, 1} /\ align' % a = 0 /\ align' % 8 = 0
  <2>1. 1 \in Aligns \cup {Layout!Word, 1} /\ a \in Aligns \cup {Layout!Word, 1}
        /\ Layout!Word \in Aligns \cup {Layout!Word, 1}
    BY <1>1
  <2>2. align' \in Aligns \cup {Layout!Word, 1} /\ align' % a = 0 /\ align' % Layout!Word = 0
    BY <1>7, <2>1, MaxIsMultiple
  <2>3. QED
    BY <2>2 DEF Layout!Word
<1> HIDE DEF end, pointer, m
<1>9. exe' \in Nat /\ tcb' \in Nat /\ cursor' \in Nat /\ exe' + s.size <= tcb'
  BY <1>1, <1>3, <1>4, <1>7, SMT
<1>10. exe' % a = s.skew
  BY <1>1, <1>3, <1>4, <1>5, <1>7, SkewAdds
<1> DEFINE p == Layout!Place(s, exe')
           r == Layout!Place(Layout!Tcb, tcb')
<1>11. /\ p = [offset |-> exe', size |-> s.size, align |-> a, skew |-> s.skew]
       /\ r = [offset |-> tcb', size |-> 88, align |-> 8, skew |-> 0]
  BY <1>2 DEF Layout!Place
<1>12. p \in Layout!Placed /\ r \in Layout!Placed /\ placed' = <<p, r>>
  BY <1>1, <1>7, <1>9, <1>11, SMT DEF Layout!Placed, Layout!Word
<1> HIDE DEF p, r
<1>13. Layout!PlacedApart'
  <2>1. /\ p.offset = exe' /\ p.size = s.size /\ p.align = a /\ p.skew = s.skew
        /\ r.offset = tcb' /\ r.size = 88 /\ r.align = 8 /\ r.skew = 0
    BY <1>11
  <2>2. tcb' % 8 = 0 /\ tcb' + 88 <= cursor'
    BY <1>4, <1>5, <1>7, SMT
  <2>3. QED
    BY <1>8, <1>9, <1>10, <1>12, <2>1, <2>2, FirstTwoApart
<1>14. Layout!TypeOK'
  BY <1>1, <1>7, <1>8, <1>9, <1>12, SMT DEF Layout!TypeOK, Layout!Archs
<1>15. Layout!ExeAsLinked'
  <2>1. Layout!tp' = pointer
    BY <1>1, <1>4, <1>7, SMT DEF Layout!tp, Layout!MIN_TLS_SLOT, Layout!Word
  <2>2. /\ 1 \in DOMAIN placed' /\ placed'[1].offset = exe' /\ placed'[1].align = a
        /\ placed'[1].size = s.size
    BY <1>11, <1>12, SMT
  <2>3. pointer - exe' - s.size \in 0 .. a - 1
    BY <1>1, <1>3, <1>4, <1>7, SMT
  <2>4. arch' = "x86_64"
    BY <1>1, <1>7
  <2>5. QED
    BY <1>5, <2>1, <2>2, <2>3, <2>4 DEF Layout!ExeAsLinked
<1>16. QED
  BY <1>7, <1>13, <1>14, <1>15 DEF Layout!Inv, Layout!LayoutIsSound

(***************************************************************************)
(* ARM: three slots before the thread pointer, eight after it, and the     *)
(* segment behind them, where align_checked on 64 places it: the same as   *)
(* on 16, or the layout is refused.                                        *)
(***************************************************************************)
LEMMA ExeArmSound ==
  ASSUME Layout!Inv, NEW s \in Layout!Segments, Layout!ReserveExeArm(s)
  PROVE  Layout!Inv'
<1> DEFINE a == s.align
           m == Layout!Max({s.align, Layout!Word})
           pre == [size |-> 24, align |-> 1, skew |-> 0]
           post == [size |-> 64, align |-> m, skew |-> 0]
           pointer == Layout!align_checked(24, m, 0)
<1>1. /\ cursor = 0 /\ align = 1 /\ step = "exe" /\ arch = "arm64"
      /\ s.size \in Nat /\ a \in Aligns /\ a \in Nat \ {0} /\ s.skew \in 0 .. a - 1
      /\ m \in Aligns \cup {Layout!Word} /\ m \in Nat \ {0} /\ m % a = 0 /\ m % 8 = 0
  BY ExeSegmentFacts, Zenon DEF Layout!ReserveExeArm
<1>2. /\ Layout!Tcb = [size |-> 88, align |-> 8, skew |-> 0]
      /\ [Layout!Slots(Layout!MIN_TLS_SLOT[arch], -1) EXCEPT !.align = 1] = pre
      /\ [Layout!Slots(0, Layout!MAX_TLS_SLOT[arch]) EXCEPT !.align = Layout!Max({Layout!Word, s.align})]
           = post
  <2> USE Zenon
  <2>1. {Layout!Word, s.align} = {s.align, Layout!Word}
    OBVIOUS
  <2>2. Layout!Max({Layout!Word, s.align}) = m
    BY <2>1
  <2>3. Layout!MIN_TLS_SLOT[arch] = -3 /\ Layout!MAX_TLS_SLOT[arch] = 7
    BY <1>1 DEF Layout!MIN_TLS_SLOT, Layout!MAX_TLS_SLOT
  <2> HIDE DEF m
  <2>4. QED
    BY <2>2, <2>3, SMT DEF Layout!Tcb, Layout!Slots, Layout!AlignedSize, Layout!Word
<1> HIDE DEF m
<1>3. pointer \in Nat /\ pointer >= 24 /\ pointer % m = 0
  <2>1. pointer \in Int /\ pointer >= 24 /\ pointer % m = 0
    <3>1. 24 \in Int
      OBVIOUS
    <3>2. QED
      BY <1>1, <3>1, AlignCheckedRoundsUp, Zenon
  <2>2. QED
    BY <2>1
<1>4. pointer % a = 0 /\ pointer % 8 = 0
  BY <1>1, <1>3, AlignedToLess
<1>5. Layout!ReserveTpPair(0, pre, post)
        = [before |-> pointer - 24, tp |-> pointer, after |-> pointer]
  <2>1. Layout!ReserveAt(0, pre) = 0 /\ Layout!EndOf(0, pre) = 24 /\ Layout!align_checked(24, 1, 0) = 24
    BY DEF Layout!ReserveAt, Layout!EndOf, Layout!align_checked
  <2>2. Layout!Max({1, m}) = m
    BY <1>1, MaxOfTwo
  <2>3. Layout!ReserveAt(pointer, post) = pointer
    <3>1. Layout!align_checked(pointer, m, 0) = pointer + 0
      BY <1>1, <1>3, AlignCheckedKeeps
    <3>2. QED
      BY <1>3, <3>1 DEF Layout!ReserveAt
  <2>4. QED
    BY <1>3, <2>1, <2>2, <2>3 DEF Layout!ReserveTpPair
<1>6. /\ tcb' = pointer - 24 /\ exe' = Layout!align_checked(pointer + 64, a, s.skew)
      /\ cursor' = exe' + s.size
      /\ align' = Layout!Max({1, m, a})
      /\ placed' = <<Layout!Place(Layout!Tcb, tcb'), Layout!Place(s, exe')>>
      /\ step' = (IF Layout!align_checked(2 * Layout!Word, a, s.skew) = Layout!align_checked(64, a, s.skew)
                  THEN "bionic_tls" ELSE "fatal")
      /\ arch' = arch
  <2> USE Zenon
  <2> DEFINE pair == Layout!ReserveTpPair(0, pre, post)
  <2>1. pair.before = pointer - 24 /\ pair.after = pointer /\ post.size = 64 /\ post.align = m
    BY <1>5, SMT
  <2> HIDE DEF pair, pointer, post, pre
  <2>2. /\ tcb' = pair.before /\ exe' = Layout!ReserveAt(pair.after + post.size, s)
        /\ cursor' = exe' + s.size
        /\ align' = Layout!Max({1, post.align, s.align})
        /\ placed' = <<Layout!Place(Layout!Tcb, tcb'), Layout!Place(s, exe')>>
        /\ step' = (IF Layout!align_checked(2 * Layout!Word, a, s.skew)
                         = Layout!align_checked(post.size, a, s.skew)
                    THEN "bionic_tls" ELSE "fatal")
        /\ arch' = arch
    BY <1>1, <1>2 DEF Layout!ReserveExeArm, pair
  <2>3. QED
    BY <2>1, <2>2 DEF Layout!ReserveAt
<1> HIDE DEF pointer
<1>7. /\ exe' = pointer + Layout!align_checked(64, a, s.skew)
      /\ exe' \in Int /\ Layout!align_checked(64, a, s.skew) \in Int
      /\ exe' >= pointer + 64 /\ exe' % a = s.skew
  <2> DEFINE v == 64
             k == s.skew
  <2>1. /\ v \in Int /\ v = 64 /\ pointer \in Int /\ pointer + v \in Int
        /\ a \in Nat \ {0} /\ k \in 0 .. a - 1 /\ pointer % a = 0
    BY <1>1, <1>3, <1>4
  <2>2. exe' = Layout!align_checked(pointer + v, a, k)
    BY <1>6, Zenon
  <2> HIDE DEF v, k, a
  <2>3. Layout!align_checked(pointer + v, a, k) = pointer + Layout!align_checked(v, a, k)
    BY <2>1, AlignCheckedShifts
  <2>4. /\ Layout!align_checked(pointer + v, a, k) \in pointer + v .. pointer + v + a - 1
        /\ Layout!align_checked(pointer + v, a, k) % a = k
    BY <2>1, AlignCheckedFirst
  <2>5. Layout!align_checked(v, a, k) \in v .. v + a - 1
    BY <2>1, AlignCheckedFirst, Zenon
  <2>6. exe' >= pointer + v
    BY <2>1, <2>2, <2>4
  <2>7. exe' \in Int /\ Layout!align_checked(v, a, k) \in Int
    BY <2>1, <2>2, <2>4, <2>5
  <2>8. QED
    BY <2>1, <2>2, <2>3, <2>4, <2>6, <2>7, Zenon DEF k, v
<1>8. align' \in Aligns \cup {Layout!Word, 1} /\ align' % a = 0 /\ align' % 8 = 0
  <2> USE Zenon
  <2>1. 1 \in Aligns \cup {Layout!Word, 1} /\ a \in Aligns \cup {Layout!Word, 1}
        /\ m \in Aligns \cup {Layout!Word, 1}
    BY <1>1
  <2>2. align' \in Aligns \cup {Layout!Word, 1} /\ align' % a = 0 /\ align' % m = 0
    BY <1>6, <2>1, MaxIsMultiple
  <2>3. align' \in Nat \ {0}
    BY <2>2, AlignsPositive, SMT
  <2>4. align' % 8 = 0
    <3>1. align' \in Int /\ m \in Nat \ {0} /\ 8 \in Nat \ {0} /\ m % 8 = 0
      BY <1>1, <2>3, SMT
    <3>2. QED
      BY <2>2, <3>1, AlignedToLess
  <2>5. QED
    BY <2>2, <2>4
<1>9. exe' \in Nat /\ tcb' \in Nat /\ cursor' \in Nat /\ tcb' + 88 <= exe' /\ tcb' % 8 = 0
  <2>1. (0 + (pointer - 24)) % 8 = 0
    BY <1>3, <1>4, SkewAdds
  <2>2. QED
    BY <1>1, <1>3, <1>6, <1>7, <2>1
<1> DEFINE p == Layout!Place(Layout!Tcb, tcb')
           r == Layout!Place(s, exe')
<1>10. /\ p = [offset |-> tcb', size |-> 88, align |-> 8, skew |-> 0]
       /\ r = [offset |-> exe', size |-> s.size, align |-> a, skew |-> s.skew]
  BY <1>2, Zenon DEF Layout!Place
<1>11. p \in Layout!Placed /\ r \in Layout!Placed /\ placed' = <<p, r>>
  BY <1>1, <1>6, <1>9, <1>10 DEF Layout!Placed, Layout!Word
<1> HIDE DEF p, r
<1>12. Layout!PlacedApart'
  <2> USE Zenon
  <2>1. /\ r.offset = exe' /\ r.size = s.size /\ r.align = a /\ r.skew = s.skew
        /\ p.offset = tcb' /\ p.size = 88 /\ p.align = 8 /\ p.skew = 0
    BY <1>10
  <2>2. exe' + s.size <= cursor'
    BY <1>6, <1>9, SMT
  <2>3. QED
    BY <1>7, <1>8, <1>9, <1>11, <2>1, <2>2, FirstTwoApart
<1>13. Layout!TypeOK'
  BY <1>1, <1>6, <1>8, <1>9, <1>11 DEF Layout!TypeOK, Layout!Archs
<1>14. Layout!ExeAsLinked'
  <2>1. Layout!tp' = pointer
    BY <1>1, <1>3, <1>6 DEF Layout!tp, Layout!MIN_TLS_SLOT, Layout!Word
  <2>2. /\ 2 \in DOMAIN placed' /\ placed'[2].offset = exe' /\ placed'[2].align = a
        /\ placed'[2].skew = s.skew
    BY <1>10, <1>11
  <2>3. step' # "fatal" => exe' - pointer = Layout!align_checked(2 * Layout!Word, a, s.skew)
    BY <1>3, <1>6, <1>7
  <2>4. arch' = "arm64"
    BY <1>1, <1>6, Zenon
  <2>5. QED
    BY <1>4, <2>1, <2>2, <2>3, <2>4, Zenon DEF Layout!ExeAsLinked
<1>15. step' \in {"bionic_tls", "fatal"}
  BY <1>6, Zenon
<1>16. QED
  BY <1>12, <1>13, <1>14, <1>15, Zenon DEF Layout!Inv, Layout!LayoutIsSound

(***************************************************************************)
(* RISC-V: the slots before the thread pointer, the segment after it.      *)
(***************************************************************************)
LEMMA ExeRiscvSound ==
  ASSUME Layout!Inv, NEW s \in Layout!Segments, Layout!ReserveExeRiscv(s)
  PROVE  Layout!Inv'
<1> DEFINE a == s.align
           m == Layout!Max({s.align, Layout!Word})
           pointer == Layout!align_checked(80, m, 0)
<1>1. /\ cursor = 0 /\ align = 1 /\ step = "exe" /\ arch = "riscv64"
      /\ s.size \in Nat /\ a \in Aligns /\ a \in Nat \ {0} /\ s.skew \in 0 .. a - 1
      /\ m \in Nat \ {0} /\ m % a = 0 /\ m % 8 = 0
  BY ExeSegmentFacts, Zenon DEF Layout!ReserveExeRiscv
<1>2. Layout!Tcb = [size |-> 80, align |-> 8, skew |-> 0]
  BY <1>1 DEF Layout!Tcb, Layout!Slots, Layout!AlignedSize, Layout!MIN_TLS_SLOT,
     Layout!MAX_TLS_SLOT,
     Layout!Word
<1>3. pointer \in Nat /\ pointer >= 80 /\ pointer % m = 0
  <2>1. pointer \in Int /\ pointer >= 80 /\ pointer % m = 0
    <3>1. 80 \in Int
      OBVIOUS
    <3>2. QED
      BY <1>1, <3>1, AlignCheckedRoundsUp, Zenon
  <2>2. QED
    BY <2>1
<1>4. pointer % a = 0 /\ pointer % 8 = 0
  BY <1>1, <1>3, AlignedToLess
<1>5. Layout!ReserveTpPair(0, Layout!Tcb, s)
        = [before |-> pointer - 80, tp |-> pointer, after |-> pointer + s.skew]
  <2> USE Zenon
  <2>1. /\ Layout!ReserveAt(0, Layout!Tcb) = 0 /\ Layout!EndOf(0, Layout!Tcb) = 80
        /\ Layout!align_checked(80, 8, 0) = 80
    BY <1>2, SMT DEF Layout!ReserveAt, Layout!EndOf, Layout!align_checked
  <2>2. Layout!Max({Layout!Tcb.align, s.align}) = m
    <3>1. {Layout!Tcb.align, s.align} = {s.align, Layout!Word}
      BY <1>2 DEF Layout!Word
    <3>2. QED
      BY <3>1
  <2>3. Layout!ReserveAt(pointer, s) = pointer + s.skew
    <3>1. a \in Nat \ {0} /\ s.skew \in 0 .. a - 1 /\ pointer \in Int
      BY <1>1, <1>3, SMT
    <3>2. QED
      BY <1>4, <3>1, AlignCheckedKeeps DEF Layout!ReserveAt
  <2>4. Layout!Tcb.align = 8
    BY <1>2
  <2> HIDE DEF m
  <2>5. QED
    BY <1>3, <2>1, <2>2, <2>3, <2>4, SMT DEF Layout!ReserveTpPair
<1>6. /\ tcb' = pointer - 80 /\ exe' = pointer + s.skew /\ cursor' = exe' + s.size
      /\ align' = Layout!Max({1, a, Layout!Word})
      /\ placed' = <<Layout!Place(Layout!Tcb, tcb'), Layout!Place(s, exe')>>
      /\ step' = "bionic_tls" /\ arch' = arch
  <2> USE Zenon
  <2> DEFINE pair == Layout!ReserveTpPair(0, Layout!Tcb, s)
  <2>1. pair.before = pointer - 80 /\ pair.after = pointer + s.skew
    BY <1>5, SMT
  <2> HIDE DEF pair, pointer
  <2>2. /\ tcb' = pair.before /\ exe' = pair.after /\ cursor' = exe' + s.size
        /\ align' = Layout!Max({1, a, Layout!Word})
        /\ placed' = <<Layout!Place(Layout!Tcb, tcb'), Layout!Place(s, exe')>>
        /\ step' = "bionic_tls" /\ arch' = arch
    BY <1>1 DEF Layout!ReserveExeRiscv, pair
  <2>3. QED
    BY <2>1, <2>2
<1>7. align' \in Aligns \cup {Layout!Word, 1} /\ align' % a = 0 /\ align' % 8 = 0
  <2> USE Zenon
  <2>1. 1 \in Aligns \cup {Layout!Word, 1} /\ a \in Aligns \cup {Layout!Word, 1}
        /\ Layout!Word \in Aligns \cup {Layout!Word, 1}
    BY <1>1
  <2>2. align' \in Aligns \cup {Layout!Word, 1} /\ align' % a = 0 /\ align' % Layout!Word = 0
    BY <1>6, <2>1, MaxIsMultiple
  <2>3. QED
    BY <2>2 DEF Layout!Word
<1> HIDE DEF pointer, m
<1>8. /\ exe' \in Nat /\ tcb' \in Nat /\ cursor' \in Nat /\ tcb' + 80 <= exe'
      /\ tcb' % 8 = 0 /\ exe' % a = s.skew
  <2>1. (0 + (pointer - 80)) % 8 = 0
    BY <1>3, <1>4, SkewAdds
  <2>2. exe' % a = s.skew
    <3>1. a \in Nat \ {0} /\ s.skew \in 0 .. a - 1 /\ pointer \in Int
      BY <1>1, <1>3
    <3> DEFINE z == 0
    <3>2. z \in Int /\ z % a = 0
      BY <3>1
    <3>3. exe' = s.skew + (pointer - z)
      BY <1>6, <3>1
    <3> HIDE DEF z
    <3>4. QED
      BY <1>4, <3>1, <3>2, <3>3, SkewAdds, Zenon
  <2>3. QED
    BY <1>1, <1>3, <1>6, <2>1, <2>2
<1> DEFINE p == Layout!Place(Layout!Tcb, tcb')
           r == Layout!Place(s, exe')
<1>9. /\ p = [offset |-> tcb', size |-> 80, align |-> 8, skew |-> 0]
      /\ r = [offset |-> exe', size |-> s.size, align |-> a, skew |-> s.skew]
  BY <1>2, Zenon DEF Layout!Place
<1>10. p \in Layout!Placed /\ r \in Layout!Placed /\ placed' = <<p, r>>
  BY <1>1, <1>6, <1>8, <1>9 DEF Layout!Placed, Layout!Word
<1> HIDE DEF p, r
<1>11. Layout!PlacedApart'
  <2> USE Zenon
  <2>1. /\ r.offset = exe' /\ r.size = s.size /\ r.align = a /\ r.skew = s.skew
        /\ p.offset = tcb' /\ p.size = 80 /\ p.align = 8 /\ p.skew = 0
    BY <1>9
  <2>2. exe' + s.size <= cursor'
    BY <1>6, <1>8, SMT
  <2>3. QED
    BY <1>7, <1>8, <1>10, <2>1, <2>2, FirstTwoApart
<1>12. Layout!TypeOK'
  BY <1>1, <1>6, <1>7, <1>8, <1>10 DEF Layout!TypeOK, Layout!Archs
<1>13. Layout!ExeAsLinked'
  <2>1. Layout!tp' = pointer
    BY <1>1, <1>3, <1>6 DEF Layout!tp, Layout!MIN_TLS_SLOT, Layout!Word
  <2>2. /\ 2 \in DOMAIN placed' /\ placed'[2].offset = exe' /\ placed'[2].align = a
        /\ placed'[2].skew = s.skew
    BY <1>9, <1>10
  <2>3. exe' - pointer = s.skew
    BY <1>1, <1>3, <1>6
  <2>4. arch' = "riscv64"
    BY <1>1, <1>6, Zenon
  <2>5. QED
    BY <1>4, <2>1, <2>2, <2>3, <2>4, Zenon DEF Layout!ExeAsLinked
<1>14. QED
  BY <1>6, <1>11, <1>12, <1>13, Zenon DEF Layout!Inv, Layout!LayoutIsSound

(***************************************************************************)
(* An executable without a TLS segment: the slots alone.                   *)
(***************************************************************************)
LEMMA TcbOnlySound ==
  ASSUME Layout!Inv, Layout!ReserveTcbOnly
  PROVE  Layout!Inv'
<1> DEFINE size == Layout!Tcb.size
<1>1. /\ cursor = 0 /\ align = 1 /\ step = "exe" /\ exe = -1 /\ arch \in Layout!Archs
      /\ Layout!Tcb.align = 8 /\ Layout!Tcb.skew = 0 /\ size \in Nat
  <2>1. Layout!MIN_TLS_SLOT[arch] \in Int /\ Layout!MAX_TLS_SLOT[arch] \in Int
        /\ Layout!MIN_TLS_SLOT[arch] <= Layout!MAX_TLS_SLOT[arch]
    BY DEF Layout!Inv, Layout!TypeOK, Layout!Archs, Layout!MIN_TLS_SLOT, Layout!MAX_TLS_SLOT
  <2>2. Layout!Tcb.align = 8 /\ Layout!Tcb.skew = 0
        /\ size = (Layout!MAX_TLS_SLOT[arch] - Layout!MIN_TLS_SLOT[arch] + 1) * 8
    BY Zenon DEF Layout!Tcb, Layout!Slots, Layout!AlignedSize, Layout!Word
  <2>3. size \in Nat
    BY <2>1, <2>2
  <2>4. QED
    BY <2>2, <2>3, Zenon DEF Layout!Inv, Layout!TypeOK, Layout!ReserveTcbOnly
<1>2. Layout!ReserveAt(0, Layout!Tcb) = 0
  BY <1>1 DEF Layout!ReserveAt, Layout!align_checked
<1>3. /\ tcb' = 0 /\ cursor' = size /\ align' = 8 /\ exe' = -1 /\ arch' = arch
      /\ step' = "bionic_tls" /\ placed' = <<Layout!Place(Layout!Tcb, 0)>>
  <2>1. Layout!Max({1, Layout!Word}) = 8
    BY MaxOfTwo DEF Layout!Word
  <2>2. Layout!EndOf(0, Layout!Tcb) = size
    BY <1>1, <1>2 DEF Layout!EndOf
  <2>3. QED
    BY <1>1, <1>2, <2>1, <2>2, Zenon DEF Layout!ReserveTcbOnly
<1> DEFINE p == Layout!Place(Layout!Tcb, 0)
<1>4. p = [offset |-> 0, size |-> size, align |-> 8, skew |-> 0]
  BY <1>1, Zenon DEF Layout!Place
<1> HIDE DEF size, p
<1>5. /\ p \in Layout!Placed /\ DOMAIN placed' = 1 .. 1 /\ placed'[1] = p
      /\ placed' \in Seq(Layout!Placed)
  <2>1. p \in Layout!Placed /\ placed' = <<p>>
    BY <1>1, <1>3, <1>4 DEF Layout!Placed, Layout!Word, p
  <2>2. QED
    BY <2>1
<1>6. Layout!PlacedApart'
  <2>1. 0 % 8 = 0 /\ 8 % 8 = 0
    OBVIOUS
  <2>2. \A n \in 1 .. 1 : placed'[n] = p /\ (\A m \in 1 .. n - 1 : FALSE)
    BY <1>5
  <2>3. p.offset = 0 /\ p.size = size /\ p.align = 8 /\ p.skew = 0
    BY <1>4, Zenon
  <2>4. QED
    BY <1>1, <1>3, <1>5, <2>1, <2>2, <2>3 DEF Layout!PlacedApart
<1>7. Layout!TypeOK' /\ Layout!ExeAsLinked'
  BY <1>1, <1>3, <1>5 DEF Layout!TypeOK, Layout!ExeAsLinked, Layout!Word
<1>8. QED
  BY <1>3, <1>6, <1>7, Zenon DEF Layout!Inv, Layout!LayoutIsSound

(***************************************************************************)
(* finish_layout only rounds the size up.                                  *)
(***************************************************************************)
LEMMA FinishLayoutSound ==
  ASSUME Layout!Inv, Layout!FinishLayout
  PROVE  Layout!Inv'
<1> USE Zenon
<1>1. /\ step = "solibs" /\ step' = "finished" /\ cursor' = Layout!align_checked(cursor, align, 0)
      /\ UNCHANGED <<arch, align, placed, tcb, exe>>
  BY DEF Layout!FinishLayout
<1>2. cursor \in Nat /\ align \in Nat \ {0}
  BY AlignsPositive, SMT DEF Layout!Inv, Layout!TypeOK
<1>3. cursor' \in Nat /\ cursor' >= cursor /\ cursor' % align = 0
  <2>1. cursor \in Int
    BY <1>2, SMT
  <2>2. cursor' % align = 0
    BY <1>1, <1>2, <2>1, AlignCheckedRoundsUp
  <2>3. cursor' \in Int /\ cursor' >= cursor
    BY <1>1, <1>2, <2>1, AlignCheckedRoundsUp
  <2>4. cursor' \in Nat
    BY <1>2, <2>3, SMT
  <2>5. QED
    BY <2>2, <2>3, <2>4
<1>4. Layout!TypeOK'
  BY <1>1, <1>3 DEF Layout!Inv, Layout!TypeOK
<1>5. Layout!PlacedApart'
  <2>1. \A n \in DOMAIN placed : placed[n].offset \in Nat /\ placed[n].size \in Nat
    <3>1. placed \in Seq(Layout!Placed)
      BY DEF Layout!Inv, Layout!TypeOK
    <3>2. \A n \in DOMAIN placed : placed[n] \in Layout!Placed
      BY <3>1, SMT
    <3>3. QED
      BY <3>2 DEF Layout!Placed
  <2>2. \A n \in DOMAIN placed : placed[n].offset + placed[n].size <= cursor'
    BY <1>2, <1>3, <2>1, SMT DEF Layout!Inv, Layout!LayoutIsSound, Layout!PlacedApart
  <2>3. QED
    BY <1>1, <2>2 DEF Layout!Inv, Layout!LayoutIsSound, Layout!PlacedApart
<1>6. Layout!ExeAsLinked'
  <2>1. Layout!tp' = Layout!tp
    BY <1>1 DEF Layout!tp
  <2>2. QED
    BY <1>1, <2>1 DEF Layout!Inv, Layout!LayoutIsSound, Layout!ExeAsLinked
<1>7. QED
  BY <1>1, <1>3, <1>4, <1>5, <1>6 DEF Layout!Inv, Layout!LayoutIsSound

(***************************************************************************)
(* Every step of the layout keeps it sound.                                *)
(***************************************************************************)
LEMMA LayoutNextInv ==
  ASSUME Layout!Inv, [Layout!Next]_(Layout!vars)
  PROVE  Layout!Inv'
<1> USE Zenon
<1>1. ASSUME NEW s \in Layout!Segments, Layout!ReserveSolibSegment(s) PROVE Layout!Inv'
  <2>1. s \in [size : Nat, align : Aligns \cup {Layout!Word}, skew : Nat] /\ s.skew < s.align
    <3>1. s \in [size : Sizes, align : Aligns, skew : Skews] /\ s.skew < s.align
      BY DEF Layout!Segments
    <3>2. Sizes \subseteq Nat /\ Skews \subseteq Nat
      BY AlignsPositive
    <3>3. QED
      BY <3>1, <3>2
  <2>2. step = "solibs" /\ step' = "solibs" /\ Layout!Reserve(s)
    BY <1>1 DEF Layout!ReserveSolibSegment
  <2>3. QED
    BY <2>1, <2>2, ReserveKeepsSound
<1>2. ASSUME Layout!ReserveBionicTls PROVE Layout!Inv'
  <2> DEFINE s == Layout!AlignedSize(Layout!BionicTlsSize, Layout!Word, 0)
  <2>1. s \in [size : Nat, align : Aligns \cup {Layout!Word}, skew : Nat] /\ s.skew < s.align
    BY SMT DEF Layout!AlignedSize, Layout!BionicTlsSize, Layout!Word
  <2>2. step = "bionic_tls" /\ step' = "solibs" /\ Layout!Reserve(s)
    BY <1>2 DEF Layout!ReserveBionicTls
  <2> HIDE DEF s
  <2>3. QED
    BY <2>1, <2>2, ReserveKeepsSound
<1>3. CASE UNCHANGED Layout!vars
  <2>1. UNCHANGED <<arch, cursor, align, placed, tcb, exe, step>>
    BY <1>3 DEF Layout!vars
  <2>2. Layout!tp' = Layout!tp
    BY <2>1 DEF Layout!tp
  <2>3. Layout!TypeOK' /\ Layout!PlacedApart' /\ Layout!ExeAsLinked'
    BY <2>1, <2>2 DEF Layout!Inv, Layout!TypeOK, Layout!LayoutIsSound, Layout!PlacedApart,
       Layout!ExeAsLinked
  <2>4. QED
    BY <2>1, <2>3 DEF Layout!Inv, Layout!LayoutIsSound
<1>4. QED
  BY <1>1, <1>2, <1>3, TcbOnlySound, FinishLayoutSound, ExeArmSound, ExeX86Sound, ExeRiscvSound
     DEF Layout!Next

(***************************************************************************)
(* StaticTlsLayout places everything apart, aligned, and the executable's  *)
(* segment where the static linker has assumed it, for all sizes, skews    *)
(* and alignments, any number of libraries, and each architecture.         *)
(***************************************************************************)
THEOREM LayoutAlwaysSound == Layout!Spec => []LayoutIsSound
<1>1. Layout!Init => Layout!Inv
  BY DEF Layout!Init, Layout!Inv, Layout!TypeOK, Layout!LayoutIsSound, Layout!PlacedApart,
     Layout!ExeAsLinked
<1>2. Layout!Inv => LayoutIsSound
  BY Zenon DEF Layout!Inv, LayoutIsSound
<1>3. QED
  BY <1>1, <1>2, LayoutNextInv, PTL DEF Layout!Spec
=============================================================================
