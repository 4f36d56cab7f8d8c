----------------------------- MODULE PthreadKey -----------------------------
(***************************************************************************)
(* Thread-specific data, libc/bionic/pthread_key.cpp: key slots that are   *)
(* created, deleted and reused without a lock while threads exit and call  *)
(* destructors.                                                            *)
(*                                                                         *)
(* A value or a destructor is represented by the number of the key it was  *)
(* made for, counted from 1 in each slot, and by 0 for a null pointer.     *)
(* Calls with an invalid key and a create that finds no free slot have no  *)
(* effect.                                                                 *)
(***************************************************************************)
EXTENDS Integers, FiniteSets

CONSTANTS
  Threads,
  KeyCount,         \* BIONIC_PTHREAD_KEY_COUNT
  Iterations,       \* PTHREAD_DESTRUCTOR_ITERATIONS
  MaxSeq            \* Bound on the sequence numbers.

ASSUME KeyAssumption ==
  /\ KeyCount \in Nat \ {0}
  /\ Iterations \in Nat \ {0}
  /\ MaxSeq \in Nat

Slots == 0 .. KeyCount - 1
Null == 0

VARIABLES
  seq,              \* key_map[i].seq
  key_destructor,   \* key_map[i].key_destructor
  gen,              \* History: how many keys slot i has had.
  key_data,         \* key_data[t][i], the thread's own seq and data
  pc,
  i,                \* The slot a thread is working on,
  seen,             \* and in pthread_key_clean_all: the seq it has loaded,
  dtor,             \* the destructor it has loaded,
  rounds,           \* the rounds left
  called            \* and called_destructor_count of this round.

key_map == <<seq, key_destructor, gen>>
locals == <<i, seen, dtor, rounds, called>>
vars == <<key_map, key_data, pc, locals>>

(***************************************************************************)
(* run      runs and may use keys;                                         *)
(* create   in create, about to look at slot i;                            *)
(* store    in create, owns slot i, about to store the destructor;         *)
(* scan     in clean_all, about to load the seq of slot i;                 *)
(* load     in clean_all, about to load the destructor of slot i;          *)
(* recheck  in clean_all, about to load the seq of slot i again;           *)
(* call     in clean_all, about to call the destructor;                    *)
(* exited   done.                                                          *)
(***************************************************************************)
Locations ==
  {"run", "create", "store", "scan", "load", "recheck", "call", "exited"}

At(l) == {t \in Threads : pc[t] = l}

Goto(t, l) == pc' = [pc EXCEPT ![t] = l]

SeqOfKeyInUse(s) == s % 2 = 1

(***************************************************************************)
(* The program knows a key once pthread_key_create has returned it, and    *)
(* does not use it after it has been deleted.                              *)
(***************************************************************************)
Usable(k) == SeqOfKeyInUse(seq[k]) /\ \A t \in At("store") : i[t] # k

Init ==
  /\ seq = [k \in Slots |-> 0]
  /\ key_destructor = [k \in Slots |-> Null]
  /\ gen = [k \in Slots |-> 0]
  /\ key_data = [t \in Threads |-> [k \in Slots |-> [seq |-> 0, data |-> Null]]]
  /\ pc = [t \in Threads |-> "run"]
  /\ i = [t \in Threads |-> 0]
  /\ seen = [t \in Threads |-> 0]
  /\ dtor = [t \in Threads |-> Null]
  /\ rounds = [t \in Threads |-> Iterations]
  /\ called = [t \in Threads |-> FALSE]

-----------------------------------------------------------------------------
(***************************************************************************)
(* The second conjunct is the bound of the model: it leaves room for all   *)
(* creates under way, with a delete between any two of them.               *)
(***************************************************************************)
Create(t) ==
  /\ pc[t] = "run"
  /\ \A k \in Slots : seq[k] + 2 * Cardinality(At("create")) < MaxSeq
  /\ i' = [i EXCEPT ![t] = 0]
  /\ Goto(t, "create")
  /\ UNCHANGED <<key_map, key_data, seen, dtor, rounds, called>>

(***************************************************************************)
(* The load and the compare-and-swap on one slot.                          *)
(***************************************************************************)
CreateAt(t) ==
  /\ pc[t] = "create"
  /\ IF SeqOfKeyInUse(seq[i[t]])
       THEN /\ i' = [i EXCEPT ![t] = (i[t] + 1) % KeyCount]
            /\ Goto(t, IF i[t] + 1 < KeyCount THEN "create" ELSE "run")
            /\ UNCHANGED <<seq, gen>>
       ELSE /\ seq' = [seq EXCEPT ![i[t]] = @ + 1]
            /\ gen' = [gen EXCEPT ![i[t]] = @ + 1]
            /\ Goto(t, "store")
            /\ UNCHANGED i
  /\ UNCHANGED <<key_destructor, key_data, seen, dtor, rounds, called>>

(***************************************************************************)
(* The key gets a destructor or none.                                      *)
(***************************************************************************)
StoreDestructor(t) ==
  /\ pc[t] = "store"
  /\ \E d \in {Null, gen[i[t]]} :
       key_destructor' = [key_destructor EXCEPT ![i[t]] = d]
  /\ i' = [i EXCEPT ![t] = 0]
  /\ Goto(t, "run")
  /\ UNCHANGED <<seq, gen, key_data, seen, dtor, rounds, called>>

(***************************************************************************)
(* A faulty variant in which the next key of the slot gets the sequence    *)
(* number of the last one.                                                 *)
(***************************************************************************)
DeleteResets(t, k) ==
  /\ pc[t] = "run"
  /\ Usable(k)
  /\ seq' = [seq EXCEPT ![k] = @ - 1]
  /\ UNCHANGED <<key_destructor, gen, key_data, pc, locals>>

Delete(t, k) ==
  /\ pc[t] = "run"
  /\ Usable(k)
  /\ seq' = [seq EXCEPT ![k] = @ + 1]
  /\ UNCHANGED <<key_destructor, gen, key_data, pc, locals>>

(***************************************************************************)
(* The thread's data after pthread_setspecific(k, value).                  *)
(***************************************************************************)
SetSpecific(t, k, value) ==
  [key_data EXCEPT ![t][k] = [seq |-> seq[k], data |-> value]]

Set(t, k) ==
  /\ pc[t] = "run"
  /\ Usable(k)
  /\ \E v \in {Null, gen[k]} : key_data' = SetSpecific(t, k, v)
  /\ UNCHANGED <<key_map, pc, locals>>

(***************************************************************************)
(* pthread_getspecific drops the value of a deleted key; it has no effect  *)
(* otherwise.                                                              *)
(***************************************************************************)
Get(t, k) ==
  /\ pc[t] = "run"
  /\ Usable(k)
  /\ key_data[t][k].seq # seq[k]
  /\ key_data' = [key_data EXCEPT ![t][k].data = Null]
  /\ UNCHANGED <<key_map, pc, locals>>

-----------------------------------------------------------------------------
(***************************************************************************)
(* pthread_exit calls pthread_key_clean_all.                               *)
(***************************************************************************)
Exit(t) ==
  /\ pc[t] = "run"
  /\ Goto(t, "scan")
  /\ UNCHANGED <<key_map, key_data, locals>>

(***************************************************************************)
(* A faulty variant that does not count the rounds.                        *)
(***************************************************************************)
NextSlotForever(t, more) ==
  /\ i' = [i EXCEPT ![t] = (i[t] + 1) % KeyCount]
  /\ seen' = [seen EXCEPT ![t] = 0]
  /\ dtor' = [dtor EXCEPT ![t] = Null]
  /\ IF i[t] + 1 < KeyCount
       THEN /\ Goto(t, "scan")
            /\ called' = [called EXCEPT ![t] = more]
            /\ UNCHANGED rounds
       ELSE /\ rounds' = [rounds EXCEPT ![t] = @]
            /\ called' = [called EXCEPT ![t] = FALSE]
            /\ Goto(t, IF more /\ rounds[t] > 1 THEN "scan" ELSE "exited")

(***************************************************************************)
(* On to the next slot, the next round or the end.  More tells whether a   *)
(* destructor has been called in this round.                               *)
(***************************************************************************)
NextSlot(t, more) ==
  /\ i' = [i EXCEPT ![t] = (i[t] + 1) % KeyCount]
  /\ seen' = [seen EXCEPT ![t] = 0]
  /\ dtor' = [dtor EXCEPT ![t] = Null]
  /\ IF i[t] + 1 < KeyCount
       THEN /\ Goto(t, "scan")
            /\ called' = [called EXCEPT ![t] = more]
            /\ UNCHANGED rounds
       ELSE /\ rounds' = [rounds EXCEPT ![t] = IF more THEN @ - 1 ELSE @]
            /\ called' = [called EXCEPT ![t] = FALSE]
            /\ Goto(t, IF more /\ rounds[t] > 1 THEN "scan" ELSE "exited")

Scan(t) ==
  /\ pc[t] = "scan"
  /\ LET d == key_data[t][i[t]] IN
       IF SeqOfKeyInUse(seq[i[t]]) /\ d.seq = seq[i[t]] /\ d.data # Null
         THEN /\ seen' = [seen EXCEPT ![t] = seq[i[t]]]
              /\ Goto(t, "load")
              /\ UNCHANGED <<i, dtor, rounds, called>>
         ELSE NextSlot(t, called[t])
  /\ UNCHANGED <<key_map, key_data>>

LoadDestructor(t) ==
  /\ pc[t] = "load"
  /\ IF key_destructor[i[t]] = Null
       THEN NextSlot(t, called[t])
       ELSE /\ dtor' = [dtor EXCEPT ![t] = key_destructor[i[t]]]
            /\ Goto(t, "recheck")
            /\ UNCHANGED <<i, seen, rounds, called>>
  /\ UNCHANGED <<key_map, key_data>>

(***************************************************************************)
(* Faulty variants: one without the second look at the sequence number,    *)
(* one that gives up the whole round when the key has changed.             *)
(***************************************************************************)
RecheckNot(t) ==
  /\ pc[t] = "recheck"
  /\ Goto(t, "call")
  /\ UNCHANGED <<key_map, key_data, locals>>

RecheckGivesUp(t) ==
  /\ pc[t] = "recheck"
  /\ IF seq[i[t]] # seen[t]
       THEN Goto(t, "exited") /\ UNCHANGED locals
       ELSE Goto(t, "call") /\ UNCHANGED locals
  /\ UNCHANGED <<key_map, key_data>>

Recheck(t) ==
  /\ pc[t] = "recheck"
  /\ IF seq[i[t]] # seen[t]
       THEN NextSlot(t, called[t])
       ELSE Goto(t, "call") /\ UNCHANGED locals
  /\ UNCHANGED <<key_map, key_data>>

(***************************************************************************)
(* The data is cleared, then the destructor runs.  It may set values.      *)
(***************************************************************************)
Call(t) ==
  /\ pc[t] = "call"
  /\ NextSlot(t, TRUE)
  /\ LET cleared == [key_data EXCEPT ![t][i[t]].data = Null] IN
       \/ key_data' = cleared
       \/ \E k \in Slots :
            /\ Usable(k)
            /\ key_data' =
                 [cleared EXCEPT ![t][k] = [seq |-> seq[k], data |-> gen[k]]]
  /\ UNCHANGED key_map

-----------------------------------------------------------------------------
Cleaning(t) == Scan(t) \/ LoadDestructor(t) \/ Recheck(t) \/ Call(t)

Done == \A t \in Threads : pc[t] = "exited"

Next ==
  \/ \E t \in Threads :
       \/ Create(t) \/ CreateAt(t) \/ StoreDestructor(t)
       \/ \E k \in Slots : Delete(t, k) \/ Set(t, k) \/ Get(t, k)
       \/ Exit(t) \/ Cleaning(t)
  \/ Done /\ UNCHANGED vars

Spec == Init /\ [][Next]_vars

(***************************************************************************)
(* An exiting thread keeps running, and its destructors return.            *)
(***************************************************************************)
FairSpec == Spec /\ \A t \in Threads : WF_vars(Cleaning(t))

-----------------------------------------------------------------------------
TypeOK ==
  /\ seq \in [Slots -> Nat]
  /\ key_destructor \in [Slots -> Nat]
  /\ gen \in [Slots -> Nat]
  /\ key_data \in [Threads -> [Slots -> [seq : Nat, data : Nat]]]
  /\ pc \in [Threads -> Locations]
  /\ i \in [Threads -> Slots]
  /\ seen \in [Threads -> Nat]
  /\ dtor \in [Threads -> Nat]
  /\ rounds \in [Threads -> 0 .. Iterations]
  /\ called \in [Threads -> BOOLEAN]

(***************************************************************************)
(* "We either see the right key_destructor, or the sequence number must    *)
(* have changed": a destructor is only called on a value that was set for  *)
(* the key it was registered with, whatever other threads delete and       *)
(* create meanwhile.                                                       *)
(***************************************************************************)
RightDestructor ==
  \A t \in At("call") : dtor[t] = key_data[t][i[t]].data /\ dtor[t] # Null

(***************************************************************************)
(* "When the key slot is deleted and reused for a new key,                 *)
(* pthread_getspecific will not return stale data": a value that passes    *)
(* for current was set for the current key.                                *)
(***************************************************************************)
NoStaleData ==
  \A t \in Threads, k \in Slots :
    Usable(k) /\ key_data[t][k].seq = seq[k] =>
      key_data[t][k].data \in {Null, gen[k]}

(***************************************************************************)
(* A thread that exits before its last round is used up leaves no value    *)
(* behind that a destructor waits for.                                     *)
(***************************************************************************)
NothingLeftBehind ==
  \A t \in At("exited"), k \in Slots :
    rounds[t] > 0 /\ Usable(k) /\ key_data[t][k].seq = seq[k]
      => key_data[t][k].data = Null \/ key_destructor[k] = Null

-----------------------------------------------------------------------------
(***************************************************************************)
(* The inductive invariant.  The sequence number of a slot tells which key *)
(* it holds, the one of a value which key it was set for, and both only    *)
(* grow.                                                                   *)
(***************************************************************************)
Numbered ==
  /\ \A k \in Slots : seq[k] \in {2 * gen[k] - 1, 2 * gen[k]}
  /\ \A t \in Threads, k \in Slots :
       LET d == key_data[t][k] IN
         /\ d.seq <= seq[k]
         /\ d.data # Null => d.seq = 2 * d.data - 1

(***************************************************************************)
(* A create that has taken a slot is alone with it: no value has been set  *)
(* for the new key, whose destructor is not there yet.                     *)
(***************************************************************************)
StoresAlone ==
  \A t \in At("store") :
    /\ SeqOfKeyInUse(seq[i[t]])
    /\ \A u \in At("store") : i[u] = i[t] => u = t
    /\ \A u \in Threads : key_data[u][i[t]].seq # seq[i[t]]

DestructorOfKey == \A k \in Slots : Usable(k) => key_destructor[k] \in {Null, gen[k]}

(***************************************************************************)
(* What pthread_key_clean_all knows of the slot it works on.               *)
(***************************************************************************)
CleaningOne ==
  \A t \in At("load") \union At("recheck") \union At("call") :
    LET d == key_data[t][i[t]] IN
      /\ d.data # Null
      /\ pc[t] # "call" => seen[t] = d.seq
      /\ pc[t] = "recheck" => dtor[t] # Null /\ (seq[i[t]] = seen[t] => dtor[t] = d.data)
      /\ pc[t] = "call" => dtor[t] = d.data

(***************************************************************************)
(* A slot with nothing to do, and what a round without a destructor call   *)
(* has established of the slots behind it.                                 *)
(***************************************************************************)
Clean(t, k) ==
  key_data[t][k].data # Null /\ key_data[t][k].seq = seq[k] => key_destructor[k] = Null

RoundSoFar ==
  \A t \in Threads :
    /\ pc[t] = "run" => i[t] = 0
    /\ pc[t] # "exited" => rounds[t] > 0
    /\ pc[t] \in {"run", "create", "store"} => ~called[t]
    /\ pc[t] \in {"scan", "load", "recheck", "call"} /\ ~called[t] =>
         \A k \in Slots : k < i[t] => Clean(t, k)
    /\ pc[t] = "exited" /\ rounds[t] > 0 => \A k \in Slots : Clean(t, k)

Inv ==
  /\ TypeOK
  /\ Numbered
  /\ StoresAlone
  /\ DestructorOfKey
  /\ CleaningOne
  /\ RoundSoFar

(***************************************************************************)
(* An exiting thread gets through its destructors, although each of them   *)
(* may set values for the next round.                                      *)
(***************************************************************************)
ExitCompletes == \A t \in Threads : []<>(pc[t] \notin {"scan", "load", "recheck", "call"})
=============================================================================
