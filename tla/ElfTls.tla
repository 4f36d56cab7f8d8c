------------------------------- MODULE ElfTls -------------------------------
(***************************************************************************)
(* Dynamic thread-local storage of libraries: the module table of          *)
(* linker/linker_tls.cpp and the per-thread vectors (DTVs) of              *)
(* libc/bionic/bionic_elf_tls.cpp.                                         *)
(*                                                                         *)
(* Registering, unregistering, the slow path and thread exit hold the      *)
(* write lock of the module table with signals blocked: one step each.     *)
(* The fast path of an access takes no lock.  A signal handler may         *)
(* interrupt it between two of its steps and access storage itself.        *)
(* Memory is reused as soon as it is free.                                 *)
(***************************************************************************)
EXTENDS Integers, FiniteSets, SequencesExt

CONSTANTS
  Threads,
  Libs,             \* Libraries with a TLS segment.
  NoLib,
  MainThread,
  MaxGeneration     \* Bound on the loads.

HeaderWords == 3    \* sizeof(TlsDtv), in words
StaticModule == 1   \* The executable's TLS segment is in static TLS.
Null == 0
Blocks == 1 .. Cardinality(Threads) * (Cardinality(Libs) + 1)
Static == Cardinality(Blocks) + 1  \* The executable's block of a thread.

VARIABLES
  signals,          \* A single thread with signal handlers, or several without?
  tlsdesc,          \* Is the code compiled for TLSDESC, or for __tls_get_addr?
  generation,       \* modules.generation,
  generation_copy,  \* and libc.so's copy of it, at first SIZE_MAX.
  table,            \* module_table: first_generation of each module, 0 if unused
  module,           \* The module index of each library, 0 when not loaded.
  dtvs,             \* The DTVs of each thread, the current one last.
  block,            \* Allocated blocks: the thread and the module's first_generation.
  frames,           \* The accesses under way in a thread.
  address,          \* History: what a thread last got for a library.
  exited

build == <<signals, tlsdesc>>
tables == <<generation, generation_copy, table, module>>
vars == <<build, tables, dtvs, block, frames, address, exited>>

SIZE_MAX == MaxGeneration + 1
Unused == <<>>
ZeroDtv == [generation |-> 0, modules |-> <<>>]
Dtv(t) == Last(dtvs[t])

Init ==
  /\ signals \in BOOLEAN
  /\ tlsdesc \in BOOLEAN
  /\ generation = 2 /\ generation_copy = SIZE_MAX
  /\ table = <<2>>
  /\ module = [l \in Libs |-> 0]
  /\ dtvs = [t \in Threads |-> <<ZeroDtv>>]
  /\ block = [b \in Blocks |-> Unused]
  /\ frames = [t \in Threads |-> <<>>]
  /\ address = [t \in Threads |-> [l \in Libs |-> Null]]
  /\ exited = IF signals THEN Threads \ {MainThread} ELSE {}

(***************************************************************************)
(* libc.so's constructor makes its copy known to the linker.               *)
(***************************************************************************)
LibcPreinit ==
  /\ generation_copy = SIZE_MAX
  /\ generation_copy' = generation
  /\ UNCHANGED <<build, generation, table, module, dtvs, block, frames, address, exited>>

-----------------------------------------------------------------------------
get_unused_module_index ==
  Min({n \in 1 .. Len(table) + 1 : n \notin DOMAIN table \/ table[n] = 0})

(***************************************************************************)
(* register_tls_module and unregister_tls_module.  The program unloads a   *)
(* library that no thread is using.                                        *)
(***************************************************************************)
RegisterTlsModule(l) ==
  /\ module[l] = 0
  /\ generation < MaxGeneration
  /\ generation' = generation + 1
  /\ generation_copy' = IF generation_copy = SIZE_MAX THEN SIZE_MAX ELSE generation'
  /\ LET n == get_unused_module_index
     IN /\ module' = [module EXCEPT ![l] = n]
        /\ table' = IF n \in DOMAIN table THEN [table EXCEPT ![n] = generation']
                    ELSE Append(table, generation')
  /\ UNCHANGED <<build, dtvs, block, frames, address, exited>>

UnregisterTlsModule(l) ==
  /\ module[l] # 0
  /\ \A t \in Threads : \A n \in DOMAIN frames[t] : frames[t][n].lib # l
  /\ table' = [table EXCEPT ![module[l]] = 0]
  /\ module' = [module EXCEPT ![l] = 0]
  /\ address' = [t \in Threads |-> [address[t] EXCEPT ![l] = Null]]
  /\ UNCHANGED <<build, generation, generation_copy, dtvs, block, frames, exited>>

-----------------------------------------------------------------------------
(***************************************************************************)
(* An access to a variable of library l, or of the executable (NoLib).  It *)
(* loads the thread's DTV, compares generations, and loads the entry.      *)
(***************************************************************************)
ModuleOf(l) == IF l = NoLib THEN StaticModule ELSE module[l]

Top(t) == Last(frames[t])

InFastPath(t, step) == frames[t] # <<>> /\ Top(t).step = step

SetTop(t, step) ==
  frames' = [frames EXCEPT ![t] = Append(Front(@), [Top(t) EXCEPT !.step = step])]

GetAddr(t, l) ==
  /\ t \notin exited
  /\ ModuleOf(l) # 0
  /\ Len(frames[t]) < IF signals THEN 2 ELSE 1
  /\ frames' = [frames EXCEPT ![t] =
                  Append(@, [lib |-> l, step |-> "compare", dtv |-> Len(dtvs[t])])]
  /\ UNCHANGED <<build, tables, dtvs, block, address, exited>>

CompareGeneration(t) ==
  /\ InFastPath(t, "compare")
  /\ LET dtv == dtvs[t][Top(t).dtv]
         current == IF tlsdesc THEN dtv.generation >= table[ModuleOf(Top(t).lib)]
                    ELSE dtv.generation = generation_copy
     IN SetTop(t, IF current THEN "entry" ELSE "slow")
  /\ UNCHANGED <<build, tables, dtvs, block, address, exited>>

(***************************************************************************)
(* The access returns the block b to the program.                          *)
(***************************************************************************)
Return(t, b) ==
  /\ frames' = [frames EXCEPT ![t] = Front(@)]
  /\ address' = IF Top(t).lib = NoLib THEN address
                ELSE [address EXCEPT ![t][Top(t).lib] = b]

LoadEntry(t) ==
  /\ InFastPath(t, "entry")
  /\ LET b == dtvs[t][Top(t).dtv].modules[ModuleOf(Top(t).lib)]
     IN IF b # Null THEN Return(t, b) ELSE SetTop(t, "slow") /\ UNCHANGED address
  /\ UNCHANGED <<build, tables, dtvs, block, exited>>

(***************************************************************************)
(* The number of entries of a new DTV: it fills a power of two in bytes.   *)
(***************************************************************************)
calculate_new_dtv_count ==
  Min({2^n : n \in 2 .. 4} \cap {w \in 4 .. 16 : w >= HeaderWords + Len(table)}) - HeaderWords

(***************************************************************************)
(* update_tls_dtv: the thread's DTVs afterwards.  A new DTV when there are *)
(* more modules than entries; then the static modules get their address    *)
(* and the entries of modules that came since the DTV's generation, or are *)
(* gone, are cleared.                                                      *)
(***************************************************************************)
ClearsKeepNew(dtv, n) ==
  n # StaticModule /\ (n > Len(table) \/ table[n] = 0)
  \* A faulty variant that keeps the entry when a module is used again.

ClearsOffByOne(dtv, n) ==
  /\ n # StaticModule
  /\ n <= Len(table) => table[n] = 0 \/ table[n] >= dtv.generation
  \* A faulty variant that takes a module of the DTV's own generation for new.

Clears(dtv, n) ==
  /\ n # StaticModule
  /\ n <= Len(table) => table[n] = 0 \/ table[n] > dtv.generation

UpdateTlsDtv(t) ==
  LET old == Dtv(t)
      grow == Len(table) > Len(old.modules)
      count == IF grow THEN calculate_new_dtv_count ELSE Len(old.modules)
      entry(n) == IF n = StaticModule THEN Static
                  ELSE IF n > Len(old.modules) \/ Clears(old, n) THEN Null
                  ELSE old.modules[n]
      new == [generation |-> generation, modules |-> [n \in 1 .. count |-> entry(n)]]
  IN IF old.generation = generation THEN dtvs[t]
     ELSE IF grow THEN Append(dtvs[t], new)
     ELSE Append(Front(dtvs[t]), new)

Freed(t) == ToSet(Dtv(t).modules) \ ToSet(Last(UpdateTlsDtv(t)).modules)

(***************************************************************************)
(* tls_get_addr_slow_path: update the DTV, allocate the block if there is  *)
(* none.                                                                   *)
(***************************************************************************)
SlowPath(t) ==
  /\ InFastPath(t, "slow")
  /\ LET n == ModuleOf(Top(t).lib)
         updated == UpdateTlsDtv(t)
         left == [b \in Blocks |-> IF b \in Freed(t) THEN Unused ELSE block[b]]
         new == Min({b \in Blocks : left[b] = Unused})
         b == Last(updated).modules[n]
     IN IF b # Null
        THEN /\ dtvs' = [dtvs EXCEPT ![t] = updated]
             /\ block' = left
             /\ Return(t, b)
        ELSE /\ dtvs' = [dtvs EXCEPT ![t] = Append(Front(updated),
                           [Last(updated) EXCEPT !.modules[n] = new])]
             /\ block' = [left EXCEPT ![new] = <<t, table[n]>>]
             /\ Return(t, new)
  /\ UNCHANGED <<build, tables, exited>>

(***************************************************************************)
(* __free_dynamic_tls of an exiting thread.                                *)
(***************************************************************************)
FreeDynamicTlsLoaded(t) ==
  /\ t \notin exited
  /\ frames[t] = <<>>
  /\ LET kept == {n \in DOMAIN Dtv(t).modules : n > Len(table) \/ table[n] = 0}
         freed == {Dtv(t).modules[n] : n \in DOMAIN Dtv(t).modules \ kept}
     IN block' = [b \in Blocks |-> IF b \in freed THEN Unused ELSE block[b]]
  /\ dtvs' = [dtvs EXCEPT ![t] = <<ZeroDtv>>]
  /\ address' = [address EXCEPT ![t] = [l \in Libs |-> Null]]
  /\ exited' = exited \cup {t}
  /\ UNCHANGED <<build, tables, frames>>
  \* A faulty variant that only frees the blocks of modules that are loaded.

FreeDynamicTls(t) ==
  /\ t \notin exited
  /\ frames[t] = <<>>
  /\ block' = [b \in Blocks |-> IF b \in ToSet(Dtv(t).modules) THEN Unused ELSE block[b]]
  /\ dtvs' = [dtvs EXCEPT ![t] = <<ZeroDtv>>]
  /\ address' = [address EXCEPT ![t] = [l \in Libs |-> Null]]
  /\ exited' = exited \cup {t}
  /\ UNCHANGED <<build, tables, frames>>

Next ==
  \/ LibcPreinit
  \/ \E l \in Libs : RegisterTlsModule(l) \/ UnregisterTlsModule(l)
  \/ \E t \in Threads, l \in Libs \cup {NoLib} : GetAddr(t, l)
  \/ \E t \in Threads :
       CompareGeneration(t) \/ LoadEntry(t) \/ SlowPath(t) \/ FreeDynamicTls(t)

Spec == Init /\ [][Next]_vars

-----------------------------------------------------------------------------
TypeOK ==
  /\ table \in Seq(0 .. generation)
  /\ module \in [Libs -> 0 .. Len(table)]
  /\ block \in [Blocks -> {Unused} \cup (Threads \X (1 .. generation))]
  /\ address \in [Threads -> [Libs -> {Null} \cup Blocks]]

(***************************************************************************)
(* What a thread got for a loaded library is its own, allocated for this   *)
(* load of the library, and still allocated: no slow path of a later       *)
(* access, no thread exit and no library that came or went since has freed *)
(* it or given it to somebody else.                                        *)
(***************************************************************************)
AddressStaysValid ==
  \A t \in Threads, l \in Libs :
    address[t][l] # Null => block[address[t][l]] = <<t, table[module[l]]>>

(***************************************************************************)
(* A variable stays where it is: while a library is loaded, every access   *)
(* of a thread to it returns the same block, also when a signal handler    *)
(* grew the DTV in the middle of one.                                      *)
(***************************************************************************)
AddressIsStable ==
  [][\A t \in Threads, l \in Libs :
       address[t][l] # Null /\ module'[l] # 0 /\ t \notin exited' => address'[t][l] = address[t][l]]_vars

(***************************************************************************)
(* No block leaks: each is in the current DTV of a running thread, where   *)
(* the next update or the thread's exit finds it, although unloading a     *)
(* library does not look at the threads' DTVs.                             *)
(***************************************************************************)
BlocksAreReachable ==
  \A b \in Blocks :
    block[b] # Unused =>
      /\ block[b][1] \notin exited
      /\ b \in ToSet(Dtv(block[b][1]).modules)

=============================================================================
