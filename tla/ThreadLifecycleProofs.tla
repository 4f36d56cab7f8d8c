------------------------ MODULE ThreadLifecycleProofs ------------------------
(***************************************************************************)
(* Proofs about ThreadLifecycle, for any number of threads and of calls: a *)
(* thread's memory is unmapped exactly once and not while anybody can      *)
(* still touch it, and android_run_on_all_threads reaches every thread.    *)
(***************************************************************************)
EXTENDS ThreadLifecycle, TLAPS

(***************************************************************************)
(* The two outcomes of clone.                                              *)
(***************************************************************************)
Cloned(t) ==
  /\ pc[t] = "clone"
  /\ pc' = [pc EXCEPT ![t] = "init", ![arg[t]] = "start"]
  /\ tid' = Set(tid, arg[t], TRUE)
  /\ masked' = Set(masked, arg[t], TRUE)
  /\ UNCHANGED <<arg, mem, handshake, list, handle, join_state, old_state, idle_routine, cleartid,
                 terminating, runVars, mteVars>>

CloneFails(t) ==
  /\ pc[t] = "clone"
  /\ Goto(t, "user")
  /\ arg' = Set(arg, t, None)
  /\ handshake' = Set(handshake, arg[t], FALSE)
  /\ mem' = Set(mem, arg[t], "unmapped")
  /\ UNCHANGED <<tid, masked, list, handle, join_state, old_state, idle_routine, cleartid,
                 terminating, runVars, mteVars>>

(***************************************************************************)
(* There are no others.                                                    *)
(***************************************************************************)
LEMMA CloneCases ==
  ASSUME NEW t \in Threads, Clone(t)
  PROVE  Cloned(t) \/ CloneFails(t)
  BY Zenon DEF Clone, Cloned, CloneFails

(***************************************************************************)
(* A thread whose own life goes on: it runs the program or one of the      *)
(* calls that do not end it.                                               *)
(***************************************************************************)
Busy == UsesArg \union RunnerHolds \union {"user", "created", "run"}

(***************************************************************************)
(* What the invariant says of c stays true when a step does not touch c:   *)
(* neither its fields nor its stage change, and the calls on it stay.      *)
(***************************************************************************)
SameLife(c) ==
  /\ mem'[c] = mem[c] /\ handshake'[c] = handshake[c]
  /\ join_state'[c] = join_state[c] /\ old_state'[c] = old_state[c] /\ tid'[c] = tid[c]
  /\ cleartid'[c] = cleartid[c] /\ terminating'[c] = terminating[c]
  /\ c \in list' <=> c \in list

SameFields(c) == handle'[c] = handle[c] /\ SameLife(c)

SameStage(c) == pc'[c] = pc[c] \/ (pc[c] \in Busy /\ pc'[c] \in Busy)

SameCall(t) ==
  \/ pc'[t] = pc[t]
  \/ pc[t] \in {"create", "clone"} /\ pc'[t] \in {"create", "clone"}
  \/ pc[t] \in {"wait", "asleep"} /\ pc'[t] \in {"wait", "asleep"}
  \/ pc[t] \in Using \ Claimed /\ pc'[t] \in Using \ Claimed

SameCalls(c) ==
  \A t \in Threads :
    /\ arg'[t] = c <=> arg[t] = c
    /\ arg[t] = c => SameCall(t)

(***************************************************************************)
(* The calls on c then create it or use it as before.                      *)
(***************************************************************************)
LEMMA CallsKept ==
  ASSUME NEW c \in Threads, SameCalls(c), NEW t \in Threads
  PROVE  /\ Creates(t, c)' <=> Creates(t, c)
         /\ Uses(t, c)' <=> Uses(t, c)
         /\ arg'[t] = c <=> arg[t] = c
         /\ Creates(t, c) \/ Uses(t, c) =>
              /\ pc'[t] \in {"create", "clone"} <=> pc[t] \in {"create", "clone"}
              /\ pc'[t] = "release" <=> pc[t] = "release"
              /\ pc'[t] \in Claimed <=> pc[t] \in Claimed
              /\ pc'[t] \in {"reap", "free"} <=> pc[t] \in {"reap", "free"}
              /\ pc'[t] = "free" <=> pc[t] = "free"
<1>1. arg'[t] = c <=> arg[t] = c
  BY Zenon DEF SameCalls
<1>2. CASE arg[t] = c
  <2>1. SameCall(t)
    BY <1>2, Zenon DEF SameCalls
  <2>2. QED
    BY <1>1, <1>2, <2>1, Zenon DEF SameCall, Creates, Uses, Creating, Using, Claimed
<1>3. CASE arg[t] # c
  BY <1>1, <1>3, Zenon DEF Creates, Uses
<1>4. QED
  BY <1>2, <1>3, Zenon

(***************************************************************************)
(* A busy thread is at none of the places the stages tell apart.           *)
(***************************************************************************)
LEMMA BusyStages ==
  ASSUME NEW l \in Busy
  PROVE  /\ l \notin {"none", "start", "unmask", "exit", "die", "dead", "untid", "remove", "unmap"}
         /\ l \notin Ended
  BY Zenon DEF Busy, UsesArg, CreatorHolds, RunnerHolds, Ended

(***************************************************************************)
(* A thread's stage depends on its fields and on how far it is.            *)
(***************************************************************************)
LEMMA StageKept ==
  ASSUME NEW c \in Threads, StageInStep(c), SameLife(c), SameStage(c),
         pc[c] = "none" => handle'[c] = handle[c]
  PROVE  StageInStep(c)'
<1>1. CASE pc'[c] = pc[c]
  BY <1>1, Zenon DEF SameLife, StageInStep, Unborn, Alive, Leaving
<1>2. CASE pc[c] \in Busy /\ pc'[c] \in Busy
  <2>1. /\ pc[c] \notin {"none", "start", "unmask", "exit", "die", "dead", "untid", "remove", "unmap"}
        /\ pc[c] \notin Ended
        /\ pc'[c] \notin {"none", "start", "unmask", "exit", "die", "dead", "untid", "remove", "unmap"}
        /\ pc'[c] \notin Ended
    BY <1>2, BusyStages, Zenon
  <2>2. QED
    BY <2>1, Zenon DEF SameLife, StageInStep, Unborn, Alive, Leaving
<1>3. QED
  BY <1>1, <1>2, Zenon DEF SameStage

(***************************************************************************)
(* What a step does elsewhere, to other threads and to calls on them,      *)
(* leaves the invariant of a thread alone.                                 *)
(***************************************************************************)
LEMMA Elsewhere ==
  ASSUME NEW c \in Threads, ThreadInv(c), SameFields(c), SameStage(c), SameCalls(c)
  PROVE  ThreadInv(c)'
<1>1. OneCall(c)'
  BY CallsKept, Zenon DEF ThreadInv, OneCall
<1>s. /\ pc'[c] = "none" <=> pc[c] = "none"
      /\ pc'[c] = "start" <=> pc[c] = "start"
      /\ pc'[c] = "dead" <=> pc[c] = "dead"
      /\ pc'[c] = "die" <=> pc[c] = "die"
  BY BusyStages, Zenon DEF SameStage
<1>2. CreationInStep(c)'
  <2> SUFFICES ASSUME NEW t \in Threads, Creates(t, c)'
               PROVE  /\ handshake'[c] /\ mem'[c] = "mapped"
                      /\ pc'[c] = IF pc'[t] \in {"create", "clone"} THEN "none" ELSE "start"
                      /\ c \in list' <=> pc'[t] = "release"
                      /\ pc'[t] # "release" => handle'[c] = "none"
    BY Zenon DEF CreationInStep
  <2>1. /\ Creates(t, c)
        /\ pc'[t] \in {"create", "clone"} <=> pc[t] \in {"create", "clone"}
        /\ pc'[t] = "release" <=> pc[t] = "release"
    BY CallsKept, Zenon
  <2>2. /\ handshake[c] /\ mem[c] = "mapped"
        /\ pc[c] = IF pc[t] \in {"create", "clone"} THEN "none" ELSE "start"
        /\ c \in list <=> pc[t] = "release"
        /\ pc[t] # "release" => handle[c] = "none"
    BY <2>1, Zenon DEF ThreadInv, CreationInStep
  <2>3. QED
    BY <1>s, <2>1, <2>2, Zenon DEF SameFields, SameLife
<1>3. UseInStep(c)'
  <2> SUFFICES ASSUME NEW t \in Threads, Uses(t, c)'
               PROVE  /\ handle'[c] = "used" /\ mem'[c] = "mapped" /\ pc'[c] # "none"
                      /\ join_state'[c] # "DETACHED"
                      /\ pc'[t] \in Claimed <=> join_state'[c] = "JOINED"
                      /\ pc'[t] \in {"reap", "free"} => pc'[c] = "dead"
                      /\ c \in list' <=> pc'[t] # "free"
    BY Zenon DEF UseInStep
  <2>1. /\ Uses(t, c)
        /\ pc'[t] \in Claimed <=> pc[t] \in Claimed
        /\ pc'[t] \in {"reap", "free"} <=> pc[t] \in {"reap", "free"}
        /\ pc'[t] = "free" <=> pc[t] = "free"
    BY CallsKept, Zenon
  <2>2. /\ handle[c] = "used" /\ mem[c] = "mapped" /\ pc[c] # "none"
        /\ join_state[c] # "DETACHED"
        /\ pc[t] \in Claimed <=> join_state[c] = "JOINED"
        /\ pc[t] \in {"reap", "free"} => pc[c] = "dead"
        /\ c \in list <=> pc[t] # "free"
    BY <2>1, Zenon DEF ThreadInv, UseInStep
  <2>3. QED
    BY <1>s, <2>1, <2>2, Zenon DEF SameFields, SameLife
<1>4. StageInStep(c)'
  BY StageKept, Zenon DEF ThreadInv, SameFields, SameLife
<1>5. SomebodyCares(c)'
  <2>1. SomebodyCares(c) /\ \A t \in Threads : (Creates(t, c)' <=> Creates(t, c)) /\ (Uses(t, c)' <=> Uses(t, c))
    BY CallsKept, Zenon DEF ThreadInv
  <2>2. QED
    BY <2>1, Zenon DEF SomebodyCares, SameFields, SameLife
<1>6. ASSUME mem'[c] = "unmapped" PROVE OutOfUse(c)'
  <2>1. OutOfUse(c) /\ \A t \in Threads : arg'[t] = c <=> arg[t] = c
    BY <1>6, CallsKept, Zenon DEF ThreadInv, SameFields, SameLife
  <2>2. QED
    BY <1>s, <2>1, Zenon DEF OutOfUse, SameFields, SameLife
<1>7. QED
  BY <1>1, <1>2, <1>3, <1>4, <1>5, <1>6, Zenon DEF ThreadInv

(***************************************************************************)
(* A step of x about a: it moves x, may change fields of a and the call of *)
(* x on a, and wakes sleepers.                                             *)
(***************************************************************************)
Acts(x, a) ==
  /\ \A t \in Threads \ {x} :
       /\ arg'[t] = arg[t]
       /\ \/ pc'[t] = pc[t]
          \/ pc[t] = "asleep" /\ pc'[t] = "wait"
          \/ t = a /\ arg[a] = None
  /\ arg[x] \in {None, a} /\ arg'[x] \in {None, a}
  /\ x = a \/ (pc[x] \in Busy /\ pc'[x] \in Busy)
  /\ \A c \in Threads \ {a} : SameFields(c)

(***************************************************************************)
(* It leaves the other threads alone.                                      *)
(***************************************************************************)
LEMMA OthersKept ==
  ASSUME NEW x \in Threads, NEW a \in Threads, Acts(x, a), NEW c \in Threads \ {a}, ThreadInv(c)
  PROVE  ThreadInv(c)'
<1>0. c # None
  BY ThreadAssumption, Zenon
<1>1. SameFields(c)
  BY Zenon DEF Acts
<1>2. SameStage(c)
  BY Zenon DEF Acts, SameStage, Busy, UsesArg
<1>3. SameCalls(c)
  <2> SUFFICES ASSUME NEW t \in Threads
               PROVE  (arg'[t] = c <=> arg[t] = c) /\ (arg[t] = c => SameCall(t))
    BY Zenon DEF SameCalls
  <2>1. CASE t = x
    BY <1>0, <2>1, Zenon DEF Acts
  <2>2. CASE t # x
    BY <1>0, <2>2, Zenon DEF Acts, SameCall
  <2>3. QED
    BY <2>1, <2>2, Zenon
<1>4. QED
  BY <1>1, <1>2, <1>3, Elsewhere, Zenon

(***************************************************************************)
(* A quiet step: no field changes, and everybody goes on with its call.    *)
(***************************************************************************)
Quiet ==
  /\ UNCHANGED <<arg, list, handle, threadVars>>
  /\ \A t \in Threads :
       \/ pc'[t] = pc[t]
       \/ pc[t] \in Busy \ UsesArg /\ pc'[t] \in Busy \ UsesArg
       \/ pc[t] = "create" /\ pc'[t] = "clone"
       \/ pc[t] \in {"wait", "asleep"} /\ pc'[t] \in {"wait", "asleep"}
       \/ pc[t] \in Using \ Claimed /\ pc'[t] \in Using \ Claimed

(***************************************************************************)
(* A quiet step keeps the invariant of every thread.                       *)
(***************************************************************************)
LEMMA QuietKeeps ==
  ASSUME TypeOK, Quiet, NEW c \in Threads, ThreadInv(c)
  PROVE  ThreadInv(c)'
<1>1. SameFields(c)
  BY Zenon DEF Quiet, SameFields, SameLife, threadVars
<1>2. SameStage(c)
  BY Zenon DEF Quiet, SameStage, Busy, UsesArg, CreatorHolds, Using
<1>3. SameCalls(c)
  <2> SUFFICES ASSUME NEW t \in Threads
               PROVE  arg'[t] = arg[t] /\ (arg[t] = c => SameCall(t))
    BY Zenon DEF SameCalls
  <2>1. arg'[t] = arg[t]
    BY Zenon DEF Quiet
  <2>2. arg[t] = c => pc[t] \in UsesArg
    BY ThreadAssumption, Zenon DEF TypeOK
  <2>3. arg[t] = c => SameCall(t)
    BY <2>2, Zenon DEF Quiet, SameCall
  <2>4. QED
    BY <2>1, <2>3, Zenon
<1>4. QED
  BY <1>1, <1>2, <1>3, Elsewhere, Zenon

(***************************************************************************)
(* A step of c in its own life, once its creation is over: what has to be  *)
(* shown is that it reaches the next stage in step.                        *)
(***************************************************************************)
Lives(c) ==
  /\ Acts(c, c) /\ arg[c] = None /\ arg'[c] = None
  /\ pc[c] \notin {"none", "dead"} /\ pc'[c] # "none"
  /\ ~handshake[c] /\ ~handshake'[c] /\ handle'[c] = handle[c]
  /\ \/ join_state'[c] = join_state[c]
     \/ join_state[c] = "NOT_JOINED" /\ join_state'[c] = "EXITED_NOT_JOINED"
  /\ join_state[c] = "DETACHED" \/ (mem'[c] = mem[c] /\ (c \in list' <=> c \in list))
  /\ c \in list' => c \in list
  /\ mem'[c] = "unmapped" =>
       /\ pc'[c] = "dead" \/ (pc'[c] = "die" /\ ~cleartid'[c])
       /\ c \notin list' /\ join_state[c] = "DETACHED"

(***************************************************************************)
(* Such a step of pthread_exit keeps the thread's invariant.               *)
(***************************************************************************)
LEMMA LifeKept ==
  ASSUME TypeOK, NEW c \in Threads, ThreadInv(c), Lives(c), StageInStep(c)'
  PROVE  ThreadInv(c)'
<1>0. c # None
  BY ThreadAssumption, Zenon
<1>1. SameCalls(c)
  BY <1>0, Zenon DEF SameCalls, Lives, Acts, SameCall
<1>2. OneCall(c)'
  BY <1>1, CallsKept, Zenon DEF ThreadInv, OneCall
<1>3. \A t \in Threads : ~Creates(t, c)
  BY Zenon DEF ThreadInv, CreationInStep, Lives
<1>4. CreationInStep(c)'
  BY <1>1, <1>3, CallsKept, Zenon DEF CreationInStep
<1>5. UseInStep(c)'
  <2> SUFFICES ASSUME NEW t \in Threads, Uses(t, c)'
               PROVE  /\ handle'[c] = "used" /\ mem'[c] = "mapped" /\ pc'[c] # "none"
                      /\ join_state'[c] # "DETACHED"
                      /\ pc'[t] \in Claimed <=> join_state'[c] = "JOINED"
                      /\ pc'[t] \in {"reap", "free"} => pc'[c] = "dead"
                      /\ c \in list' <=> pc'[t] # "free"
    BY Zenon DEF UseInStep
  <2>1. /\ Uses(t, c)
        /\ pc'[t] \in Claimed <=> pc[t] \in Claimed
        /\ pc'[t] \in {"reap", "free"} <=> pc[t] \in {"reap", "free"}
        /\ pc'[t] = "free" <=> pc[t] = "free"
    BY <1>1, CallsKept, Zenon
  <2>2. /\ handle[c] = "used" /\ mem[c] = "mapped" /\ pc[c] # "none"
        /\ join_state[c] # "DETACHED"
        /\ pc[t] \in Claimed <=> join_state[c] = "JOINED"
        /\ pc[t] \in {"reap", "free"} => pc[c] = "dead"
        /\ c \in list <=> pc[t] # "free"
    BY <2>1, Zenon DEF ThreadInv, UseInStep
  <2>3. QED
    BY <2>1, <2>2, Zenon DEF Lives
<1>6. SomebodyCares(c)'
  <2>1. SomebodyCares(c) /\ \A t \in Threads : Uses(t, c)' <=> Uses(t, c)
    BY <1>1, CallsKept, Zenon DEF ThreadInv
  <2>2. QED
    BY <2>1, Zenon DEF SomebodyCares, Lives
<1>7. ASSUME mem'[c] = "unmapped" PROVE OutOfUse(c)'
  <2>1. \A t \in Threads : ~Creates(t, c) /\ ~Uses(t, c)
    BY <1>3, <1>7, Zenon DEF Lives, ThreadInv, UseInStep
  <2>2. \A t \in Threads : arg[t] # c
    BY <1>0, <2>1, Zenon DEF TypeOK, Creates, Uses, Creating, Using, Claimed, UsesArg, CreatorHolds
  <2>3. \A t \in Threads : arg'[t] # c
    BY <1>1, <2>2, Zenon DEF SameCalls
  <2>4. QED
    BY <1>7, <2>3, Zenon DEF OutOfUse, Lives
<1>8. QED
  BY <1>2, <1>4, <1>5, <1>6, <1>7, Zenon DEF ThreadInv

(***************************************************************************)
(* The steps of a thread's life from its start to its end reach the next   *)
(* stage in step.                                                          *)
(***************************************************************************)
LEMMA LivesOn ==
  ASSUME TypeOK, TypeOK', NEW c \in Threads, ThreadInv(c),
         \/ Start(c) \/ Unmask(c) \/ Exit(c) \/ MarkExited(c) \/ LockForExit(c) \/ SetTerminating(c)
         \/ BlockSignals(c) \/ ForgetTid(c) \/ RemoveSelf(c) \/ Unmap(c)
  PROVE  Lives(c) /\ StageInStep(c)'
<1>0. /\ StageInStep(c) /\ (mem[c] = "unmapped" => OutOfUse(c))
      /\ mem[c] \in {"none", "mapped", "unmapped"} /\ join_state[c] \in JoinStates
  BY Zenon DEF ThreadInv, TypeOK
<1>t. /\ pc \in [Threads -> Locations] /\ mem \in [Threads -> {"none", "mapped", "unmapped"}]
      /\ join_state \in [Threads -> JoinStates] /\ old_state \in [Threads -> JoinStates]
      /\ cleartid \in [Threads -> BOOLEAN] /\ terminating \in [Threads -> BOOLEAN]
  BY Zenon DEF TypeOK
<1>1. /\ pc[c] \notin UsesArg /\ pc'[c] \notin UsesArg
      /\ arg' = arg /\ handle' = handle /\ handshake' = handshake
      /\ \A t \in Threads \ {c} : pc'[t] = pc[t] /\ SameFields(t)
  <2>1. pc[c] \notin UsesArg /\ pc'[c] \notin UsesArg
    BY <1>t, Zenon DEF UsesArg, CreatorHolds, Start, Unmask, Exit, MarkExited, LockForExit, SetTerminating,
      BlockSignals, ForgetTid, RemoveSelf, Unmap, Goto
  <2>2. arg' = arg /\ handle' = handle /\ handshake' = handshake /\ \E l : Goto(c, l)
    BY Zenon DEF Start, Unmask, Exit, MarkExited, LockForExit, SetTerminating,
      BlockSignals, ForgetTid, RemoveSelf, Unmap, threadVars
  <2>3. \A t \in Threads \ {c} : pc'[t] = pc[t]
    BY <1>t, <2>2, Zenon DEF Goto
  <2>4. ASSUME NEW t \in Threads \ {c} PROVE SameFields(t)
    BY <1>t, Zenon DEF SameFields, SameLife, Start, Unmask, Exit, MarkExited, LockForExit, SetTerminating,
      BlockSignals, ForgetTid, RemoveSelf, Unmap, threadVars, Set
  <2>5. QED
    BY <2>1, <2>2, <2>3, <2>4, Zenon
<1>2. Acts(c, c) /\ arg[c] = None /\ arg'[c] = None
  BY <1>1, Zenon DEF Acts, TypeOK
<1>3. CASE Start(c)
  <2>1. /\ pc[c] = "start" /\ ~handshake[c] /\ pc'[c] = "unmask"
        /\ UNCHANGED <<mem, handshake, join_state, old_state, tid, cleartid, terminating, list>>
    BY <1>t, <1>3, Zenon DEF Start, Goto, Set, threadVars
  <2>2. StageInStep(c)'
    BY <1>0, <1>1, <2>1, Zenon DEF StageInStep, Unborn, Alive, Leaving, Ended, JoinStates
  <2>3. Lives(c)
    BY <1>0, <1>1, <1>2, <2>1, Zenon DEF Lives, StageInStep, Alive, Leaving, Ended, OutOfUse
  <2>4. QED
    BY <2>2, <2>3, Zenon
<1>4. CASE Unmask(c)
  <2>1. /\ pc[c] = "unmask" /\ pc'[c] = IF idle_routine[c] THEN "exit" ELSE "user"
        /\ UNCHANGED <<mem, handshake, join_state, old_state, tid, cleartid, terminating, list>>
    BY <1>t, <1>4, Zenon DEF Unmask, Goto, Set, threadVars
  <2>2. StageInStep(c)'
    BY <1>0, <1>1, <2>1, Zenon DEF StageInStep, Unborn, Alive, Leaving, Ended, JoinStates
  <2>3. Lives(c)
    BY <1>0, <1>1, <1>2, <2>1, Zenon DEF Lives, StageInStep, Alive, Leaving, Ended, OutOfUse
  <2>4. QED
    BY <2>2, <2>3, Zenon
<1>5. CASE Exit(c)
  <2>1. /\ pc[c] = "user" /\ pc'[c] = "exit"
        /\ UNCHANGED <<mem, handshake, join_state, old_state, tid, cleartid, terminating, list>>
    BY <1>t, <1>5, Zenon DEF Exit, Goto, Set, threadVars
  <2>2. StageInStep(c)'
    BY <1>0, <1>1, <2>1, Zenon DEF StageInStep, Unborn, Alive, Leaving, Ended, JoinStates
  <2>3. Lives(c)
    BY <1>0, <1>1, <1>2, <2>1, Zenon DEF Lives, StageInStep, Alive, Leaving, Ended, OutOfUse
  <2>4. QED
    BY <2>2, <2>3, Zenon
<1>6. CASE MarkExited(c)
  <2>1. /\ pc[c] = "exit" /\ pc'[c] = "exitlock"
        /\ UNCHANGED <<mem, handshake, tid, cleartid, terminating, list>>
        /\ old_state'[c] = join_state[c]
        /\ join_state'[c] = IF join_state[c] = "NOT_JOINED" THEN "EXITED_NOT_JOINED" ELSE join_state[c]
    BY <1>t, <1>6, Zenon DEF MarkExited, Goto, Set, threadVars
  <2>2. StageInStep(c)'
    BY <1>0, <1>1, <2>1, Zenon DEF StageInStep, Unborn, Alive, Leaving, Ended, JoinStates
  <2>3. Lives(c)
    BY <1>0, <1>1, <1>2, <2>1, Zenon DEF Lives, StageInStep, Alive, Leaving, Ended, OutOfUse
  <2>4. QED
    BY <2>2, <2>3, Zenon
<1>7. CASE LockForExit(c)
  <2>1. /\ pc[c] = "exitlock" /\ pc'[c] = "term"
        /\ UNCHANGED <<mem, handshake, join_state, old_state, tid, cleartid, terminating, list>>
    BY <1>t, <1>7, Zenon DEF LockForExit, Goto, Set, threadVars
  <2>2. StageInStep(c)'
    BY <1>0, <1>1, <2>1, Zenon DEF StageInStep, Unborn, Alive, Leaving, Ended, JoinStates
  <2>3. Lives(c)
    BY <1>0, <1>1, <1>2, <2>1, Zenon DEF Lives, StageInStep, Alive, Leaving, Ended, OutOfUse
  <2>4. QED
    BY <2>2, <2>3, Zenon
<1>8. CASE SetTerminating(c)
  <2>1. /\ pc[c] = "term" /\ pc'[c] = "mask"
        /\ UNCHANGED <<mem, handshake, join_state, old_state, tid, cleartid, list>>
        /\ terminating'[c]
    BY <1>t, <1>8, Zenon DEF SetTerminating, Goto, Set, threadVars
  <2>2. StageInStep(c)'
    BY <1>0, <1>1, <2>1, Zenon DEF StageInStep, Unborn, Alive, Leaving, Ended, JoinStates
  <2>3. Lives(c)
    BY <1>0, <1>1, <1>2, <2>1, Zenon DEF Lives, StageInStep, Alive, Leaving, Ended, OutOfUse
  <2>4. QED
    BY <2>2, <2>3, Zenon
<1>9. CASE BlockSignals(c)
  <2>1. /\ pc[c] = "mask" /\ pc'[c] = IF old_state[c] = "DETACHED" THEN "untid" ELSE "die"
        /\ UNCHANGED <<mem, handshake, join_state, old_state, tid, cleartid, terminating, list>>
    BY <1>t, <1>9, Zenon DEF BlockSignals, Goto, Set, threadVars
  <2>2. StageInStep(c)'
    BY <1>0, <1>1, <2>1, Zenon DEF StageInStep, Unborn, Alive, Leaving, Ended, JoinStates
  <2>3. Lives(c)
    BY <1>0, <1>1, <1>2, <2>1, Zenon DEF Lives, StageInStep, Alive, Leaving, Ended, OutOfUse
  <2>4. QED
    BY <2>2, <2>3, Zenon
<1>10. CASE ForgetTid(c)
  <2>1. /\ pc[c] = "untid" /\ pc'[c] = "remove"
        /\ UNCHANGED <<mem, handshake, join_state, old_state, tid, terminating, list>>
        /\ ~cleartid'[c]
    BY <1>t, <1>10, Zenon DEF ForgetTid, Goto, Set, threadVars
  <2>2. StageInStep(c)'
    BY <1>0, <1>1, <2>1, Zenon DEF StageInStep, Unborn, Alive, Leaving, Ended, JoinStates
  <2>3. Lives(c)
    BY <1>0, <1>1, <1>2, <2>1, Zenon DEF Lives, StageInStep, Alive, Leaving, Ended, OutOfUse
  <2>4. QED
    BY <2>2, <2>3, Zenon
<1>11. CASE RemoveSelf(c)
  <2>1. /\ pc[c] = "remove" /\ pc'[c] = "unmap"
        /\ UNCHANGED <<mem, handshake, join_state, old_state, tid, cleartid, terminating>>
        /\ c \notin list'
    BY <1>t, <1>11, Zenon DEF RemoveSelf, Goto, Set, threadVars
  <2>2. StageInStep(c)'
    BY <1>0, <1>1, <2>1, Zenon DEF StageInStep, Unborn, Alive, Leaving, Ended, JoinStates
  <2>3. Lives(c)
    BY <1>0, <1>1, <1>2, <2>1, Zenon DEF Lives, StageInStep, Alive, Leaving, Ended, OutOfUse
  <2>4. QED
    BY <2>2, <2>3, Zenon
<1>12. CASE Unmap(c)
  <2>1. /\ pc[c] = "unmap" /\ pc'[c] = "die"
        /\ UNCHANGED <<handshake, join_state, old_state, tid, cleartid, terminating, list>>
        /\ mem'[c] = "unmapped"
    BY <1>t, <1>12, Zenon DEF Unmap, Goto, Set, threadVars
  <2>2. StageInStep(c)'
    BY <1>0, <1>1, <2>1, Zenon DEF StageInStep, Unborn, Alive, Leaving, Ended, JoinStates
  <2>3. Lives(c)
    BY <1>0, <1>1, <1>2, <2>1, Zenon DEF Lives, StageInStep, Alive, Leaving, Ended, OutOfUse
  <2>4. QED
    BY <2>2, <2>3, Zenon
<1>13. QED
  BY <1>3, <1>4, <1>5, <1>6, <1>7, <1>8, <1>9, <1>10, <1>11, <1>12, Zenon

(***************************************************************************)
(* The exit system call ends the life, and wakes who waits for that.       *)
(***************************************************************************)
LEMMA DieKeeps ==
  ASSUME TypeOK, NEW c \in Threads, ThreadInv(c), Die(c)
  PROVE  Lives(c) /\ StageInStep(c)'
<1>0. /\ StageInStep(c) /\ (mem[c] = "unmapped" => OutOfUse(c)) /\ tid \in [Threads -> BOOLEAN]
  BY Zenon DEF ThreadInv, TypeOK
<1>1. /\ pc[c] = "die" /\ pc'[c] = "dead"
      /\ \A t \in Threads \ {c} : pc'[t] = pc[t] \/ (pc[t] = "asleep" /\ pc'[t] = "wait")
      /\ UNCHANGED <<arg, list, handle, mem, handshake, join_state, old_state, cleartid, terminating>>
  BY Zenon DEF Die
<1>2. /\ \A t \in Threads \ {c} : tid'[t] = tid[t]
      /\ tid'[c] = IF cleartid[c] THEN FALSE ELSE tid[c]
  BY <1>0, Zenon DEF Die, Set
<1>3. arg[c] = None
  BY <1>1, Zenon DEF TypeOK, UsesArg, CreatorHolds
<1>4. Acts(c, c)
  BY <1>1, <1>2, <1>3, Zenon DEF Acts, SameFields, SameLife
<1>5. StageInStep(c)'
  BY <1>0, <1>1, <1>2, Zenon DEF StageInStep, Unborn, Alive, Leaving, Ended
<1>6. Lives(c)
  BY <1>0, <1>1, <1>3, <1>4, Zenon DEF Lives, StageInStep, Alive, Leaving, Ended, OutOfUse
<1>7. QED
  BY <1>5, <1>6, Zenon

(***************************************************************************)
(* What the invariant says of a thread that t creates, before it is in the *)
(* list: nobody else has heard of it.                                      *)
(***************************************************************************)
LEMMA Unheard ==
  ASSUME TypeOK, NEW t \in Threads, NEW c \in Threads, ThreadInv(c), Creates(t, c), pc[t] # "release"
  PROVE  /\ t # c /\ c # None /\ arg[c] = None /\ arg[t] = c
         /\ \A u \in Threads \ {t} : arg[u] # c
         /\ handshake[c] /\ mem[c] = "mapped" /\ c \notin list /\ handle[c] = "none"
         /\ pc[c] = IF pc[t] \in {"create", "clone"} THEN "none" ELSE "start"
         /\ join_state[c] \in {"NOT_JOINED", "DETACHED"}
<1>1. /\ handshake[c] /\ mem[c] = "mapped" /\ c \notin list /\ handle[c] = "none" /\ arg[t] = c
      /\ pc[c] = IF pc[t] \in {"create", "clone"} THEN "none" ELSE "start"
  BY Zenon DEF ThreadInv, CreationInStep, Creates
<1>2. t # c /\ c # None /\ arg[c] = None
  BY <1>1, ThreadAssumption, Zenon DEF TypeOK, UsesArg, CreatorHolds, Creates, Creating
<1>3. \A u \in Threads \ {t} : ~Creates(u, c)
  BY Zenon DEF ThreadInv, OneCall
<1>4. \A u \in Threads : ~Uses(u, c)
  BY <1>1, Zenon DEF ThreadInv, UseInStep
<1>5. \A u \in Threads \ {t} : arg[u] # c
  BY <1>2, <1>3, <1>4, Zenon DEF TypeOK, Creates, Uses, Creating, Using, Claimed, UsesArg, CreatorHolds
<1>6. join_state[c] \in {"NOT_JOINED", "DETACHED"}
  <2>1. join_state[c] # "JOINED"
    BY <1>1, <1>4, Zenon DEF ThreadInv, SomebodyCares
  <2>2. join_state[c] # "EXITED_NOT_JOINED"
    BY <1>1, Zenon DEF ThreadInv, StageInStep, Ended
  <2>3. QED
    BY <2>1, <2>2, Zenon DEF TypeOK, JoinStates
<1>7. QED
  BY <1>1, <1>2, <1>5, <1>6, Zenon

(***************************************************************************)
(* While t is the only one with a call on c, what its call means is all    *)
(* there is to show about calls.                                           *)
(***************************************************************************)
LEMMA OneCaller ==
  ASSUME NEW t \in Threads, NEW c \in Threads, \A u \in Threads \ {t} : arg'[u] # c
  PROVE  /\ OneCall(c)'
         /\ ~Creates(t, c)' => CreationInStep(c)'
         /\ ~Uses(t, c)' => UseInStep(c)'
<1>1. \A u \in Threads \ {t} : ~Creates(u, c)' /\ ~Uses(u, c)'
  BY Zenon DEF Creates, Uses
<1>2. QED
  BY <1>1, Zenon DEF OneCall, CreationInStep, UseInStep

(***************************************************************************)
(* pthread_create begins.                                                  *)
(***************************************************************************)
LEMMA CreateKeeps ==
  ASSUME TypeOK, NEW t \in Threads, NEW c \in Threads, ThreadInv(c), Create(t, c)
  PROVE  Acts(t, c) /\ ThreadInv(c)'
<1>0. /\ pc \in [Threads -> Locations] /\ arg \in [Threads -> Threads \union {None}]
      /\ mem \in [Threads -> {"none", "mapped", "unmapped"}] /\ handshake \in [Threads -> BOOLEAN]
      /\ StageInStep(c) /\ UseInStep(c) /\ CreationInStep(c) /\ c # None
  BY ThreadAssumption, Zenon DEF TypeOK, ThreadInv
<1>1. /\ pc[t] = "user" /\ mem[c] = "none" /\ pc[c] = "none" /\ ~handshake[c] /\ t # c /\ arg[t] = None
  BY <1>0, Zenon DEF Create, StageInStep, TypeOK, UsesArg, CreatorHolds
<1>2. \A u \in Threads : arg[u] # c
  <2>1. \A u \in Threads : ~Creates(u, c) /\ ~Uses(u, c)
    BY <1>0, <1>1, Zenon DEF UseInStep, CreationInStep
  <2>2. QED
    BY <1>0, <2>1, Zenon DEF TypeOK, Creates, Uses, Creating, Using, Claimed, UsesArg, CreatorHolds
<1>3. /\ pc'[t] = "create" /\ arg'[t] = c /\ mem'[c] = "mapped" /\ handshake'[c]
      /\ \A u \in Threads \ {t} : pc'[u] = pc[u] /\ arg'[u] = arg[u]
      /\ \A u \in Threads \ {c} : mem'[u] = mem[u] /\ handshake'[u] = handshake[u]
      /\ UNCHANGED <<list, handle, join_state, old_state, tid, cleartid, terminating>>
  BY <1>0, Zenon DEF Create, Goto, Set
<1>4. Acts(t, c)
  BY <1>1, <1>3, Zenon DEF Acts, SameFields, SameLife, Busy, UsesArg
<1>5. Creates(t, c)' /\ ~Uses(t, c)'
  BY <1>3, Zenon DEF Creates, Creating, Uses, Using, Claimed
<1>6. OneCall(c)' /\ UseInStep(c)'
  BY <1>2, <1>3, <1>5, OneCaller
<1>7. StageInStep(c)' /\ c \notin list /\ handle[c] = "none" /\ join_state[c] = "NOT_JOINED"
  BY <1>0, <1>1, <1>3, Zenon DEF StageInStep, Unborn, Leaving, Ended
<1>8. CreationInStep(c)'
  BY <1>1, <1>2, <1>3, <1>7, Zenon DEF CreationInStep, Creates
<1>9. SomebodyCares(c)'
  BY <1>3, <1>5, <1>7, Zenon DEF SomebodyCares
<1>10. QED
  BY <1>3, <1>4, <1>6, <1>7, <1>8, <1>9, Zenon DEF ThreadInv

(***************************************************************************)
(* clone succeeds.                                                         *)
(***************************************************************************)
LEMMA ClonedKeeps ==
  ASSUME TypeOK, NEW t \in Threads, NEW c \in Threads, arg[t] = c, ThreadInv(c), Cloned(t)
  PROVE  Acts(t, c) /\ ThreadInv(c)'
<1>0. /\ pc \in [Threads -> Locations] /\ tid \in [Threads -> BOOLEAN] /\ StageInStep(c)
  BY Zenon DEF TypeOK, ThreadInv
<1>1. Creates(t, c) /\ pc[t] = "clone"
  BY Zenon DEF Cloned, Creates, Creating
<1>2. /\ t # c /\ arg[c] = None /\ \A u \in Threads \ {t} : arg[u] # c
      /\ handshake[c] /\ mem[c] = "mapped" /\ c \notin list /\ handle[c] = "none" /\ pc[c] = "none"
      /\ join_state[c] \in {"NOT_JOINED", "DETACHED"}
  BY <1>1, Unheard
<1>3. /\ pc'[t] = "init" /\ pc'[c] = "start" /\ tid'[c]
      /\ \A u \in Threads \ {t, c} : pc'[u] = pc[u]
      /\ \A u \in Threads \ {c} : tid'[u] = tid[u]
      /\ UNCHANGED <<arg, list, handle, mem, handshake, join_state, old_state, cleartid, terminating>>
  BY <1>0, <1>2, Zenon DEF Cloned, Set
<1>4. Acts(t, c)
  BY <1>1, <1>2, <1>3, Zenon DEF Acts, SameFields, SameLife, Busy, UsesArg, CreatorHolds
<1>5. Creates(t, c)' /\ ~Uses(t, c)'
  BY <1>3, Zenon DEF Creates, Creating, Uses, Using, Claimed
<1>6. OneCall(c)' /\ UseInStep(c)'
  BY <1>2, <1>3, <1>5, OneCaller, Zenon
<1>7. StageInStep(c)'
  BY <1>0, <1>2, <1>3, Zenon DEF StageInStep, Unborn, Alive, Leaving, Ended
<1>8. CreationInStep(c)'
  BY <1>2, <1>3, Zenon DEF CreationInStep, Creates
<1>9. SomebodyCares(c)'
  BY <1>2, <1>3, <1>5, Zenon DEF SomebodyCares
<1>10. QED
  BY <1>2, <1>3, <1>4, <1>6, <1>7, <1>8, <1>9, Zenon DEF ThreadInv

(***************************************************************************)
(* clone fails, and the mapping is undone.                                 *)
(***************************************************************************)
LEMMA CloneFailsKeeps ==
  ASSUME TypeOK, NEW t \in Threads, NEW c \in Threads, arg[t] = c, ThreadInv(c), CloneFails(t)
  PROVE  Acts(t, c) /\ ThreadInv(c)'
<1>0. /\ pc \in [Threads -> Locations] /\ arg \in [Threads -> Threads \union {None}]
      /\ mem \in [Threads -> {"none", "mapped", "unmapped"}] /\ handshake \in [Threads -> BOOLEAN]
      /\ StageInStep(c) /\ c # None
  BY ThreadAssumption, Zenon DEF TypeOK, ThreadInv
<1>1. Creates(t, c) /\ pc[t] = "clone"
  BY Zenon DEF CloneFails, Creates, Creating
<1>2. /\ t # c /\ arg[c] = None /\ \A u \in Threads \ {t} : arg[u] # c
      /\ handshake[c] /\ mem[c] = "mapped" /\ c \notin list /\ handle[c] = "none" /\ pc[c] = "none"
      /\ join_state[c] \in {"NOT_JOINED", "DETACHED"}
  BY <1>1, Unheard
<1>3. /\ pc'[t] = "user" /\ arg'[t] = None /\ mem'[c] = "unmapped" /\ ~handshake'[c]
      /\ \A u \in Threads \ {t} : pc'[u] = pc[u] /\ arg'[u] = arg[u]
      /\ \A u \in Threads \ {c} : mem'[u] = mem[u] /\ handshake'[u] = handshake[u]
      /\ UNCHANGED <<list, handle, join_state, old_state, tid, cleartid, terminating>>
  BY <1>0, Zenon DEF CloneFails, Goto, Set
<1>4. Acts(t, c)
  BY <1>1, <1>2, <1>3, Zenon DEF Acts, SameFields, SameLife, Busy, UsesArg, CreatorHolds
<1>5. ~Creates(t, c)' /\ ~Uses(t, c)'
  BY <1>0, <1>3, Zenon DEF Creates, Uses
<1>6. OneCall(c)' /\ UseInStep(c)' /\ CreationInStep(c)'
  BY <1>2, <1>3, <1>5, OneCaller
<1>7. StageInStep(c)'
  BY <1>0, <1>2, <1>3, Zenon DEF StageInStep, Unborn, Leaving, Ended
<1>8. SomebodyCares(c)'
  BY <1>2, <1>3, Zenon DEF SomebodyCares
<1>9. OutOfUse(c)'
  BY <1>0, <1>2, <1>3 DEF OutOfUse
<1>10. QED
  BY <1>4, <1>6, <1>7, <1>8, <1>9, Zenon DEF ThreadInv

(***************************************************************************)
(* __init_thread decides about the join state.                             *)
(***************************************************************************)
LEMMA InitThreadKeeps ==
  ASSUME TypeOK, NEW t \in Threads, NEW c \in Threads, arg[t] = c, ThreadInv(c), InitThread(t)
  PROVE  Acts(t, c) /\ ThreadInv(c)'
<1>0. /\ pc \in [Threads -> Locations] /\ join_state \in [Threads -> JoinStates] /\ StageInStep(c)
  BY Zenon DEF TypeOK, ThreadInv
<1>1. Creates(t, c) /\ pc[t] = "init"
  BY Zenon DEF InitThread, Creates, Creating
<1>2. /\ t # c /\ arg[c] = None /\ \A u \in Threads \ {t} : arg[u] # c
      /\ handshake[c] /\ mem[c] = "mapped" /\ c \notin list /\ handle[c] = "none" /\ pc[c] = "start"
  BY <1>1, Unheard
<1>a. PICK state \in {"NOT_JOINED", "DETACHED"} : join_state' = [join_state EXCEPT ![c] = state]
  BY Zenon DEF InitThread, Set
<1>3. /\ pc'[t] = "add" /\ join_state'[c] \in {"NOT_JOINED", "DETACHED"}
      /\ \A u \in Threads \ {t} : pc'[u] = pc[u]
      /\ \A u \in Threads \ {c} : join_state'[u] = join_state[u]
      /\ UNCHANGED <<arg, list, handle, mem, handshake, old_state, tid, cleartid, terminating>>
  BY <1>0, <1>a, Zenon DEF InitThread, Goto
<1>4. Acts(t, c)
  BY <1>1, <1>2, <1>3, Zenon DEF Acts, SameFields, SameLife, Busy, UsesArg, CreatorHolds
<1>5. Creates(t, c)' /\ ~Uses(t, c)'
  BY <1>3, Zenon DEF Creates, Creating, Uses, Using, Claimed
<1>6. OneCall(c)' /\ UseInStep(c)'
  BY <1>2, <1>3, <1>5, OneCaller, Zenon
<1>7. StageInStep(c)'
  BY <1>0, <1>2, <1>3, Zenon DEF StageInStep, Unborn, Alive, Leaving, Ended
<1>8. CreationInStep(c)'
  BY <1>2, <1>3, Zenon DEF CreationInStep, Creates
<1>9. SomebodyCares(c)'
  BY <1>2, <1>3, <1>5, Zenon DEF SomebodyCares
<1>10. QED
  BY <1>2, <1>3, <1>4, <1>6, <1>7, <1>8, <1>9, Zenon DEF ThreadInv

(***************************************************************************)
(* The new thread gets into the list, and its creator a handle.            *)
(***************************************************************************)
LEMMA AddKeeps ==
  ASSUME TypeOK, NEW t \in Threads, NEW c \in Threads, arg[t] = c, ThreadInv(c), Add(t)
  PROVE  Acts(t, c) /\ ThreadInv(c)'
<1>0. /\ pc \in [Threads -> Locations] /\ handle \in [Threads -> {"none", "valid", "used"}]
      /\ StageInStep(c)
  BY Zenon DEF TypeOK, ThreadInv
<1>1. Creates(t, c) /\ pc[t] = "add"
  BY Zenon DEF Add, Creates, Creating
<1>2. /\ t # c /\ arg[c] = None /\ \A u \in Threads \ {t} : arg[u] # c
      /\ handshake[c] /\ mem[c] = "mapped" /\ c \notin list /\ handle[c] = "none" /\ pc[c] = "start"
      /\ join_state[c] \in {"NOT_JOINED", "DETACHED"}
  BY <1>1, Unheard
<1>3. /\ pc'[t] = "release" /\ list' = list \union {c}
      /\ handle'[c] = IF join_state[c] = "DETACHED" THEN "none" ELSE "valid"
      /\ \A u \in Threads \ {t} : pc'[u] = pc[u]
      /\ \A u \in Threads \ {c} : handle'[u] = handle[u]
      /\ UNCHANGED <<arg, mem, handshake, join_state, old_state, tid, cleartid, terminating>>
  BY <1>0, <1>2, Zenon DEF Add, Goto, Set, threadVars
<1>4. Acts(t, c)
  BY <1>1, <1>2, <1>3, Zenon DEF Acts, SameFields, SameLife, Busy, UsesArg, CreatorHolds
<1>5. Creates(t, c)' /\ ~Uses(t, c)'
  BY <1>3, Zenon DEF Creates, Creating, Uses, Using, Claimed
<1>6. OneCall(c)' /\ UseInStep(c)'
  BY <1>2, <1>3, <1>5, OneCaller, Zenon
<1>7. StageInStep(c)'
  BY <1>0, <1>2, <1>3, Zenon DEF StageInStep, Unborn, Alive, Leaving, Ended
<1>8. CreationInStep(c)'
  BY <1>2, <1>3, Zenon DEF CreationInStep, Creates
<1>9. SomebodyCares(c)'
  BY <1>2, <1>3, <1>5, Zenon DEF SomebodyCares
<1>10. QED
  BY <1>2, <1>3, <1>4, <1>6, <1>7, <1>8, <1>9, Zenon DEF ThreadInv

(***************************************************************************)
(* The handshake lock is released, and the call is as good as over.  By    *)
(* now others may have joined or detached the new thread.                  *)
(***************************************************************************)
LEMMA ReleaseKeeps ==
  ASSUME TypeOK, NEW t \in Threads, NEW c \in Threads, arg[t] = c, ThreadInv(c), ReleaseChild(t)
  PROVE  Acts(t, c) /\ ThreadInv(c)'
<1>0. /\ pc \in [Threads -> Locations] /\ arg \in [Threads -> Threads \union {None}]
      /\ handshake \in [Threads -> BOOLEAN] /\ c # None
      /\ StageInStep(c) /\ OneCall(c) /\ UseInStep(c) /\ CreationInStep(c) /\ SomebodyCares(c)
  BY ThreadAssumption, Zenon DEF TypeOK, ThreadInv
<1>1. Creates(t, c) /\ pc[t] = "release"
  BY Zenon DEF ReleaseChild, Creates, Creating
<1>2. mem[c] = "mapped" /\ pc[c] = "start" /\ c \in list /\ t # c
  BY <1>0, <1>1, Zenon DEF CreationInStep
<1>3. /\ pc'[t] = "created" /\ arg'[t] = None /\ ~handshake'[c]
      /\ \A u \in Threads \ {t} : pc'[u] = pc[u] /\ arg'[u] = arg[u]
      /\ \A u \in Threads \ {c} : handshake'[u] = handshake[u]
      /\ UNCHANGED <<list, handle, mem, join_state, old_state, tid, cleartid, terminating>>
  BY <1>0, Zenon DEF ReleaseChild, Goto, Set
<1>4. Acts(t, c)
  BY <1>1, <1>2, <1>3, Zenon DEF Acts, SameFields, SameLife, Busy, UsesArg, CreatorHolds
<1>5. /\ \A u \in Threads : ~Creates(u, c)'
      /\ \A u \in Threads : Uses(u, c)' => u # t
      /\ \A u \in Threads : Uses(u, c)' <=> Uses(u, c)
  <2>1. ~Creates(t, c)' /\ ~Uses(t, c)' /\ ~Uses(t, c)
    BY <1>0, <1>1, <1>3, Zenon DEF Creates, Uses, Using, Claimed
  <2>2. \A u \in Threads \ {t} : ~Creates(u, c) /\ (Creates(u, c)' <=> Creates(u, c)) /\ (Uses(u, c)' <=> Uses(u, c))
    BY <1>0, <1>1, <1>3, Zenon DEF OneCall, Creates, Uses
  <2>3. QED
    BY <2>1, <2>2, Zenon
<1>6. OneCall(c)' /\ CreationInStep(c)'
  BY <1>0, <1>5, Zenon DEF OneCall, CreationInStep
<1>7. UseInStep(c)'
  <2> SUFFICES ASSUME NEW u \in Threads, Uses(u, c)'
               PROVE  /\ handle'[c] = "used" /\ mem'[c] = "mapped" /\ pc'[c] # "none"
                      /\ join_state'[c] # "DETACHED"
                      /\ pc'[u] \in Claimed <=> join_state'[c] = "JOINED"
                      /\ pc'[u] \in {"reap", "free"} => pc'[c] = "dead"
                      /\ c \in list' <=> pc'[u] # "free"
    BY Zenon DEF UseInStep
  <2>1. Uses(u, c) /\ u # t
    BY <1>5, Zenon
  <2>2. QED
    BY <1>0, <1>2, <1>3, <2>1, Zenon DEF UseInStep
<1>8. StageInStep(c)'
  BY <1>0, <1>2, <1>3, Zenon DEF StageInStep, Unborn, Alive, Leaving, Ended
<1>9. SomebodyCares(c)'
  BY <1>0, <1>3, <1>5, Zenon DEF SomebodyCares
<1>10. QED
  BY <1>2, <1>3, <1>4, <1>6, <1>7, <1>8, <1>9, Zenon DEF ThreadInv

(***************************************************************************)
(* A valid handle is used for a pthread_join or a pthread_detach.          *)
(***************************************************************************)
LEMMA HandleUsedKeeps ==
  ASSUME TypeOK, NEW t \in Threads, NEW c \in Threads, ThreadInv(c), Join(t, c) \/ Detach(t, c)
  PROVE  Acts(t, c) /\ ThreadInv(c)'
<1>0. /\ pc \in [Threads -> Locations] /\ arg \in [Threads -> Threads \union {None}]
      /\ handle \in [Threads -> {"none", "valid", "used"}] /\ c # None
      /\ StageInStep(c) /\ OneCall(c) /\ UseInStep(c) /\ CreationInStep(c) /\ SomebodyCares(c)
  BY ThreadAssumption, Zenon DEF TypeOK, ThreadInv
<1>1. pc[t] = "user" /\ arg[t] = None /\ handle[c] = "valid"
  BY Zenon DEF Join, Detach, TypeOK, UsesArg, CreatorHolds
<1>2. /\ c \in list /\ mem[c] = "mapped" /\ pc[c] # "none"
      /\ join_state[c] \in {"NOT_JOINED", "EXITED_NOT_JOINED"}
      /\ \A u \in Threads : ~Uses(u, c)
  BY <1>0, <1>1, Zenon DEF SomebodyCares, StageInStep, Unborn, UseInStep
<1>3. /\ pc'[t] \in {"find", "cas", "detach"} /\ arg'[t] = c /\ handle'[c] = "used"
      /\ \A u \in Threads \ {t} : pc'[u] = pc[u] /\ arg'[u] = arg[u]
      /\ \A u \in Threads \ {c} : handle'[u] = handle[u]
      /\ UNCHANGED <<list, mem, handshake, join_state, old_state, tid, cleartid, terminating>>
  BY <1>0, Zenon DEF Join, Detach, Goto, Set, threadVars
<1>4. Acts(t, c)
  BY <1>1, <1>3, Zenon DEF Acts, SameFields, SameLife, Busy, UsesArg
<1>5. /\ Uses(t, c)'
      /\ \A u \in Threads : Uses(u, c)' <=> u = t
      /\ \A u \in Threads : Creates(u, c)' <=> Creates(u, c)
      /\ \A u \in Threads : Creates(u, c) => u # t
  <2>1. Uses(t, c)' /\ ~Creates(t, c)' /\ ~Creates(t, c)
    BY <1>1, <1>3, Zenon DEF Creates, Uses, Creating, Using
  <2>2. \A u \in Threads \ {t} : ~Uses(u, c)' /\ (Creates(u, c)' <=> Creates(u, c))
    BY <1>2, <1>3, Zenon DEF Creates, Uses
  <2>3. QED
    BY <2>1, <2>2, Zenon
<1>6. OneCall(c)'
  BY <1>0, <1>5, Zenon DEF OneCall
<1>7. CreationInStep(c)'
  <2> SUFFICES ASSUME NEW u \in Threads, Creates(u, c)'
               PROVE  /\ handshake'[c] /\ mem'[c] = "mapped"
                      /\ pc'[c] = IF pc'[u] \in {"create", "clone"} THEN "none" ELSE "start"
                      /\ c \in list' <=> pc'[u] = "release"
                      /\ pc'[u] # "release" => handle'[c] = "none"
    BY Zenon DEF CreationInStep
  <2>1. Creates(u, c) /\ u # t
    BY <1>5, Zenon
  <2>2. pc[u] = "release" /\ pc[c] = "start" /\ handshake[c]
    BY <1>0, <1>2, <2>1, Zenon DEF CreationInStep
  <2>3. c # t
    BY <1>1, <2>2, Zenon
  <2>4. QED
    BY <1>2, <1>3, <2>1, <2>2, <2>3, Zenon
<1>8. UseInStep(c)'
  <2>1. pc'[t] \notin Claimed /\ pc'[t] \notin {"reap", "free"} /\ pc'[c] # "none"
    BY <1>2, <1>3, Zenon DEF Claimed
  <2>2. QED
    BY <1>2, <1>3, <1>5, <2>1, Zenon DEF UseInStep
<1>9. StageInStep(c)'
  <2>1. SameLife(c)
    BY <1>3, Zenon DEF SameLife
  <2>2. SameStage(c)
    BY <1>1, <1>3, Zenon DEF SameStage, Busy, UsesArg
  <2>3. QED
    BY <1>0, <1>2, <2>1, <2>2, StageKept, Zenon
<1>10. SomebodyCares(c)'
  BY <1>0, <1>2, <1>3, <1>5, Zenon DEF SomebodyCares
<1>11. QED
  BY <1>2, <1>3, <1>4, <1>6, <1>7, <1>8, <1>9, <1>10, Zenon DEF ThreadInv

(***************************************************************************)
(* What the invariant says of a thread that t joins or detaches.           *)
(***************************************************************************)
LEMMA User ==
  ASSUME TypeOK, NEW t \in Threads, NEW c \in Threads, ThreadInv(c), Uses(t, c)
  PROVE  /\ arg[t] = c /\ c # None /\ pc[t] \in Busy
         /\ \A u \in Threads \ {t} : ~Uses(u, c)
         /\ ~Creates(t, c)
         /\ handle[c] = "used" /\ mem[c] = "mapped" /\ pc[c] # "none"
         /\ c \in list <=> pc[t] # "free"
         /\ pc[t] \in {"reap", "free"} => pc[c] = "dead"
         /\ pc[t] \in Claimed => join_state[c] = "JOINED"
         /\ pc[t] \notin Claimed => join_state[c] \in {"NOT_JOINED", "EXITED_NOT_JOINED"}
<1>1. arg[t] = c /\ c # None /\ pc[t] \in Busy /\ ~Creates(t, c)
  BY ThreadAssumption, Zenon DEF Uses, Creates, Creating, Using, Claimed, Busy, UsesArg
<1>2. \A u \in Threads \ {t} : ~Uses(u, c)
  BY Zenon DEF ThreadInv, OneCall
<1>3. join_state[c] \in JoinStates
  BY Zenon DEF TypeOK
<1>4. QED
  BY <1>1, <1>2, <1>3, Zenon DEF ThreadInv, UseInStep, JoinStates

(***************************************************************************)
(* A step of the call of t that joins or detaches c: what has to be shown  *)
(* is what it means for t's own call, for c's stage and for who is         *)
(* responsible.                                                            *)
(***************************************************************************)
CallMoves(t, c) ==
  /\ arg'[t] \in {None, c} /\ pc'[t] \in Busy \ Creating
  /\ \A u \in Threads \ {t} : pc'[u] = pc[u] /\ arg'[u] = arg[u]
  /\ handle' = handle /\ handshake' = handshake
  /\ \A u \in Threads \ {c} : SameFields(u)
  /\ pc[c] = "dead" \/ (mem'[c] = mem[c] /\ (c \in list' <=> c \in list))

(***************************************************************************)
(* Such a step leaves c with one call at most, and with no pthread_create. *)
(***************************************************************************)
LEMMA CallMovesKeep ==
  ASSUME TypeOK, NEW t \in Threads, NEW c \in Threads, ThreadInv(c), Uses(t, c), CallMoves(t, c)
  PROVE  /\ Acts(t, c) /\ OneCall(c)' /\ CreationInStep(c)'
         /\ Uses(t, c)' => \A u \in Threads : Uses(u, c)' <=> u = t
         /\ ~Uses(t, c)' => UseInStep(c)'
<1>0. /\ arg[t] = c /\ c # None /\ pc[t] \in Busy /\ ~Creates(t, c)
      /\ \A u \in Threads \ {t} : ~Uses(u, c)
  BY User, Zenon
<1>1. Acts(t, c)
  BY <1>0, Zenon DEF Acts, CallMoves
<1>2. /\ \A u \in Threads : Uses(u, c)' => u = t
      /\ \A u \in Threads : Creates(u, c)' <=> Creates(u, c)
      /\ \A u \in Threads : Creates(u, c) => u # t
  <2>1. ~Creates(t, c)'
    BY Zenon DEF CallMoves, Creates
  <2>2. \A u \in Threads \ {t} : ~Uses(u, c)' /\ (Creates(u, c)' <=> Creates(u, c))
    BY <1>0, Zenon DEF CallMoves, Creates, Uses
  <2>3. QED
    BY <1>0, <2>1, <2>2, Zenon
<1>3. OneCall(c)'
  BY <1>2, Zenon DEF ThreadInv, OneCall
<1>4. CreationInStep(c)'
  <2> SUFFICES ASSUME NEW u \in Threads, Creates(u, c)'
               PROVE  /\ handshake'[c] /\ mem'[c] = "mapped"
                      /\ pc'[c] = IF pc'[u] \in {"create", "clone"} THEN "none" ELSE "start"
                      /\ c \in list' <=> pc'[u] = "release"
                      /\ pc'[u] # "release" => handle'[c] = "none"
    BY Zenon DEF CreationInStep
  <2>1. Creates(u, c) /\ u # t
    BY <1>2, Zenon
  <2>2. /\ handshake[c] /\ mem[c] = "mapped"
        /\ pc[c] = IF pc[u] \in {"create", "clone"} THEN "none" ELSE "start"
        /\ c \in list <=> pc[u] = "release"
        /\ pc[u] # "release" => handle[c] = "none"
    BY <2>1, Zenon DEF ThreadInv, CreationInStep
  <2>3. c # t /\ pc[c] # "dead"
    BY <1>0, <2>2, BusyStages, Zenon
  <2>4. QED
    BY <2>1, <2>2, <2>3, Zenon DEF CallMoves
<1>5. QED
  BY <1>1, <1>2, <1>3, <1>4, Zenon DEF UseInStep

(***************************************************************************)
(* pthread_detach finds a thread that has not ended and detaches it.       *)
(***************************************************************************)
LEMMA DetachCasKeeps ==
  ASSUME TypeOK, NEW t \in Threads, NEW c \in Threads, arg[t] = c, ThreadInv(c), DetachCas(t),
         join_state[c] # "EXITED_NOT_JOINED"
  PROVE  Acts(t, c) /\ ThreadInv(c)'
<1>0. /\ pc \in [Threads -> Locations] /\ arg \in [Threads -> Threads \union {None}]
      /\ join_state \in [Threads -> JoinStates] /\ StageInStep(c) /\ SomebodyCares(c) /\ c # None
  BY ThreadAssumption, Zenon DEF TypeOK, ThreadInv
<1>1. Uses(t, c) /\ pc[t] = "cas" /\ pc[t] \notin Claimed
  BY Zenon DEF DetachCas, Uses, Using, Claimed
<1>2. /\ handle[c] = "used" /\ mem[c] = "mapped" /\ pc[c] # "none" /\ c \in list /\ pc[t] \in Busy
      /\ join_state[c] = "NOT_JOINED"
  BY <1>1, User
<1>3. /\ pc'[t] = "user" /\ arg'[t] = None /\ join_state' = [join_state EXCEPT ![c] = "DETACHED"]
      /\ \A u \in Threads \ {t} : pc'[u] = pc[u] /\ arg'[u] = arg[u]
      /\ UNCHANGED <<list, handle, mem, handshake, old_state, tid, cleartid, terminating>>
  BY <1>0, <1>2, Zenon DEF DetachCas, Goto, Set
<1>4. join_state'[c] = "DETACHED" /\ \A u \in Threads \ {c} : join_state'[u] = join_state[u]
  BY <1>0, <1>3, Zenon
<1>5. CallMoves(t, c) /\ ~Uses(t, c)'
  BY <1>0, <1>3, <1>4, Zenon DEF CallMoves, SameFields, SameLife, Busy, Creating, Uses
<1>6. SameStage(c)
  BY <1>2, <1>3, Zenon DEF SameStage, Busy
<1>7. StageInStep(c)'
  <2>1. pc[c] \notin Ended
    BY <1>0, <1>2, Zenon DEF StageInStep, Leaving
  <2>2. /\ pc'[c] \notin Ended /\ pc'[c] # "none"
        /\ pc'[c] = "start" <=> pc[c] = "start"
    BY <1>2, <1>6, <2>1, BusyStages, Zenon DEF SameStage
  <2>3. QED
    BY <1>0, <1>2, <1>3, <1>4, <2>1, <2>2, Zenon DEF StageInStep, Alive, Leaving, Ended
<1>8. SomebodyCares(c)'
  <2>1. \A u \in Threads \ {t} : Creates(u, c) => Creates(u, c)'
    BY <1>3, Zenon DEF Creates
  <2>2. ~Creates(t, c)
    BY <1>1, User, Zenon
  <2>3. QED
    BY <1>0, <1>2, <1>3, <1>4, <2>1, <2>2, Zenon DEF SomebodyCares
<1>9. QED
  BY <1>1, <1>2, <1>3, <1>5, <1>7, <1>8, CallMovesKeep, Zenon DEF ThreadInv

(***************************************************************************)
(* pthread_join claims the thread.                                         *)
(***************************************************************************)
LEMMA ClaimKeeps ==
  ASSUME TypeOK, NEW t \in Threads, NEW c \in Threads, arg[t] = c, ThreadInv(c), Claim(t)
  PROVE  Acts(t, c) /\ ThreadInv(c)'
<1>0. /\ pc \in [Threads -> Locations] /\ join_state \in [Threads -> JoinStates]
      /\ StageInStep(c) /\ SomebodyCares(c)
  BY Zenon DEF TypeOK, ThreadInv
<1>1. Uses(t, c) /\ pc[t] = "claim" /\ pc[t] \notin Claimed
  BY Zenon DEF Claim, Uses, Using, Claimed
<1>2. /\ handle[c] = "used" /\ mem[c] = "mapped" /\ pc[c] # "none" /\ c \in list /\ pc[t] \in Busy
      /\ join_state[c] \in {"NOT_JOINED", "EXITED_NOT_JOINED"}
  BY <1>1, User, Zenon
<1>3. /\ pc'[t] = "wait" /\ arg' = arg /\ join_state' = [join_state EXCEPT ![c] = "JOINED"]
      /\ \A u \in Threads \ {t} : pc'[u] = pc[u]
      /\ UNCHANGED <<list, handle, mem, handshake, old_state, tid, cleartid, terminating>>
  BY <1>0, <1>2, Zenon DEF Claim, Goto, Set
<1>4. join_state'[c] = "JOINED" /\ \A u \in Threads \ {c} : join_state'[u] = join_state[u]
  BY <1>0, <1>3, Zenon
<1>5. CallMoves(t, c) /\ Uses(t, c)' /\ pc'[t] \in Claimed
  BY <1>3, <1>4, Zenon DEF CallMoves, SameFields, SameLife, Busy, UsesArg, Creating, Uses, Using, Claimed
<1>6. /\ pc'[c] = pc[c] \/ (pc[c] \in Busy /\ pc'[c] \in Busy)
  BY <1>2, <1>3, Zenon DEF Busy, UsesArg
<1>7. StageInStep(c)'
  <2>1. CASE pc'[c] = pc[c]
    BY <1>0, <1>2, <1>3, <1>4, <2>1, Zenon DEF StageInStep, Alive, Leaving
  <2>2. CASE pc[c] \in Busy /\ pc'[c] \in Busy
    <3>1. /\ pc[c] \notin {"none", "start", "unmask", "exit", "die", "dead", "untid", "remove", "unmap"}
          /\ pc[c] \notin Ended
          /\ pc'[c] \notin {"none", "start", "unmask", "exit", "die", "dead", "untid", "remove", "unmap"}
          /\ pc'[c] \notin Ended
      BY <2>2, BusyStages, Zenon
    <3>2. QED
      BY <1>0, <1>2, <1>3, <1>4, <3>1, Zenon DEF StageInStep, Alive, Leaving
  <2>3. QED
    BY <1>6, <2>1, <2>2, Zenon
<1>8. UseInStep(c)'
  <2>1. \A u \in Threads : Uses(u, c)' <=> u = t
    BY <1>1, <1>5, CallMovesKeep, Zenon
  <2>2. pc'[c] # "none"
    BY <1>2, <1>6, BusyStages, Zenon
  <2>3. QED
    BY <1>2, <1>3, <1>4, <1>5, <2>1, <2>2, Zenon DEF UseInStep
<1>9. SomebodyCares(c)'
  <2>1. \A u \in Threads \ {t} : Creates(u, c) => Creates(u, c)'
    BY <1>3, Zenon DEF Creates
  <2>2. ~Creates(t, c)
    BY <1>1, User, Zenon
  <2>3. QED
    BY <1>0, <1>2, <1>3, <1>4, <1>5, <2>1, <2>2, Zenon DEF SomebodyCares
<1>10. QED
  BY <1>1, <1>2, <1>3, <1>5, <1>7, <1>8, <1>9, CallMovesKeep, Zenon DEF ThreadInv

(***************************************************************************)
(* Once the thread is dead: pthread_join sees it, takes it off the list    *)
(* and frees it.                                                           *)
(***************************************************************************)
LEMMA ReapKeeps ==
  ASSUME TypeOK, NEW t \in Threads, NEW c \in Threads, arg[t] = c, ThreadInv(c),
         (WaitForExit(t) /\ ~tid[c]) \/ Reap(t) \/ Free(t)
  PROVE  Acts(t, c) /\ ThreadInv(c)'
<1>0. /\ pc \in [Threads -> Locations] /\ arg \in [Threads -> Threads \union {None}]
      /\ mem \in [Threads -> {"none", "mapped", "unmapped"}] /\ c # None
      /\ StageInStep(c) /\ SomebodyCares(c)
  BY ThreadAssumption, Zenon DEF TypeOK, ThreadInv
<1>1. Uses(t, c) /\ pc[t] \in {"wait", "reap", "free"} /\ pc[t] \in Claimed
  BY Zenon DEF WaitForExit, Reap, Free, Uses, Using, Claimed
<1>2. /\ handle[c] = "used" /\ mem[c] = "mapped" /\ pc[c] # "none" /\ pc[t] \in Busy
      /\ c \in list <=> pc[t] # "free"
      /\ pc[t] \in {"reap", "free"} => pc[c] = "dead"
      /\ join_state[c] = "JOINED"
  BY <1>1, User, Zenon
<1>3. /\ \A u \in Threads \ {t} : pc'[u] = pc[u] /\ arg'[u] = arg[u]
      /\ UNCHANGED <<handle, handshake, join_state, old_state, tid, cleartid, terminating>>
      /\ \/ pc[t] = "wait" /\ pc'[t] = "reap" /\ UNCHANGED <<arg, list, mem>> /\ ~tid[c]
         \/ pc[t] = "reap" /\ pc'[t] = "free" /\ UNCHANGED <<arg, mem>> /\ list' = list \ {c}
         \/ /\ pc[t] = "free" /\ pc'[t] = "user" /\ arg'[t] = None
            /\ UNCHANGED list /\ mem' = [mem EXCEPT ![c] = "unmapped"]
  BY <1>0, Zenon DEF WaitForExit, Reap, Free, Goto, Set, threadVars
<1>4. pc[c] = "dead" /\ t # c
  <2>1. CASE pc[t] = "wait"
    BY <1>0, <1>2, <1>3, <2>1, Zenon DEF StageInStep
  <2>2. CASE pc[t] # "wait"
    BY <1>1, <1>2, <2>2, Zenon
  <2>3. QED
    BY <1>1, <2>1, <2>2, Zenon
<1>5. pc'[c] = "dead" /\ cleartid[c] /\ old_state[c] # "DETACHED"
  BY <1>0, <1>2, <1>3, <1>4, Zenon DEF StageInStep, Leaving, Ended
<1>6. CallMoves(t, c)
  BY <1>0, <1>3, <1>4, Zenon DEF CallMoves, SameFields, SameLife, Busy, UsesArg, Creating
<1>7. CASE pc[t] # "free"
  <2>1. /\ Uses(t, c)' /\ mem' = mem /\ pc'[t] \in Claimed
        /\ c \in list' <=> pc'[t] # "free"
    BY <1>1, <1>2, <1>3, <1>7, Zenon DEF Uses, Using, Claimed
  <2>2. \A u \in Threads : Uses(u, c)' <=> u = t
    BY <1>1, <1>6, <2>1, CallMovesKeep
  <2>3. UseInStep(c)'
    BY <1>2, <1>3, <1>5, <2>1, <2>2, Zenon DEF UseInStep
  <2>4. StageInStep(c)'
    BY <1>0, <1>2, <1>3, <1>4, <1>5, <2>1, Zenon DEF StageInStep, Alive, Leaving
  <2>5. ~handshake[c]
    BY <1>0, <1>4, Zenon DEF StageInStep, Alive
  <2>6. SomebodyCares(c)'
    BY <1>2, <1>3, <2>1, <2>5, Zenon DEF SomebodyCares
  <2>7. QED
    BY <1>1, <1>2, <1>6, <2>1, <2>3, <2>4, <2>6, CallMovesKeep, Zenon DEF ThreadInv
<1>8. CASE pc[t] = "free"
  <2>1. ~Uses(t, c)' /\ mem'[c] = "unmapped" /\ c \notin list' /\ arg'[t] # c
    BY <1>0, <1>2, <1>3, <1>8, Zenon DEF Uses
  <2>2. StageInStep(c)' /\ ~handshake[c]
    BY <1>0, <1>2, <1>3, <1>4, <1>5, <2>1, Zenon DEF StageInStep, Alive, Leaving
  <2>3. SomebodyCares(c)'
    BY <1>2, <1>3, <2>1, <2>2, Zenon DEF SomebodyCares
  <2>4. \A u \in Threads \ {t} : ~Uses(u, c) /\ ~Creates(u, c)
    BY <1>1, <1>4, User, Zenon DEF ThreadInv, CreationInStep
  <2>5. \A u \in Threads \ {t} : arg[u] # c
    BY <1>0, <2>4, Zenon DEF TypeOK, Creates, Uses, Creating, Using, Claimed, UsesArg, CreatorHolds
  <2>6. OutOfUse(c)'
    BY <1>3, <1>5, <2>1, <2>5 DEF OutOfUse
  <2>7. QED
    BY <1>1, <1>6, <2>1, <2>2, <2>3, <2>6, CallMovesKeep, Zenon DEF ThreadInv
<1>9. QED
  BY <1>7, <1>8, Zenon

(***************************************************************************)
(* The steps of android_run_on_all_threads and of the remapping, and those *)
(* with which a create, join or detach only goes on, are quiet.            *)
(***************************************************************************)
LEMMA QuietSteps ==
  ASSUME TypeOK, NEW t \in Threads,
         \/ LockCreation(t) \/ CreateReturns(t) \/ RunOnAll(t) \/ RunLock(t) \/ RunSelf(t) \/ Send(t)
         \/ Handle(t) \/ Collect(t) \/ RunReturns(t) \/ RemapStackWithMte(t)
         \/ Find(t) /\ arg[t] \in list
         \/ DetachCas(t) /\ join_state[arg[t]] = "EXITED_NOT_JOINED"
         \/ WaitForExit(t) /\ tid[arg[t]]
  PROVE  Quiet
<1>0. pc \in [Threads -> Locations]
  BY Zenon DEF TypeOK
<1>1. /\ UNCHANGED <<arg, list, handle, threadVars>>
      /\ pc' = pc \/ \E l : pc' = [pc EXCEPT ![t] = l]
  BY Zenon DEF LockCreation, CreateReturns, RunOnAll, RunLock, RunSelf, Send, Handle, Collect, RunReturns,
       RemapStackWithMte, Find, DetachCas, WaitForExit, threadVars, Goto
<1>2. \A u \in Threads \ {t} : pc'[u] = pc[u]
  BY <1>0, <1>1, Zenon
<1>3. \/ pc'[t] = pc[t]
      \/ pc[t] \in Busy \ UsesArg /\ pc'[t] \in Busy \ UsesArg
      \/ pc[t] = "create" /\ pc'[t] = "clone"
      \/ pc[t] \in {"wait", "asleep"} /\ pc'[t] \in {"wait", "asleep"}
      \/ pc[t] \in Using \ Claimed /\ pc'[t] \in Using \ Claimed
  <2>1. CASE LockCreation(t) \/ Handle(t) \/ RemapStackWithMte(t) \/ (WaitForExit(t) /\ tid[arg[t]])
    BY <1>0, <2>1, Zenon DEF LockCreation, Handle, RemapStackWithMte, WaitForExit, Goto
  <2>2. CASE (Find(t) /\ arg[t] \in list) \/ (DetachCas(t) /\ join_state[arg[t]] = "EXITED_NOT_JOINED")
    BY <1>0, <2>2, Zenon DEF Find, DetachCas, Goto, Using, Claimed
  <2>3. CASE \/ CreateReturns(t) \/ RunOnAll(t) \/ RunLock(t) \/ RunSelf(t) \/ Send(t)
             \/ Collect(t) \/ RunReturns(t)
    <3>1. /\ pc[t] \in {"created", "user", "run"} \union RunnerHolds
          /\ pc'[t] = pc[t] \/ pc'[t] \in {"created", "user", "run"} \union RunnerHolds
      BY <1>0, <2>3, Zenon DEF CreateReturns, RunOnAll, RunLock, RunSelf, Send, Collect, RunReturns, Goto, RunnerHolds
    <3>2. QED
      BY <3>1, Zenon DEF Busy, UsesArg, CreatorHolds, RunnerHolds
  <2>4. QED
    BY <2>1, <2>2, <2>3, Zenon
<1>4. QED
  BY <1>1, <1>2, <1>3, Zenon DEF Quiet

(***************************************************************************)
(* Every step keeps what the invariant says of every thread.               *)
(***************************************************************************)
Kept == MainStays' /\ \A c \in Threads : ThreadInv(c)'

(***************************************************************************)
(* Quiet steps do.                                                         *)
(***************************************************************************)
LEMMA KeptByQuiet ==
  ASSUME TypeOK, MainStays, \A c \in Threads : ThreadInv(c), Quiet
  PROVE  Kept
<1>1. MainStays'
  BY ThreadAssumption, Zenon DEF MainStays, Quiet, Busy, UsesArg, CreatorHolds, RunnerHolds, Using, Ended
<1>2. \A c \in Threads : ThreadInv(c)'
  BY QuietKeeps, Zenon
<1>3. QED
  BY <1>1, <1>2, Zenon DEF Kept

(***************************************************************************)
(* A step of x about a does when a ends up in step: nobody else notices    *)
(* it.                                                                     *)
(***************************************************************************)
LEMMA KeptByAct ==
  ASSUME TypeOK, MainStays, \A c \in Threads : ThreadInv(c), NEW x \in Threads, NEW a \in Threads,
         Acts(x, a), ThreadInv(a)', Main \in {x, a} => SameStage(Main)
  PROVE  Kept
<1>1. MainStays'
  <2>1. pc'[Main] = pc[Main] \/ pc'[Main] \in Busy \/ pc'[Main] = "wait"
    BY ThreadAssumption, Zenon DEF Acts, SameStage
  <2>2. QED
    BY <2>1, BusyStages, Zenon DEF MainStays, Ended
<1>2. ASSUME NEW c \in Threads PROVE ThreadInv(c)'
  <2>1. CASE c = a
    BY <2>1, Zenon
  <2>2. CASE c # a
    BY <2>2, OthersKept, Zenon
  <2>3. QED
    BY <2>1, <2>2, Zenon
<1>3. QED
  BY <1>1, <1>2, Zenon DEF Kept

(***************************************************************************)
(* All steps of pthread_create, pthread_exit, pthread_join, pthread_detach *)
(* and of android_run_on_all_threads do.                                   *)
(***************************************************************************)
LEMMA NextThreads ==
  ASSUME TypeOK, TypeOK', MainStays, \A c \in Threads : ThreadInv(c), [Next]_vars
  PROVE  Kept
<1>0. MainStays => /\ pc[Main] \notin {"none", "start", "unmask", "exit", "exitlock", "term", "mask", "untid",
                                       "remove", "unmap", "die"}
  BY Zenon DEF MainStays, Ended
<1>1. ASSUME NEW t \in Threads, NEW c \in Threads, Create(t, c) \/ Join(t, c) \/ Detach(t, c) PROVE Kept
  <2>1. Acts(t, c) /\ ThreadInv(c)'
    BY <1>1, CreateKeeps, HandleUsedKeeps, Zenon
  <2>2. pc[t] = "user" /\ pc'[t] \in {"create", "find", "cas", "detach"} /\ \A u \in Threads \ {t} : pc'[u] = pc[u]
    BY <1>1, Zenon DEF TypeOK, Create, Join, Detach, Goto
  <2>3. SameStage(Main)
    BY <2>2, ThreadAssumption DEF SameStage, Busy, UsesArg
  <2>4. QED
    BY <2>1, <2>3, KeptByAct, Zenon
<1>2. ASSUME NEW t \in Threads,
             \/ Start(t) \/ Unmask(t) \/ Exit(t) \/ MarkExited(t) \/ LockForExit(t) \/ SetTerminating(t)
             \/ BlockSignals(t) \/ ForgetTid(t) \/ RemoveSelf(t) \/ Unmap(t) \/ Die(t)
      PROVE  Kept
  <2>1. Lives(t) /\ StageInStep(t)'
    BY <1>2, LivesOn, DieKeeps, Zenon
  <2>2. Acts(t, t) /\ ThreadInv(t)'
    BY <2>1, LifeKept, Zenon DEF Lives
  <2>3. t # Main
    BY <1>0, <1>2, Zenon DEF Start, Unmask, Exit, MarkExited, LockForExit, SetTerminating, BlockSignals,
         ForgetTid, RemoveSelf, Unmap, Die
  <2>4. QED
    BY <2>2, <2>3, KeptByAct, Zenon
<1>3. ASSUME NEW t \in Threads,
             \/ LockCreation(t) \/ CreateReturns(t) \/ RunOnAll(t) \/ RunLock(t) \/ RunSelf(t) \/ Send(t)
             \/ Handle(t) \/ Collect(t) \/ RunReturns(t) \/ RemapStackWithMte(t)
      PROVE  Kept
  BY <1>3, QuietSteps, KeptByQuiet, Zenon
<1>a. ASSUME NEW t \in Threads, pc[t] \in UsesArg
      PROVE  /\ arg[t] \in Threads /\ (pc[t] \in Creating => Creates(t, arg[t]))
             /\ pc[t] \in Using => Uses(t, arg[t])
  BY <1>a, Zenon DEF TypeOK, Creates, Uses
<1>4. ASSUME NEW t \in Threads, Clone(t) \/ InitThread(t) \/ Add(t) \/ ReleaseChild(t) PROVE Kept
  <2>1. pc[t] \in {"clone", "init", "add", "release"}
    BY <1>4, Zenon DEF Clone, InitThread, Add, ReleaseChild
  <2>2. arg[t] \in Threads /\ Creates(t, arg[t])
    BY <1>a, <2>1, Zenon DEF UsesArg, CreatorHolds, Creating
  <2>3. PICK c \in Threads : arg[t] = c
    BY <2>2, Zenon
  <2>4. Acts(t, c) /\ ThreadInv(c)'
    <3>1. CASE Clone(t)
      BY <2>3, <3>1, CloneCases, ClonedKeeps, CloneFailsKeeps, Zenon
    <3>2. CASE InitThread(t) \/ Add(t) \/ ReleaseChild(t)
      BY <2>3, <3>2, InitThreadKeeps, AddKeeps, ReleaseKeeps, Zenon
    <3>3. QED
      BY <1>4, <3>1, <3>2, Zenon
  <2>5. c # Main
    BY <1>0, <2>2, <2>3 DEF ThreadInv, CreationInStep
  <2>6. Main = t => SameStage(Main)
    BY <2>1, <2>4, <2>5, Zenon DEF Acts, SameStage
  <2>7. QED
    BY <2>4, <2>5, <2>6, KeptByAct, Zenon
<1>5. ASSUME NEW t \in Threads, Find(t) \/ DetachCas(t) \/ Claim(t) \/ WaitForExit(t) \/ Reap(t) \/ Free(t)
      PROVE  Kept
  <2>1. pc[t] \in {"find", "detach", "cas", "claim", "wait", "reap", "free"}
    BY <1>5, Zenon DEF Find, DetachCas, Claim, WaitForExit, Reap, Free
  <2>2. arg[t] \in Threads /\ Uses(t, arg[t])
    BY <1>a, <2>1, Zenon DEF UsesArg, Using, Claimed
  <2>3. PICK c \in Threads : arg[t] = c
    BY <2>2, Zenon
  <2>4. c \in list <=> pc[t] # "free"
    BY <2>2, <2>3, User, Zenon
  <2>5. CASE \/ Find(t) /\ arg[t] \in list
             \/ DetachCas(t) /\ join_state[arg[t]] = "EXITED_NOT_JOINED"
             \/ WaitForExit(t) /\ tid[arg[t]]
    BY <2>5, QuietSteps, KeptByQuiet, Zenon
  <2>6. CASE \/ DetachCas(t) /\ join_state[arg[t]] # "EXITED_NOT_JOINED"
             \/ Claim(t) \/ (WaitForExit(t) /\ ~tid[arg[t]]) \/ Reap(t) \/ Free(t)
    <3>1. Acts(t, c) /\ ThreadInv(c)'
      BY <2>3, <2>6, DetachCasKeeps, ClaimKeeps, ReapKeeps, Zenon
    <3>2. \A u \in Threads \ {t} : pc'[u] = pc[u]
      BY <2>6 DEF TypeOK, DetachCas, Claim, WaitForExit, Reap, Free, Goto
    <3>3. pc[t] \in Busy /\ pc'[t] \in Busy
      <4>1. pc'[t] \in {"user", "find", "wait", "asleep", "reap", "free"}
        BY <2>6 DEF TypeOK, DetachCas, Claim, WaitForExit, Reap, Free, Goto
      <4>2. QED
        BY <2>1, <4>1, Zenon DEF Busy, UsesArg
    <3>4. SameStage(Main)
      BY <3>2, <3>3, ThreadAssumption, Zenon DEF SameStage
    <3>5. QED
      BY <3>1, <3>4, KeptByAct, Zenon
  <2>7. Find(t) => arg[t] \in list
    BY <2>3, <2>4, Zenon DEF Find
  <2>8. QED
    BY <1>5, <2>5, <2>6, <2>7, Zenon
<1>6. CASE UNCHANGED vars
  <2>1. Quiet
    BY <1>6, Zenon DEF vars, Quiet
  <2>2. QED
    BY <2>1, KeptByQuiet, Zenon
<1>7. QED
  BY <1>1, <1>2, <1>3, <1>4, <1>5, <1>6, Zenon DEF Next, Progress

(***************************************************************************)
(* The locks: pc changes by one thread at a time, which takes the creation *)
(* lock only when nobody holds it against the thread.                      *)
(***************************************************************************)
Readers == CreatorHolds \union {"term", "mask"}

(***************************************************************************)
(* android_run_on_all_threads holds the creation lock alone.               *)
(***************************************************************************)
LEMMA NextExcludes ==
  ASSUME TypeOK, RunExcludes, \A c \in Threads : ThreadInv(c), [Next]_vars
  PROVE  RunExcludes'
<1>0. pc \in [Threads -> Locations]
  BY Zenon DEF TypeOK
<1>k. ASSUME NEW x \in Threads,
             \A t \in Threads \ {x} : pc'[t] = pc[t] \/ pc'[t] \notin RunnerHolds \union Readers,
             pc'[x] \in RunnerHolds => pc[x] \in RunnerHolds \/ CreationFreeForWriter,
             pc'[x] \in Readers => pc[x] \in Readers \/ CreationFreeForReader
      PROVE  RunExcludes'
  <2>1. SUFFICES ASSUME NEW t \in Threads, NEW u \in Threads, pc'[t] \in RunnerHolds,
                        pc'[u] \in RunnerHolds \union Readers, t # u
                 PROVE  FALSE
    BY Zenon DEF RunExcludes, Readers
  <2>2. CASE t = x
    <3>1. pc'[u] = pc[u]
      BY <1>k, <2>1, <2>2, Zenon
    <3>2. QED
      BY <1>k, <2>1, <2>2, <3>1, Zenon DEF RunExcludes, CreationFreeForWriter, At, Readers
  <2>3. CASE u = x
    <3>1. pc'[t] = pc[t]
      BY <1>k, <2>1, <2>3, Zenon
    <3>2. QED
      BY <1>k, <2>1, <2>3, <3>1, Zenon DEF RunExcludes, CreationFreeForWriter, CreationFreeForReader, At, Readers
  <2>4. CASE t # x /\ u # x
    BY <1>k, <2>1, <2>4, Zenon DEF RunExcludes, Readers
  <2>5. QED
    BY <2>2, <2>3, <2>4, Zenon
<1>1. ASSUME NEW t \in Threads, LockCreation(t) \/ LockForExit(t) \/ RunLock(t) PROVE RunExcludes'
  <2>1. /\ \A u \in Threads \ {t} : pc'[u] = pc[u]
        /\ \/ pc'[t] \in {"clone", "term"} /\ CreationFreeForReader
           \/ pc'[t] = "self" /\ CreationFreeForWriter
    BY <1>0, <1>1, Zenon DEF LockCreation, LockForExit, RunLock, Goto
  <2>2. QED
    BY <1>k, <2>1, Zenon DEF Readers, RunnerHolds, CreatorHolds
<1>2. ASSUME NEW t \in Threads, Clone(t) PROVE RunExcludes'
  <2>1. CASE Cloned(t)
    <3>1. arg[t] # t
      BY <2>1, Unheard, Zenon DEF TypeOK, Cloned, Creates, Creating, UsesArg, CreatorHolds
    <3>2. pc[t] = "clone" /\ pc'[t] = "init" /\ \A u \in Threads \ {t} : pc'[u] \in {pc[u], "start"}
      BY <1>0, <2>1, <3>1, Zenon DEF Cloned
    <3>3. QED
      BY <1>k, <3>2, Zenon DEF Readers, RunnerHolds, CreatorHolds
  <2>2. CASE CloneFails(t)
    <3>1. pc'[t] = "user" /\ \A u \in Threads \ {t} : pc'[u] = pc[u]
      BY <1>0, <2>2, Zenon DEF CloneFails, Goto
    <3>2. QED
      BY <1>k, <3>1, Zenon DEF Readers, RunnerHolds, CreatorHolds
  <2>3. QED
    BY <1>2, <2>1, <2>2, CloneCases, Zenon
<1>3. ASSUME NEW t \in Threads, Die(t) PROVE RunExcludes'
  <2>1. pc'[t] = "dead" /\ \A u \in Threads \ {t} : pc'[u] = pc[u] \/ pc'[u] = "wait"
    BY <1>3, Zenon DEF Die
  <2>2. QED
    BY <1>k, <2>1, Zenon DEF Readers, RunnerHolds, CreatorHolds
<1>4. ASSUME NEW t \in Threads, InitThread(t) \/ Add(t) \/ ReleaseChild(t) \/ SetTerminating(t)
                                \/ RunSelf(t) \/ Send(t) \/ Collect(t)
      PROVE  RunExcludes'
  <2>1. /\ \A u \in Threads \ {t} : pc'[u] = pc[u]
        /\ \/ pc'[t] = pc[t]
           \/ pc[t] \in {"init", "add", "release", "term"} /\ pc'[t] \in {"add", "release", "created", "mask"}
           \/ pc[t] \in {"self", "send", "collect"} /\ pc'[t] \in {"user", "send", "collect", "restore"}
    BY <1>0, <1>4, Zenon DEF InitThread, Add, ReleaseChild, SetTerminating, RunSelf, Send, Collect, Goto
  <2>2. QED
    BY <1>k, <2>1, Zenon DEF Readers, RunnerHolds, CreatorHolds
<1>5. ASSUME NEW t \in Threads, NEW l \in Locations \ (RunnerHolds \union Readers), Goto(t, l)
      PROVE  RunExcludes'
  <2>1. pc'[t] = l /\ \A u \in Threads \ {t} : pc'[u] = pc[u]
    BY <1>0, <1>5, Zenon DEF Goto
  <2>2. QED
    BY <1>k, <1>5, <2>1, Zenon
<1>l. {"user", "create", "unmask", "exit", "exitlock", "untid", "die", "remove", "unmap", "find", "cas",
       "detach", "claim", "wait", "asleep", "reap", "free", "run"} \subseteq Locations \ (RunnerHolds \union Readers)
  BY Zenon DEF Locations, RunnerHolds, CreatorHolds, UsesArg, Readers
<1>6. ASSUME NEW t \in Threads, \/ CreateReturns(t) \/ Start(t) \/ Unmask(t) \/ Exit(t) \/ MarkExited(t)
                                \/ BlockSignals(t) \/ ForgetTid(t) \/ RemoveSelf(t) \/ Unmap(t)
      PROVE  RunExcludes'
  <2>1. \E l \in {"user", "create", "unmask", "exit", "exitlock", "untid", "die", "remove", "unmap"} : Goto(t, l)
    BY <1>6, Zenon DEF CreateReturns, Start, Unmask, Exit, MarkExited, BlockSignals, ForgetTid, RemoveSelf, Unmap
  <2>2. QED
    BY <1>5, <1>l, <2>1, Zenon
<1>7. ASSUME NEW t \in Threads, \/ Find(t) \/ DetachCas(t) \/ Claim(t) \/ WaitForExit(t) \/ Reap(t) \/ Free(t)
                                \/ RunOnAll(t) \/ RunReturns(t)
                                \/ \E c \in Threads : Create(t, c) \/ Join(t, c) \/ Detach(t, c)
      PROVE  RunExcludes'
  <2>1. \E l \in {"user", "create", "find", "cas", "detach", "claim", "wait", "asleep", "reap", "free", "run"} : Goto(t, l)
    BY <1>7, Zenon DEF Find, DetachCas, Claim, WaitForExit, Reap, Free, RunOnAll, RunReturns, Create, Join, Detach
  <2>2. QED
    BY <1>5, <1>l, <2>1, Zenon
<1>8. ASSUME NEW t \in Threads, Handle(t) PROVE RunExcludes'
  <2>1. pc'[t] \in {pc[t], "wait"} /\ \A u \in Threads \ {t} : pc'[u] = pc[u]
    BY <1>0, <1>8, Zenon DEF Handle, Goto
  <2>2. QED
    BY <1>k, <2>1, Zenon DEF Readers, RunnerHolds, CreatorHolds
<1>9. ASSUME pc' = pc PROVE RunExcludes'
  BY <1>9, Zenon DEF RunExcludes
<1>10. QED
  <2>1. (\E t \in Threads : RemapStackWithMte(t)) \/ UNCHANGED vars => pc' = pc
    BY Zenon DEF RemapStackWithMte, vars
  <2>2. QED
    BY <1>1, <1>2, <1>3, <1>4, <1>6, <1>7, <1>8, <1>9, <2>1, Zenon DEF Next, Progress

(***************************************************************************)
(* While nobody is being created under the creation lock, every thread     *)
(* that is not on its way out is in the list.                              *)
(***************************************************************************)
LEMMA EveryoneListed ==
  ASSUME NEW u \in Threads, ThreadInv(u), pc[u] \notin {"none", "dead"}, ~terminating[u],
         \A t \in Threads : pc[t] \notin {"init", "add", "release"}
  PROVE  u \in list
<1>1. ~handshake[u]
  <2>1. SUFFICES ASSUME NEW t \in Threads, Creates(t, u) PROVE FALSE
    BY Zenon DEF ThreadInv, SomebodyCares
  <2>2. pc[u] = IF pc[t] \in {"create", "clone"} THEN "none" ELSE "start"
    BY <2>1, Zenon DEF ThreadInv, CreationInStep
  <2>3. QED
    BY <2>1, <2>2, Zenon DEF Creates, Creating
<1>2. Alive(u) /\ pc[u] \notin {"unmap", "die"}
  BY Zenon DEF ThreadInv, StageInStep, Ended
<1>3. QED
  BY <1>1, <1>2, Zenon DEF Alive

(***************************************************************************)
(* Steps that have nothing to do with the ring buffers.                    *)
(***************************************************************************)
RingsStill ==
  /\ UNCHANGED mteVars
  /\ \A t \in Threads :
       /\ pc'[t] \in Creating \ {"create"} => pc[t] \in Creating \ {"create"} /\ arg'[t] = arg[t]
       /\ pc'[t] = "none" => pc[t] = "none"
       /\ pc'[t] \notin {"none", "dead"} => pc[t] \notin {"none", "dead"}
       /\ pc'[t] = "start" <=> pc[t] = "start"
       /\ terminating[t] => terminating'[t]

(***************************************************************************)
(* Such a step keeps the ring buffers in step.                             *)
(***************************************************************************)
LEMMA RingsStillKeeps ==
  ASSUME RingsInStep, RingsStill
  PROVE  RingsInStep'
<1>1. memtag_abi' = memtag_abi /\ should_allocate' = should_allocate /\ rings' = rings
  BY Zenon DEF RingsStill, mteVars
<1>2. ASSUME NEW t \in Threads, pc'[t] \in Creating \ {"create"}
      PROVE  should_allocate'[arg'[t]] = memtag_abi'
  <2>1. pc[t] \in Creating \ {"create"} /\ arg'[t] = arg[t]
    BY <1>2, Zenon DEF RingsStill
  <2>2. QED
    BY <1>1, <2>1, Zenon DEF RingsInStep
<1>3. ASSUME NEW c \in Threads
      PROVE  /\ ~memtag_abi' \/ pc'[c] = "none" => rings'[c] = 0
             /\ ~memtag_abi' => ~should_allocate'[c]
             /\ memtag_abi' /\ pc'[c] \notin {"none", "dead"} /\ ~terminating'[c] =>
                  rings'[c] = IF should_allocate'[c] /\ pc'[c] = "start" THEN 0 ELSE 1
  <2>1. /\ pc'[c] = "none" => pc[c] = "none"
        /\ pc'[c] \notin {"none", "dead"} => pc[c] \notin {"none", "dead"}
        /\ pc'[c] = "start" <=> pc[c] = "start"
        /\ terminating[c] => terminating'[c]
    BY Zenon DEF RingsStill
  <2>2. /\ ~memtag_abi \/ pc[c] = "none" => rings[c] = 0
        /\ ~memtag_abi => ~should_allocate[c]
        /\ memtag_abi /\ pc[c] \notin {"none", "dead"} /\ ~terminating[c] =>
             rings[c] = IF should_allocate[c] /\ pc[c] = "start" THEN 0 ELSE 1
    BY Zenon DEF RingsInStep
  <2>3. QED
    BY <1>1, <2>1, <2>2, Zenon
<1>4. QED
  BY <1>2, <1>3, Zenon DEF RingsInStep

(***************************************************************************)
(* A thread about to be cloned is told under the creation lock,            *)
(***************************************************************************)
LEMMA LockCreationRings ==
  ASSUME TypeOK, \A c \in Threads : ThreadInv(c), RingsInStep, NEW t \in Threads, LockCreation(t)
  PROVE  RingsInStep'
<1>0. /\ pc \in [Threads -> Locations] /\ should_allocate \in [Threads -> BOOLEAN] /\ memtag_abi \in BOOLEAN
      /\ arg \in [Threads -> Threads \union {None}]
  BY Zenon DEF TypeOK
<1>1. pc[t] = "create" /\ arg[t] \in Threads /\ Creates(t, arg[t])
  BY Zenon DEF LockCreation, TypeOK, UsesArg, Creates, Creating
<1>2. PICK c \in Threads : arg[t] = c
  BY <1>1, Zenon
<1>3. pc[c] = "none" /\ \A u \in Threads \ {t} : arg[u] # c
  BY <1>1, <1>2, Unheard
<1>4. /\ pc'[t] = "clone" /\ \A u \in Threads \ {t} : pc'[u] = pc[u]
      /\ should_allocate'[c] = memtag_abi /\ \A u \in Threads \ {c} : should_allocate'[u] = should_allocate[u]
      /\ UNCHANGED <<arg, memtag_abi, rings, terminating>>
  BY <1>0, <1>2, Zenon DEF LockCreation, Goto, Set, threadVars
<1>5. ASSUME NEW u \in Threads, pc'[u] \in Creating \ {"create"}
      PROVE  should_allocate'[arg'[u]] = memtag_abi'
  <2>1. CASE u = t
    BY <1>2, <1>4, <2>1, Zenon
  <2>2. CASE u # t
    <3>1. arg[u] \in Threads \ {c} /\ pc'[u] = pc[u]
      BY <1>3, <1>4, <1>5, <2>2 DEF TypeOK, UsesArg, CreatorHolds, Creating
    <3>2. should_allocate[arg[u]] = memtag_abi
      BY <1>5, <3>1, Zenon DEF RingsInStep
    <3>3. QED
      BY <1>4, <3>1, <3>2, Zenon
  <2>3. QED
    BY <2>1, <2>2, Zenon
<1>6. ASSUME NEW u \in Threads
      PROVE  /\ ~memtag_abi' \/ pc'[u] = "none" => rings'[u] = 0
             /\ ~memtag_abi' => ~should_allocate'[u]
             /\ memtag_abi' /\ pc'[u] \notin {"none", "dead"} /\ ~terminating'[u] =>
                  rings'[u] = IF should_allocate'[u] /\ pc'[u] = "start" THEN 0 ELSE 1
  <2>1. /\ pc'[u] = pc[u] \/ (pc[u] = "create" /\ pc'[u] = "clone")
        /\ u = c => pc'[u] = "none"
    BY <1>1, <1>3, <1>4, Zenon
  <2>2. QED
    BY <1>4, <2>1, Zenon DEF RingsInStep
<1>7. QED
  BY <1>5, <1>6, Zenon DEF RingsInStep

(***************************************************************************)
(* so that a new thread owes a ring buffer or has one,                     *)
(***************************************************************************)
LEMMA ClonedRings ==
  ASSUME TypeOK, \A c \in Threads : ThreadInv(c), RingsInStep, NEW t \in Threads, Cloned(t)
  PROVE  RingsInStep'
<1>0. pc \in [Threads -> Locations]
  BY Zenon DEF TypeOK
<1>1. pc[t] = "clone" /\ arg[t] \in Threads /\ Creates(t, arg[t])
  BY DEF Cloned, TypeOK, UsesArg, CreatorHolds, Creates, Creating
<1>2. PICK c \in Threads : arg[t] = c
  BY <1>1, Zenon
<1>3. pc[c] = "none" /\ c # t
  BY <1>1, <1>2, Unheard
<1>4. /\ pc'[t] = "init" /\ pc'[c] = "start" /\ \A u \in Threads \ {t, c} : pc'[u] = pc[u]
      /\ UNCHANGED <<arg, should_allocate, memtag_abi, rings, terminating>>
  BY <1>0, <1>2, <1>3, Zenon DEF Cloned, mteVars
<1>5. should_allocate[c] = memtag_abi /\ rings[c] = 0
  BY <1>1, <1>2, <1>3, Zenon DEF RingsInStep, Creating
<1>6. ASSUME NEW u \in Threads, pc'[u] \in Creating \ {"create"}
      PROVE  should_allocate'[arg'[u]] = memtag_abi'
  <2>1. pc[u] \in Creating \ {"create"}
    BY <1>1, <1>4, <1>6, Zenon DEF Creating
  <2>2. QED
    BY <1>4, <2>1, Zenon DEF RingsInStep
<1>7. ASSUME NEW u \in Threads
      PROVE  /\ ~memtag_abi' \/ pc'[u] = "none" => rings'[u] = 0
             /\ ~memtag_abi' => ~should_allocate'[u]
             /\ memtag_abi' /\ pc'[u] \notin {"none", "dead"} /\ ~terminating'[u] =>
                  rings'[u] = IF should_allocate'[u] /\ pc'[u] = "start" THEN 0 ELSE 1
  <2>1. CASE u = c
    BY <1>4, <1>5, <2>1, Zenon
  <2>2. CASE u # c
    <3>1. pc'[u] = pc[u] \/ (pc[u] = "clone" /\ pc'[u] = "init")
      BY <1>1, <1>4, <2>2, Zenon
    <3>2. QED
      BY <1>4, <3>1, Zenon DEF RingsInStep
  <2>3. QED
    BY <2>1, <2>2, Zenon
<1>8. QED
  BY <1>6, <1>7, Zenon DEF RingsInStep

(***************************************************************************)
(* which it allocates when it starts.                                      *)
(***************************************************************************)
LEMMA StartRings ==
  ASSUME TypeOK, RingsInStep, NEW c \in Threads, Start(c), ThreadInv(c)
  PROVE  RingsInStep'
<1>0. /\ pc \in [Threads -> Locations] /\ rings \in [Threads -> Nat] /\ rings[c] \in Nat
  BY Zenon DEF TypeOK
<1>1. /\ pc[c] = "start" /\ pc'[c] = "unmask" /\ \A u \in Threads \ {c} : pc'[u] = pc[u]
      /\ \A u \in Threads \ {c} : rings'[u] = rings[u]
      /\ rings'[c] = IF should_allocate[c] THEN rings[c] + 1 ELSE rings[c]
      /\ UNCHANGED <<arg, should_allocate, memtag_abi, terminating>>
  BY <1>0, Zenon DEF Start, Goto, Set, threadVars
<1>2. ~terminating[c]
  BY <1>1, Zenon DEF ThreadInv, StageInStep, Ended
<1>3. ASSUME NEW u \in Threads, pc'[u] \in Creating \ {"create"}
      PROVE  should_allocate'[arg'[u]] = memtag_abi'
  <2>1. pc[u] \in Creating \ {"create"}
    BY <1>1, <1>3, Zenon DEF Creating
  <2>2. QED
    BY <1>1, <2>1, Zenon DEF RingsInStep
<1>4. ASSUME NEW u \in Threads
      PROVE  /\ ~memtag_abi' \/ pc'[u] = "none" => rings'[u] = 0
             /\ ~memtag_abi' => ~should_allocate'[u]
             /\ memtag_abi' /\ pc'[u] \notin {"none", "dead"} /\ ~terminating'[u] =>
                  rings'[u] = IF should_allocate'[u] /\ pc'[u] = "start" THEN 0 ELSE 1
  <2>1. CASE u = c
    <3>1. /\ ~memtag_abi => rings[c] = 0 /\ ~should_allocate[c]
          /\ memtag_abi => rings[c] = IF should_allocate[c] THEN 0 ELSE 1
      BY <1>1, <1>2, Zenon DEF RingsInStep
    <3>2. QED
      BY <1>0, <1>1, <2>1, <3>1
  <2>2. CASE u # c
    BY <1>1, <2>2, Zenon DEF RingsInStep
  <2>3. QED
    BY <2>1, <2>2, Zenon
<1>5. QED
  BY <1>3, <1>4, Zenon DEF RingsInStep

(***************************************************************************)
(* The switch finds all threads in the list, and none of them with a       *)
(* buffer or about to allocate one.                                        *)
(***************************************************************************)
LEMMA RemapRings ==
  ASSUME TypeOK, \A c \in Threads : ThreadInv(c), RingsInStep, NEW t \in Threads, RemapStackWithMte(t)
  PROVE  RingsInStep'
<1>1. /\ ~memtag_abi /\ memtag_abi' /\ UNCHANGED <<pc, arg, list, should_allocate, terminating>>
      /\ \A u \in Threads : rings'[u] = IF u \in list /\ ~terminating[u] /\ ~should_allocate[u]
                                        THEN rings[u] + 1 ELSE rings[u]
  BY Zenon DEF RemapStackWithMte, threadVars
<1>2. \A u \in Threads : rings[u] = 0 /\ ~should_allocate[u]
  BY <1>1, Zenon DEF RingsInStep
<1>3. \A u \in Threads : pc[u] \notin CreatorHolds
  BY Zenon DEF RemapStackWithMte, CreationFreeForWriter, At
<1>4. \A u \in Threads : pc[u] \notin Creating \ {"create"}
  BY <1>3, Zenon DEF CreatorHolds, Creating
<1>5. ASSUME NEW u \in Threads
      PROVE  /\ pc[u] = "none" => rings'[u] = 0
             /\ pc[u] \notin {"none", "dead"} /\ ~terminating[u] => rings'[u] = 1
  <2>1. pc[u] = "none" => u \notin list
    BY Zenon DEF ThreadInv, StageInStep, Unborn
  <2>2. pc[u] \notin {"none", "dead"} /\ ~terminating[u] => u \in list
    BY <1>3, EveryoneListed, Zenon DEF CreatorHolds
  <2>3. QED
    BY <1>1, <1>2, <2>1, <2>2
<1>6. /\ \A u \in Threads : pc'[u] \notin Creating \ {"create"}
      /\ \A u \in Threads : ~should_allocate'[u]
      /\ \A u \in Threads :
           /\ pc'[u] = "none" => rings'[u] = 0
           /\ pc'[u] \notin {"none", "dead"} /\ ~terminating'[u] => rings'[u] = 1
  BY <1>1, <1>2, <1>4, <1>5, Zenon
<1>7. QED
  BY <1>1, <1>6, Zenon DEF RingsInStep

(***************************************************************************)
(* Most steps are of one thread, under way already, that neither runs      *)
(* android_run_on_all_threads under the lock nor is being created, and     *)
(* touch neither its variables nor the ring buffers.                       *)
(***************************************************************************)
WalksTo ==
  {"user", "create", "created", "exit", "exitlock", "term", "mask", "untid", "remove", "unmap", "die",
   "find", "detach", "cas", "claim", "wait", "asleep", "reap", "free", "run", "self"}

Walks(t) ==
  /\ pc[t] \notin {"none", "dead", "start", "send", "collect", "restore"}
  /\ \E l \in WalksTo : Goto(t, l)
  /\ UNCHANGED <<pending, num_tids, g_sem, g_retval, ran, failed, mteVars>>
  /\ \A u \in Threads \ {t} : arg'[u] = arg[u]
  /\ \A u \in Threads : terminating[u] => terminating'[u]

(***************************************************************************)
(* Which steps these are.                                                  *)
(***************************************************************************)
LEMMA WalkSteps ==
  ASSUME TypeOK, NEW t \in Threads,
         \/ CloneFails(t) \/ ReleaseChild(t) \/ CreateReturns(t) \/ Unmask(t) \/ Exit(t) \/ MarkExited(t)
         \/ LockForExit(t) \/ SetTerminating(t) \/ BlockSignals(t) \/ ForgetTid(t) \/ RemoveSelf(t) \/ Unmap(t)
         \/ Find(t) \/ DetachCas(t) \/ Claim(t) \/ WaitForExit(t) \/ Reap(t) \/ Free(t)
         \/ RunOnAll(t) \/ RunLock(t)
         \/ \E c \in Threads : Create(t, c) \/ Join(t, c) \/ Detach(t, c)
  PROVE  Walks(t)
<1>0. /\ arg \in [Threads -> Threads \union {None}] /\ terminating \in [Threads -> BOOLEAN]
  BY Zenon DEF TypeOK
<1>1. pc[t] \in {"clone", "release", "created", "unmask", "user", "exit", "exitlock", "term", "mask", "untid",
                 "remove", "unmap", "find", "detach", "cas", "claim", "wait", "reap", "free", "run"}
  BY Zenon DEF CloneFails, ReleaseChild, CreateReturns, Unmask, Exit, MarkExited, LockForExit, SetTerminating,
     BlockSignals, ForgetTid, RemoveSelf, Unmap, Find, DetachCas, Claim, WaitForExit, Reap, Free, RunOnAll,
     RunLock, Create, Join, Detach
<1>2. \E l \in WalksTo : Goto(t, l)
  BY Zenon DEF CloneFails, ReleaseChild, CreateReturns, Unmask, Exit, MarkExited, LockForExit, SetTerminating,
     BlockSignals, ForgetTid, RemoveSelf, Unmap, Find, DetachCas, Claim, WaitForExit, Reap, Free, RunOnAll,
     RunLock, Create, Join, Detach, WalksTo
<1>3. UNCHANGED <<pending, num_tids, g_sem, g_retval, ran, failed, mteVars>>
  BY Zenon DEF CloneFails, ReleaseChild, CreateReturns, Unmask, Exit, MarkExited, LockForExit, SetTerminating,
     BlockSignals, ForgetTid, RemoveSelf, Unmap, Find, DetachCas, Claim, WaitForExit, Reap, Free, RunOnAll,
     RunLock, Create, Join, Detach, runVars
<1>4. arg' = arg \/ \E a : arg' = Set(arg, t, a)
  BY Zenon DEF CloneFails, ReleaseChild, CreateReturns, Unmask, Exit, MarkExited, LockForExit, SetTerminating,
     BlockSignals, ForgetTid, RemoveSelf, Unmap, Find, DetachCas, Claim, WaitForExit, Reap, Free, RunOnAll,
     RunLock, Create, Join, Detach
<1>5. terminating' = terminating \/ terminating' = Set(terminating, t, TRUE)
  BY Zenon DEF CloneFails, ReleaseChild, CreateReturns, Unmask, Exit, MarkExited, LockForExit, SetTerminating,
     BlockSignals, ForgetTid, RemoveSelf, Unmap, Find, DetachCas, Claim, WaitForExit, Reap, Free, RunOnAll,
     RunLock, Create, Join, Detach, threadVars
<1>6. \A u \in Threads \ {t} : arg'[u] = arg[u]
  BY <1>0, <1>4, Zenon DEF Set
<1>7. \A u \in Threads : terminating[u] => terminating'[u]
  BY <1>0, <1>5, Zenon DEF Set
<1>8. pc[t] \notin {"none", "dead", "start", "send", "collect", "restore"}
  BY <1>1, Zenon
<1>9. QED
  BY <1>2, <1>3, <1>6, <1>7, <1>8, Zenon DEF Walks

(***************************************************************************)
(* What such a step does to pc.                                            *)
(***************************************************************************)
LEMMA WalksMove ==
  ASSUME TypeOK, NEW t \in Threads, Walks(t)
  PROVE  pc'[t] \in WalksTo /\ \A u \in Threads \ {t} : pc'[u] = pc[u]
<1>1. pc \in [Threads -> Locations]
  BY Zenon DEF TypeOK
<1>2. QED
  BY <1>1, Zenon DEF Walks, Goto

(***************************************************************************)
(* Every step keeps the ring buffers in step.                              *)
(***************************************************************************)
LEMMA NextRings ==
  ASSUME TypeOK, \A c \in Threads : ThreadInv(c), RingsInStep, [Next]_vars
  PROVE  RingsInStep'
<1>0. pc \in [Threads -> Locations]
  BY Zenon DEF TypeOK
<1>1. ASSUME NEW t \in Threads, Walks(t) PROVE RingsInStep'
  <2>1. pc'[t] \in WalksTo /\ \A u \in Threads \ {t} : pc'[u] = pc[u]
    BY <1>1, WalksMove, Zenon
  <2>2. pc'[t] \notin (Creating \ {"create"}) \union {"none", "start"}
    BY <2>1, Zenon DEF WalksTo, Creating
  <2>3. RingsStill
    BY <1>1, <2>1, <2>2, Zenon DEF Walks, RingsStill
  <2>4. QED
    BY <2>3, RingsStillKeeps, Zenon
<1>2. ASSUME NEW t \in Threads, InitThread(t) \/ Add(t) PROVE RingsInStep'
  <2>1. /\ pc[t] \in {"init", "add"} /\ pc'[t] \in {"add", "release"} /\ \A u \in Threads \ {t} : pc'[u] = pc[u]
        /\ UNCHANGED <<mteVars, arg, terminating>>
    BY <1>0, <1>2, Zenon DEF InitThread, Add, Goto, threadVars
  <2>2. RingsStill
    BY <2>1, Zenon DEF RingsStill, Creating
  <2>3. QED
    BY <2>2, RingsStillKeeps, Zenon
<1>3. ASSUME NEW t \in Threads, RunSelf(t) \/ Send(t) \/ Collect(t) \/ RunReturns(t) PROVE RingsInStep'
  <2>1. /\ pc[t] \in RunnerHolds /\ pc'[t] \in {"user", "send", "collect", "restore"}
        /\ \A u \in Threads \ {t} : pc'[u] = pc[u]
        /\ UNCHANGED <<mteVars, arg, terminating>>
    BY <1>0, <1>3, Zenon DEF RunSelf, Send, Collect, RunReturns, Goto, threadVars, RunnerHolds
  <2>2. RingsStill
    BY <2>1, Zenon DEF RingsStill, Creating, RunnerHolds
  <2>3. QED
    BY <2>2, RingsStillKeeps, Zenon
<1>4. ASSUME NEW t \in Threads, Handle(t) \/ Die(t) PROVE RingsInStep'
  <2>1. /\ UNCHANGED <<mteVars, arg, terminating>>
        /\ \A u \in Threads : <<pc[u], pc'[u]>> \in {<<pc[u], pc[u]>>, <<"asleep", "wait">>, <<"die", "dead">>}
    <3>1. CASE Handle(t)
      BY <1>0, <3>1, Zenon DEF Handle, Goto, threadVars
    <3>2. CASE Die(t)
      BY <1>0, <3>2, Zenon DEF Die, threadVars
    <3>3. QED
      BY <1>4, <3>1, <3>2, Zenon
  <2>2. RingsStill
    BY <2>1, Zenon DEF RingsStill, Creating
  <2>3. QED
    BY <2>2, RingsStillKeeps, Zenon
<1>5. ASSUME UNCHANGED vars PROVE RingsInStep'
  BY <1>5, Zenon DEF vars, threadVars, mteVars, RingsInStep
<1>6. QED
  BY Zenon, <1>1, <1>2, <1>3, <1>4, <1>5, WalkSteps, LockCreationRings, ClonedRings, StartRings, RemapRings,
     CloneCases, Zenon DEF Next, Progress

(***************************************************************************)
(* What the proofs use of counting threads; ThreadsCounted, at the end,    *)
(* proves it.                                                              *)
(***************************************************************************)
Counts ==
  \A S \in SUBSET Threads :
    /\ Cardinality(S) \in Nat /\ (Cardinality(S) = 0 => S = {})
    /\ \A t \in S : Cardinality(S \ {t}) = Cardinality(S) - 1

(***************************************************************************)
(* Steps that android_run_on_all_threads does not notice: nobody enters or *)
(* leaves its last three stages or is born, and nobody who is terminating  *)
(* stops being so.                                                         *)
(***************************************************************************)
RunStages == {"send", "collect", "restore"}

RunStill ==
  /\ UNCHANGED <<pending, num_tids, g_sem, g_retval, ran, failed>>
  /\ \A t \in Threads :
       /\ pc'[t] = pc[t] \/ (pc[t] \notin RunStages /\ pc'[t] \notin RunStages)
       /\ terminating[t] => terminating'[t]
       /\ pc[t] \in {"none", "dead"} => pc'[t] \in {"none", "dead"}

(***************************************************************************)
(* Such a step keeps its books.                                            *)
(***************************************************************************)
LEMMA RunStillKeeps ==
  ASSUME RunInStep, SignalsMeetHandler, RunStill
  PROVE  RunInStep' /\ SignalsMeetHandler'
<1>1. /\ pending' = pending /\ num_tids' = num_tids /\ g_sem' = g_sem /\ g_retval' = g_retval
      /\ ran' = ran /\ failed' = failed
  BY Zenon DEF RunStill
<1>2. PendingThreads' = PendingThreads
  BY <1>1, Zenon DEF PendingThreads
<1>3. \A t \in Threads : \A l \in RunStages : pc'[t] = l <=> pc[t] = l
  BY Zenon DEF RunStill
<1>4. ASSUME NEW t \in Threads
      PROVE  /\ pc'[t] \in RunStages => t \in ran
             /\ pc'[t] = "send" => g_sem = 0
             /\ pc'[t] = "collect" => num_tids = g_sem + Cardinality(PendingThreads)
             /\ pc'[t] \in {"collect", "restore"} =>
                  \A u \in Threads : pc'[u] \notin {"none", "dead"} => terminating'[u] \/ u \in ran \union failed \/ pending[u]
  <2>1. /\ pc[t] \in RunStages => t \in ran
        /\ pc[t] = "send" => g_sem = 0
        /\ pc[t] = "collect" => num_tids = g_sem + Cardinality(PendingThreads)
        /\ pc[t] \in {"collect", "restore"} =>
             \A u \in Threads : pc[u] \notin {"none", "dead"} => terminating[u] \/ u \in ran \union failed \/ pending[u]
    BY Zenon DEF RunInStep, RunStages, At
  <2>2. \A u \in Threads : /\ terminating[u] => terminating'[u]
                           /\ pc'[u] \notin {"none", "dead"} => pc[u] \notin {"none", "dead"}
    BY Zenon DEF RunStill
  <2>3. /\ pc'[t] = "send" <=> pc[t] = "send"
        /\ pc'[t] = "collect" <=> pc[t] = "collect"
        /\ pc'[t] = "restore" <=> pc[t] = "restore"
    BY <1>3, Zenon DEF RunStages
  <2>4. QED
    BY <2>1, <2>2, <2>3, Zenon DEF RunStages
<1>5. RunInStep'
  BY <1>1, <1>2, <1>4, Zenon DEF RunInStep, RunStages, At
<1>6. \A u \in Threads : pc[u] = "collect" => pc'[u] = "collect"
  BY <1>3, Zenon DEF RunStages
<1>7. SignalsMeetHandler'
  BY <1>1, <1>6, Zenon DEF SignalsMeetHandler, At
<1>8. QED
  BY <1>5, <1>7, Zenon

(***************************************************************************)
(* After a step that leaves nobody in those stages, nothing may be         *)
(* pending;                                                                *)
(***************************************************************************)
LEMMA NobodyRuns ==
  ASSUME \A t \in Threads : pc'[t] \notin RunStages, \A u \in Threads : ~pending'[u], g_retval' => failed' = {}
  PROVE  RunInStep' /\ SignalsMeetHandler'
<1>1. \A t \in Threads : pc'[t] # "send" /\ pc'[t] # "collect" /\ pc'[t] # "restore"
  BY Zenon DEF RunStages
<1>2. QED
  BY <1>1, Zenon DEF RunInStep, SignalsMeetHandler

(***************************************************************************)
(* and after any other the books must be right for the one thread that is. *)
(***************************************************************************)
LEMMA OneRuns ==
  ASSUME NEW t \in Threads, \A u \in Threads \ {t} : pc'[u] \notin RunStages,
         g_retval' => failed' = {}, t \in ran',
         pc'[t] = "send" => g_sem' = 0,
         pc'[t] = "collect" => num_tids' = g_sem' + Cardinality(PendingThreads'),
         pc'[t] \in {"collect", "restore"} =>
           \A u \in Threads : pc'[u] \notin {"none", "dead"} => terminating'[u] \/ u \in ran' \union failed' \/ pending'[u],
         pc'[t] = "collect" \/ \A u \in Threads : ~pending'[u]
  PROVE  RunInStep' /\ SignalsMeetHandler'
<1>1. \A u \in Threads \ {t} : pc'[u] # "send" /\ pc'[u] # "collect" /\ pc'[u] # "restore"
  BY Zenon DEF RunStages
<1>2. RunInStep'
  <2>1. SUFFICES ASSUME NEW u \in Threads
                 PROVE  /\ pc'[u] \in {"send", "collect", "restore"} => u \in ran'
                        /\ pc'[u] = "send" => g_sem' = 0
                        /\ pc'[u] = "collect" => num_tids' = g_sem' + Cardinality(PendingThreads')
                        /\ pc'[u] \in {"collect", "restore"} =>
                             \A v \in Threads : pc'[v] \notin {"none", "dead"} => terminating'[v] \/ v \in ran' \union failed' \/ pending'[v]
    BY Zenon DEF RunInStep, At
  <2>2. CASE u = t
    BY <2>2, Zenon
  <2>3. CASE u # t
    BY <1>1, <2>3, Zenon
  <2>4. QED
    BY <2>2, <2>3, Zenon
<1>3. SignalsMeetHandler'
  BY Zenon DEF SignalsMeetHandler, At
<1>4. QED
  BY <1>2, <1>3, Zenon

(***************************************************************************)
(* Nobody else runs beside a thread that holds the creation lock, and      *)
(* signals are pending only while one collects.                            *)
(***************************************************************************)
LEMMA Alone ==
  ASSUME RunExcludes, SignalsMeetHandler, NEW t \in Threads,
         pc[t] \in RunnerHolds \union CreatorHolds \union {"term", "mask"}
  PROVE  /\ \A u \in Threads \ {t} : pc[u] \notin RunnerHolds
         /\ pc[t] # "collect" => \A u \in Threads : ~pending[u]
<1>1. \A u \in Threads \ {t} : pc[u] \notin RunnerHolds
  BY Zenon DEF RunExcludes
<1>2. ASSUME NEW u \in Threads, pending[u] PROVE pc[t] = "collect"
  <2>1. PICK v \in Threads : pc[v] = "collect"
    BY <1>2, Zenon DEF SignalsMeetHandler, At
  <2>2. QED
    BY <1>1, <2>1, Zenon DEF RunnerHolds
<1>3. QED
  BY <1>1, <1>2, Zenon

(***************************************************************************)
(* The steps of android_run_on_all_threads itself: func on the caller,     *)
(***************************************************************************)
LEMMA RunSelfRun ==
  ASSUME TypeOK, RunExcludes, RunInStep, SignalsMeetHandler, NEW t \in Threads, RunSelf(t)
  PROVE  RunInStep' /\ SignalsMeetHandler'
<1>0. pc \in [Threads -> Locations] /\ pc[t] = "self"
  BY Zenon DEF TypeOK, RunSelf
<1>1. /\ \A u \in Threads \ {t} : pc[u] \notin RunnerHolds
      /\ \A u \in Threads : ~pending[u]
  BY <1>0, Alone, Zenon DEF RunnerHolds
<1>2. pending' = pending /\ g_retval' = g_retval /\ failed' = failed /\ (g_retval => failed = {})
  BY Zenon DEF RunSelf, RunInStep
<1>3. CASE Goto(t, "user")
  <2>1. \A u \in Threads : pc'[u] \notin RunStages
    BY <1>0, <1>1, <1>3, Zenon DEF Goto, RunStages, RunnerHolds
  <2>2. QED
    BY <1>1, <1>2, <2>1, NobodyRuns, Zenon
<1>4. CASE Goto(t, "send") /\ ran' = {t} /\ g_sem' = 0
  <2>1. pc'[t] = "send" /\ \A u \in Threads \ {t} : pc'[u] \notin RunStages
    BY <1>0, <1>1, <1>4, Zenon DEF Goto, RunStages, RunnerHolds
  <2>2. QED
    BY <1>1, <1>2, <1>4, <2>1, OneRuns, Zenon
<1>5. QED
  BY <1>3, <1>4, Zenon DEF RunSelf

(***************************************************************************)
(* the signals, to everybody who is not on its way out,                    *)
(***************************************************************************)
LEMMA SendRun ==
  ASSUME Counts, TypeOK, \A c \in Threads : ThreadInv(c), RunExcludes, RunInStep, SignalsMeetHandler,
         NEW t \in Threads, Send(t)
  PROVE  RunInStep' /\ SignalsMeetHandler'
<1>0. /\ pc \in [Threads -> Locations] /\ pc[t] = "send" /\ list \subseteq Threads
  BY Zenon DEF TypeOK, Send
<1>1. /\ \A u \in Threads \ {t} : pc[u] \notin RunnerHolds
      /\ \A u \in Threads : ~pending[u]
  BY <1>0, Alone, Zenon DEF RunnerHolds
<1>2. PICK reached \in SUBSET (Asked(t) \ At({"dead"})) :
         /\ Queue(reached) /\ g_retval' = (g_retval /\ reached = Asked(t))
         /\ failed' = failed \union (Asked(t) \ reached)
  BY Zenon DEF Send
<1>3. /\ pending' = [u \in Threads |-> pending[u] \/ u \in reached]
      /\ num_tids' = Cardinality(reached) /\ reached \in SUBSET Threads
      /\ Goto(t, "collect") /\ UNCHANGED <<terminating, g_sem, ran>>
  BY <1>0, <1>2, Zenon DEF Send, Queue, Asked, threadVars
<1>4. g_sem = 0 /\ t \in ran /\ (g_retval => failed = {})
  BY <1>0, Zenon DEF RunInStep
<1>5. pc'[t] = "collect" /\ \A u \in Threads \ {t} : pc'[u] = pc[u]
  BY <1>0, <1>3, Zenon DEF Goto
<1>6. \A u \in Threads \ {t} : pc'[u] \notin RunStages
  BY <1>1, <1>5, Zenon DEF RunStages, RunnerHolds
<1>7. \A u \in Threads : pending'[u] <=> u \in reached
  BY <1>1, <1>3, Zenon
<1>8. num_tids' = g_sem' + Cardinality(PendingThreads')
  <2>1. PendingThreads' = reached
    BY <1>3, <1>7, Zenon DEF PendingThreads
  <2>2. Cardinality(reached) \in Nat
    BY <1>3, Zenon DEF Counts
  <2>3. QED
    BY <1>3, <1>4, <2>1, <2>2
<1>9. ASSUME NEW u \in Threads, pc'[u] \notin {"none", "dead"}
      PROVE  terminating'[u] \/ u \in ran' \union failed' \/ pending'[u]
  <2>1. CASE u = t
    BY <1>3, <1>4, <2>1, Zenon
  <2>2. CASE u # t /\ ~terminating[u]
    <3>1. \A v \in Threads : pc[v] \notin {"init", "add", "release"}
      BY <1>0, Zenon DEF RunExcludes, RunnerHolds, CreatorHolds
    <3>2. u \in Asked(t)
      BY <1>5, <1>9, <2>2, <3>1, EveryoneListed, Zenon DEF Asked
    <3>3. QED
      BY <1>2, <1>7, <3>2, Zenon
  <2>3. QED
    BY <1>3, <2>1, <2>2, Zenon
<1>10. g_retval' => failed' = {}
  <2>1. ASSUME g_retval' PROVE g_retval /\ reached = Asked(t)
    BY <1>2, <2>1, Zenon
  <2>2. QED
    BY <1>2, <1>4, <2>1, Zenon
<1>11. QED
  <2>1. t \in ran' /\ pc'[t] # "send"
    BY <1>3, <1>4, <1>5, Zenon
  <2>2. QED
    BY <1>5, <1>6, <1>8, <1>9, <1>10, <2>1, OneRuns, Zenon

(***************************************************************************)
(* the handler, which turns a pending signal into one count,               *)
(***************************************************************************)
LEMMA HandleRun ==
  ASSUME Counts, TypeOK, RunExcludes, RunInStep, SignalsMeetHandler, NEW u \in Threads, Handle(u)
  PROVE  RunInStep' /\ SignalsMeetHandler'
<1>0. /\ pc \in [Threads -> Locations] /\ pending \in [Threads -> BOOLEAN] /\ pending[u]
      /\ num_tids \in Nat /\ g_sem \in Nat
  BY Zenon DEF TypeOK, Handle
<1>1. PICK t \in Threads : pc[t] = "collect"
  BY <1>0, Zenon DEF SignalsMeetHandler, At
<1>2. \A v \in Threads \ {t} : pc[v] \notin RunnerHolds
  BY <1>1, Alone, Zenon DEF RunnerHolds
<1>3. /\ t \in ran /\ num_tids = g_sem + Cardinality(PendingThreads) /\ (g_retval => failed = {})
      /\ \A v \in Threads : pc[v] \notin {"none", "dead"} => terminating[v] \/ v \in ran \union failed \/ pending[v]
  BY <1>1, Zenon DEF RunInStep, At
<1>4. /\ ~pending'[u] /\ \A v \in Threads \ {u} : pending'[v] = pending[v]
      /\ ran' = ran \union {u} /\ g_sem' = g_sem + 1 /\ terminating' = terminating /\ num_tids' = num_tids
      /\ pc[u] \notin {"none", "dead"} /\ failed \subseteq failed'
  BY <1>0, Zenon DEF Handle, Set, threadVars
<1>5. g_retval' => failed' = {}
  BY <1>3, Zenon DEF Handle
<1>6. \A v \in Threads : pc'[v] = pc[v] \/ (pc[v] = "asleep" /\ pc'[v] = "wait")
  BY <1>0, Zenon DEF Handle, Goto
<1>7. pc'[t] = "collect" /\ \A v \in Threads \ {t} : pc'[v] \notin RunStages
  BY <1>1, <1>2, <1>6, Zenon DEF RunStages, RunnerHolds
<1>8. num_tids' = g_sem' + Cardinality(PendingThreads')
  <2>1. PendingThreads' = PendingThreads \ {u} /\ u \in PendingThreads /\ PendingThreads \in SUBSET Threads
    BY <1>0, <1>4, Zenon DEF PendingThreads
  <2>2. /\ Cardinality(PendingThreads) \in Nat
        /\ Cardinality(PendingThreads \ {u}) = Cardinality(PendingThreads) - 1
    BY <2>1, Zenon DEF Counts
  <2>3. QED
    BY <1>0, <1>3, <1>4, <2>1, <2>2
<1>9. \A v \in Threads : pc'[v] \notin {"none", "dead"} => terminating'[v] \/ v \in ran' \union failed' \/ pending'[v]
  BY <1>3, <1>4, <1>6, Zenon
<1>10. QED
  BY <1>3, <1>4, <1>5, <1>7, <1>8, <1>9, OneRuns, Zenon

(***************************************************************************)
(* the waits for those counts,                                             *)
(***************************************************************************)
LEMMA CollectRun ==
  ASSUME Counts, TypeOK, RunExcludes, RunInStep, SignalsMeetHandler, NEW t \in Threads, Collect(t)
  PROVE  RunInStep' /\ SignalsMeetHandler'
<1>0. /\ pc \in [Threads -> Locations] /\ num_tids \in Nat /\ g_sem \in Nat /\ pc[t] = "collect"
      /\ PendingThreads \in SUBSET Threads
  BY Zenon DEF TypeOK, Collect, PendingThreads
<1>1. \A u \in Threads \ {t} : pc[u] \notin RunnerHolds
  BY <1>0, Alone, Zenon DEF RunnerHolds
<1>2. /\ t \in ran /\ num_tids = g_sem + Cardinality(PendingThreads) /\ (g_retval => failed = {})
      /\ \A u \in Threads : pc[u] \notin {"none", "dead"} => terminating[u] \/ u \in ran \union failed \/ pending[u]
  BY <1>0, Zenon DEF RunInStep, At
<1>3. /\ Cardinality(PendingThreads) \in Nat /\ (Cardinality(PendingThreads) = 0 => PendingThreads = {})
  BY <1>0, Zenon DEF Counts
<1>4. UNCHANGED <<pending, g_retval, ran, failed, terminating>>
  BY Zenon DEF Collect, threadVars
<1>5. CASE num_tids = 0
  <2>1. Goto(t, "restore")
    BY <1>5, Zenon DEF Collect
  <2>2. pc'[t] = "restore" /\ \A u \in Threads \ {t} : pc'[u] = pc[u]
    BY <1>0, <2>1, Zenon DEF Goto
  <2>3. \A u \in Threads \ {t} : pc'[u] \notin RunStages
    BY <1>1, <2>2, Zenon DEF RunStages, RunnerHolds
  <2>4. \A u \in Threads : ~pending'[u]
    <3>1. PendingThreads = {}
      BY <1>0, <1>2, <1>3, <1>5
    <3>2. QED
      BY <1>4, <3>1, Zenon DEF PendingThreads
  <2>5. \A u \in Threads : pc'[u] \notin {"none", "dead"} => terminating'[u] \/ u \in ran' \union failed' \/ pending'[u]
    BY <1>0, <1>2, <1>4, <2>2, Zenon
  <2>6. QED
    BY <1>2, <1>4, <2>2, <2>3, <2>4, <2>5, OneRuns, Zenon
<1>6. CASE num_tids # 0
  <2>1. g_sem' = g_sem - 1 /\ num_tids' = num_tids - 1 /\ pc' = pc
    BY <1>6, Zenon DEF Collect
  <2>2. PendingThreads' = PendingThreads
    BY <1>4, Zenon DEF PendingThreads
  <2>3. num_tids' = g_sem' + Cardinality(PendingThreads')
    BY <1>0, <1>2, <1>3, <2>1, <2>2
  <2>4. \A u \in Threads \ {t} : pc'[u] \notin RunStages
    BY <1>1, <2>1, Zenon DEF RunStages, RunnerHolds
  <2>5. QED
    BY <1>0, <1>2, <1>4, <2>1, <2>3, <2>4, OneRuns, Zenon
<1>7. QED
  BY <1>5, <1>6, Zenon

(***************************************************************************)
(* and the return.                                                         *)
(***************************************************************************)
LEMMA RunReturnsRun ==
  ASSUME TypeOK, RunExcludes, SignalsMeetHandler, NEW t \in Threads, RunReturns(t)
  PROVE  RunInStep' /\ SignalsMeetHandler'
<1>0. pc \in [Threads -> Locations] /\ pc[t] = "restore"
  BY Zenon DEF TypeOK, RunReturns
<1>1. /\ \A u \in Threads \ {t} : pc[u] \notin RunnerHolds
      /\ \A u \in Threads : ~pending[u]
  BY <1>0, Alone, Zenon DEF RunnerHolds
<1>2. pending' = pending /\ failed' = {} /\ Goto(t, "user")
  BY Zenon DEF RunReturns
<1>3. \A u \in Threads : pc'[u] \notin RunStages
  BY <1>0, <1>1, <1>2, Zenon DEF Goto, RunStages, RunnerHolds
<1>4. QED
  BY <1>1, <1>2, <1>3, NobodyRuns, Zenon

(***************************************************************************)
(* A thread is born while nobody runs.                                     *)
(***************************************************************************)
LEMMA ClonedRun ==
  ASSUME TypeOK, RunExcludes, RunInStep, SignalsMeetHandler, NEW t \in Threads, Cloned(t)
  PROVE  RunInStep' /\ SignalsMeetHandler'
<1>0. pc \in [Threads -> Locations] /\ pc[t] = "clone"
  BY Zenon DEF TypeOK, Cloned
<1>1. /\ \A u \in Threads \ {t} : pc[u] \notin RunnerHolds
      /\ \A u \in Threads : ~pending[u]
  BY <1>0, Alone, Zenon DEF CreatorHolds
<1>2. pending' = pending /\ g_retval' = g_retval /\ failed' = failed /\ (g_retval => failed = {})
  BY Zenon DEF Cloned, RunInStep, runVars
<1>3. \A u \in Threads : pc'[u] \in {pc[u], "init", "start"} /\ (u = t => pc'[u] # "clone")
  BY <1>0, Zenon DEF Cloned
<1>4. \A u \in Threads : pc'[u] \notin RunStages
  BY <1>0, <1>1, <1>3, Zenon DEF RunStages, RunnerHolds
<1>5. QED
  BY <1>1, <1>2, <1>4, NobodyRuns, Zenon

(***************************************************************************)
(* Every step keeps the books of android_run_on_all_threads.               *)
(***************************************************************************)
LEMMA NextRun ==
  ASSUME Counts, TypeOK, \A c \in Threads : ThreadInv(c), RunExcludes, RunInStep, SignalsMeetHandler, [Next]_vars
  PROVE  RunInStep' /\ SignalsMeetHandler'
<1>0. pc \in [Threads -> Locations]
  BY Zenon DEF TypeOK
<1>1. ASSUME NEW t \in Threads, Walks(t) PROVE RunInStep' /\ SignalsMeetHandler'
  <2>1. pc'[t] \in WalksTo /\ \A u \in Threads \ {t} : pc'[u] = pc[u]
    BY <1>1, WalksMove, Zenon
  <2>2. pc'[t] \notin RunStages
    BY <2>1, Zenon DEF WalksTo, RunStages
  <2>3. RunStill
    BY <1>1, <2>1, <2>2, Zenon DEF Walks, RunStill, RunStages
  <2>4. QED
    BY <2>3, RunStillKeeps, Zenon
<1>2. ASSUME NEW t \in Threads, LockCreation(t) \/ InitThread(t) \/ Add(t) \/ Start(t)
      PROVE  RunInStep' /\ SignalsMeetHandler'
  <2>1. /\ pc[t] \in {"create", "init", "add", "start"} /\ pc'[t] \in {"clone", "add", "release", "unmask"}
        /\ \A u \in Threads \ {t} : pc'[u] = pc[u]
        /\ UNCHANGED <<pending, num_tids, g_sem, g_retval, ran, failed, terminating>>
    BY <1>0, <1>2, Zenon DEF LockCreation, InitThread, Add, Start, Goto, threadVars, runVars
  <2>2. RunStill
    BY <2>1, Zenon DEF RunStill, RunStages
  <2>3. QED
    BY <2>2, RunStillKeeps, Zenon
<1>3. ASSUME NEW t \in Threads, Die(t) PROVE RunInStep' /\ SignalsMeetHandler'
  <2>1. /\ \A u \in Threads : <<pc[u], pc'[u]>> \in {<<pc[u], pc[u]>>, <<"asleep", "wait">>, <<"die", "dead">>}
        /\ UNCHANGED <<pending, num_tids, g_sem, g_retval, ran, failed, terminating>>
    BY <1>0, <1>3, Zenon DEF Die, runVars
  <2>2. RunStill
    BY <2>1, Zenon DEF RunStill, RunStages
  <2>3. QED
    BY <2>2, RunStillKeeps, Zenon
<1>4. ASSUME (\E t \in Threads : RemapStackWithMte(t)) \/ UNCHANGED vars PROVE RunInStep' /\ SignalsMeetHandler'
  <2>1. UNCHANGED <<pc, pending, num_tids, g_sem, g_retval, ran, failed, terminating>>
    BY <1>4, Zenon DEF RemapStackWithMte, vars, threadVars, runVars
  <2>2. RunStill
    BY <2>1, Zenon DEF RunStill
  <2>3. QED
    BY <2>2, RunStillKeeps, Zenon
<1>5. QED
  BY Zenon, <1>1, <1>2, <1>3, <1>4, WalkSteps, ClonedRun, RunSelfRun, SendRun, HandleRun, CollectRun, RunReturnsRun,
     CloneCases, Zenon DEF Next, Progress

(***************************************************************************)
(* The types, by groups of variables.                                      *)
(***************************************************************************)
CallsTyped ==
  /\ pc \in [Threads -> Locations]
  /\ arg \in [Threads -> Threads \union {None}]
  /\ \A t \in Threads : pc[t] \in UsesArg <=> arg[t] # None

FieldsTyped ==
  /\ list \subseteq Threads
  /\ handle \in [Threads -> {"none", "valid", "used"}]
  /\ mem \in [Threads -> {"none", "mapped", "unmapped"}]
  /\ join_state \in [Threads -> JoinStates]
  /\ old_state \in [Threads -> JoinStates]
  /\ handshake \in [Threads -> BOOLEAN] /\ idle_routine \in [Threads -> BOOLEAN]
  /\ tid \in [Threads -> BOOLEAN] /\ cleartid \in [Threads -> BOOLEAN]
  /\ masked \in [Threads -> BOOLEAN] /\ terminating \in [Threads -> BOOLEAN]

RunTyped ==
  /\ pending \in [Threads -> BOOLEAN]
  /\ num_tids \in Nat /\ g_sem \in Nat
  /\ g_retval \in BOOLEAN /\ failed \subseteq Threads
  /\ runs \in 0 .. MaxRuns
  /\ ran \subseteq Threads

RingsTyped ==
  /\ memtag_abi \in BOOLEAN
  /\ should_allocate \in [Threads -> BOOLEAN]
  /\ rings \in [Threads -> Nat]

(***************************************************************************)
(* Every step keeps the types of the ring buffers,                         *)
(***************************************************************************)
LEMMA NextRingsTyped ==
  ASSUME RingsTyped, [Next]_vars
  PROVE  RingsTyped'
<1>1. ASSUME UNCHANGED mteVars PROVE RingsTyped'
  BY <1>1, Zenon DEF RingsTyped, mteVars
<1>2. ASSUME NEW t \in Threads, \/ Clone(t) \/ InitThread(t) \/ Add(t) \/ ReleaseChild(t) \/ CreateReturns(t) \/ Unmask(t)
                                \/ Exit(t) \/ MarkExited(t) \/ LockForExit(t) \/ SetTerminating(t) \/ BlockSignals(t) \/ ForgetTid(t)
                                \/ RemoveSelf(t) \/ Unmap(t)
      PROVE  UNCHANGED mteVars
  BY <1>2, Zenon DEF Clone, InitThread, Add, ReleaseChild, CreateReturns, Unmask, Exit, MarkExited,
     LockForExit, SetTerminating, BlockSignals, ForgetTid, RemoveSelf, Unmap
<1>3. ASSUME NEW t \in Threads, \/ Die(t) \/ Find(t) \/ DetachCas(t) \/ Claim(t) \/ WaitForExit(t) \/ Reap(t)
                                \/ Free(t) \/ RunOnAll(t) \/ RunLock(t) \/ RunSelf(t) \/ Send(t) \/ Handle(t)
                                \/ Collect(t) \/ RunReturns(t) \/ \E c \in Threads : Create(t, c) \/ Join(t, c) \/ Detach(t, c)
      PROVE  UNCHANGED mteVars
  BY <1>3, Zenon DEF Die, Find, DetachCas, Claim, WaitForExit, Reap, Free, RunOnAll, RunLock,
     RunSelf, Send, Handle, Collect, RunReturns, Create, Join, Detach
<1>4. ASSUME NEW t \in Threads, LockCreation(t) PROVE RingsTyped'
  BY <1>4, Zenon DEF LockCreation, RingsTyped, Set
<1>5. ASSUME NEW t \in Threads, Start(t) PROVE RingsTyped'
  BY <1>5 DEF Start, RingsTyped, Set
<1>6. ASSUME NEW t \in Threads, RemapStackWithMte(t) PROVE RingsTyped'
  BY <1>6 DEF RemapStackWithMte, RingsTyped
<1>7. UNCHANGED vars => UNCHANGED mteVars
  BY Zenon DEF vars
<1>8. QED
  BY <1>1, <1>2, <1>3, <1>4, <1>5, <1>6, <1>7, Zenon DEF Next, Progress

(***************************************************************************)
(* of android_run_on_all_threads,                                          *)
(***************************************************************************)
LEMMA NextRunTyped ==
  ASSUME Counts, FieldsTyped, RunTyped, [Next]_vars
  PROVE  RunTyped'
<1>1. ASSUME UNCHANGED runVars PROVE RunTyped'
  BY <1>1, Zenon DEF RunTyped, runVars
<1>2. ASSUME NEW t \in Threads, \/ LockCreation(t) \/ Clone(t) \/ InitThread(t) \/ Add(t) \/ ReleaseChild(t) \/ CreateReturns(t)
                                \/ Start(t) \/ Unmask(t) \/ Exit(t) \/ MarkExited(t) \/ LockForExit(t) \/ SetTerminating(t)
                                \/ BlockSignals(t) \/ ForgetTid(t)
      PROVE  UNCHANGED runVars
  BY <1>2, Zenon DEF LockCreation, Clone, InitThread, Add, ReleaseChild, CreateReturns, Start,
     Unmask, Exit, MarkExited, LockForExit, SetTerminating, BlockSignals, ForgetTid
<1>3. ASSUME NEW t \in Threads, \/ RemoveSelf(t) \/ Unmap(t) \/ Die(t) \/ Find(t) \/ DetachCas(t) \/ Claim(t)
                                \/ WaitForExit(t) \/ Reap(t) \/ Free(t) \/ RunLock(t) \/ RemapStackWithMte(t) \/ \E c \in Threads : Create(t, c) \/ Join(t, c) \/ Detach(t, c)
      PROVE  UNCHANGED runVars
  BY <1>3, Zenon DEF RemoveSelf, Unmap, Die, Find, DetachCas, Claim, WaitForExit, Reap, Free,
     RunLock, RemapStackWithMte, Create, Join, Detach
<1>4. ASSUME NEW t \in Threads, RunOnAll(t) PROVE RunTyped'
  BY <1>4, ThreadAssumption DEF RunOnAll, RunTyped
<1>5. ASSUME NEW t \in Threads, RunSelf(t) PROVE RunTyped'
  BY <1>5 DEF RunSelf, RunTyped
<1>6. ASSUME NEW t \in Threads, Send(t) PROVE RunTyped'
  <2>1. PICK reached \in SUBSET (Asked(t) \ At({"dead"})) :
          /\ Queue(reached) /\ g_retval' = (g_retval /\ reached = Asked(t))
          /\ failed' = failed \union (Asked(t) \ reached)
    BY <1>6, Zenon DEF Send
  <2>2. reached \in SUBSET Threads /\ Asked(t) \subseteq Threads
    BY Zenon DEF Asked, FieldsTyped
  <2>3. UNCHANGED <<g_sem, runs, ran>>
    BY <1>6, Zenon DEF Send
  <2>4. num_tids' \in Nat /\ g_retval' \in BOOLEAN /\ pending' \in [Threads -> BOOLEAN]
    BY <2>1, <2>2, Zenon DEF Counts, Queue
  <2>5. failed' \subseteq Threads
    BY <2>1, <2>2, Zenon DEF RunTyped
  <2>6. QED
    BY <2>3, <2>4, <2>5, Zenon DEF RunTyped
<1>7. ASSUME NEW t \in Threads, Handle(t) PROVE RunTyped'
  <2>1. g_retval' \in BOOLEAN /\ failed' \subseteq Threads
    BY <1>7, Zenon DEF Handle, RunTyped
  <2>2. QED
    BY <1>7, <2>1 DEF Handle, RunTyped, Set
<1>8. ASSUME NEW t \in Threads, Collect(t) PROVE RunTyped'
  BY <1>8 DEF Collect, RunTyped
<1>9. ASSUME NEW t \in Threads, RunReturns(t) PROVE RunTyped'
  BY <1>9, Zenon DEF RunReturns, RunTyped, runVars
<1>10. UNCHANGED vars => UNCHANGED runVars
  BY Zenon DEF vars
<1>11. QED
  BY <1>1, <1>2, <1>3, <1>4, <1>5, <1>6, <1>7, <1>8, <1>9, <1>10, Zenon DEF Next, Progress

(***************************************************************************)
(* Assigning to a field.                                                   *)
(***************************************************************************)
LEMMA SetTyped ==
  ASSUME NEW V, NEW f \in [Threads -> V], NEW c, NEW v \in V
  PROVE  Set(f, c, v) \in [Threads -> V]
BY Zenon DEF Set

(***************************************************************************)
(* and of the fields of threads.                                           *)
(***************************************************************************)
LEMMA NextFieldsTyped ==
  ASSUME CallsTyped, FieldsTyped, [Next]_vars
  PROVE  FieldsTyped'
<1>1. ASSUME UNCHANGED <<list, handle, threadVars>> PROVE FieldsTyped'
  BY <1>1, Zenon DEF FieldsTyped, threadVars
<1>2. ASSUME NEW t \in Threads, \/ LockCreation(t) \/ CreateReturns(t) \/ Start(t) \/ Exit(t) \/ LockForExit(t) \/ Find(t)
                                \/ WaitForExit(t) \/ RunOnAll(t) \/ RunLock(t) \/ RunSelf(t) \/ Send(t) \/ Handle(t)
                                \/ Collect(t) \/ RunReturns(t)
      PROVE  UNCHANGED <<list, handle, threadVars>>
  BY <1>2, Zenon DEF LockCreation, CreateReturns, Start, Exit, LockForExit, Find, WaitForExit,
     RunOnAll, RunLock, RunSelf, Send, Handle, Collect, RunReturns
<1>3. ASSUME NEW t \in Threads, \/ RemapStackWithMte(t)
      PROVE  UNCHANGED <<list, handle, threadVars>>
  BY <1>3, Zenon DEF RemapStackWithMte
<1>4. ASSUME NEW t \in Threads, Cloned(t) PROVE FieldsTyped'
  BY <1>4, SetTyped, Zenon DEF Cloned, FieldsTyped
<1>5. ASSUME NEW t \in Threads, CloneFails(t) PROVE FieldsTyped'
  BY <1>5, SetTyped, Zenon DEF CloneFails, FieldsTyped
<1>6. ASSUME NEW t \in Threads, InitThread(t) PROVE FieldsTyped'
  <2>1. \E state \in {"NOT_JOINED", "DETACHED"} : join_state' = Set(join_state, arg[t], state)
    BY <1>6, Zenon DEF InitThread
  <2>2. PICK state \in JoinStates : join_state' = Set(join_state, arg[t], state)
    BY <2>1, Zenon DEF JoinStates
  <2>3. join_state' \in [Threads -> JoinStates]
    BY <2>2, SetTyped, Zenon DEF FieldsTyped
  <2>4. idle_routine' = idle_routine \/ idle_routine' = Set(idle_routine, arg[t], TRUE)
    BY <1>6, Zenon DEF InitThread
  <2>5. idle_routine' \in [Threads -> BOOLEAN]
    <3>1. Set(idle_routine, arg[t], TRUE) \in [Threads -> BOOLEAN]
      BY SetTyped, Zenon DEF FieldsTyped
    <3>2. QED
      BY <2>4, <3>1, Zenon DEF FieldsTyped
  <2>6. QED
    BY <1>6, <2>3, <2>5, Zenon DEF InitThread, FieldsTyped
<1>7. ASSUME NEW t \in Threads, Add(t) PROVE FieldsTyped'
  <2>1. arg[t] \in Threads
    BY <1>7, Zenon DEF Add, CallsTyped, UsesArg, CreatorHolds
  <2>2. list' \subseteq Threads
    BY <1>7, <2>1, Zenon DEF Add, FieldsTyped
  <2>3. handle' \in [Threads -> {"none", "valid", "used"}]
    BY <1>7, SetTyped, Zenon DEF Add, FieldsTyped
  <2>4. QED
    BY <1>7, <2>2, <2>3, Zenon DEF Add, FieldsTyped, threadVars
<1>8. ASSUME NEW t \in Threads, ReleaseChild(t) PROVE FieldsTyped'
  BY <1>8, SetTyped, Zenon DEF ReleaseChild, FieldsTyped, threadVars, JoinStates
<1>9. ASSUME NEW t \in Threads, Unmask(t) PROVE FieldsTyped'
  BY <1>9, SetTyped, Zenon DEF Unmask, FieldsTyped, threadVars, JoinStates
<1>10. ASSUME NEW t \in Threads, MarkExited(t) PROVE FieldsTyped'
  BY <1>10, SetTyped, Zenon DEF MarkExited, FieldsTyped, threadVars, JoinStates
<1>11. ASSUME NEW t \in Threads, SetTerminating(t) PROVE FieldsTyped'
  BY <1>11, SetTyped, Zenon DEF SetTerminating, FieldsTyped, threadVars, JoinStates
<1>12. ASSUME NEW t \in Threads, BlockSignals(t) PROVE FieldsTyped'
  BY <1>12, SetTyped, Zenon DEF BlockSignals, FieldsTyped, threadVars, JoinStates
<1>13. ASSUME NEW t \in Threads, ForgetTid(t) PROVE FieldsTyped'
  BY <1>13, SetTyped, Zenon DEF ForgetTid, FieldsTyped, threadVars, JoinStates
<1>14. ASSUME NEW t \in Threads, RemoveSelf(t) PROVE FieldsTyped'
  BY <1>14, SetTyped, Zenon DEF RemoveSelf, FieldsTyped, threadVars, JoinStates
<1>15. ASSUME NEW t \in Threads, Unmap(t) PROVE FieldsTyped'
  BY <1>15, SetTyped, Zenon DEF Unmap, FieldsTyped, threadVars, JoinStates
<1>16. ASSUME NEW t \in Threads, Die(t) PROVE FieldsTyped'
  BY <1>16, SetTyped, Zenon DEF Die, FieldsTyped, threadVars, JoinStates
<1>17. ASSUME NEW t \in Threads, DetachCas(t) PROVE FieldsTyped'
  BY <1>17, SetTyped, Zenon DEF DetachCas, FieldsTyped, threadVars, JoinStates
<1>18. ASSUME NEW t \in Threads, Claim(t) PROVE FieldsTyped'
  <2>1. join_state' = join_state \/ join_state' = Set(join_state, arg[t], "JOINED")
    BY <1>18, Zenon DEF Claim
  <2>2. "JOINED" \in JoinStates
    BY Zenon DEF JoinStates
  <2>3. join_state' \in [Threads -> JoinStates]
    <3>1. Set(join_state, arg[t], "JOINED") \in [Threads -> JoinStates]
      BY <2>2, SetTyped, Zenon DEF FieldsTyped
    <3>2. QED
      BY <2>1, <3>1, Zenon DEF FieldsTyped
  <2>4. QED
    BY <1>18, <2>3, Zenon DEF Claim, FieldsTyped
<1>19. ASSUME NEW t \in Threads, Reap(t) PROVE FieldsTyped'
  BY <1>19, SetTyped, Zenon DEF Reap, FieldsTyped, threadVars, JoinStates
<1>20. ASSUME NEW t \in Threads, Free(t) PROVE FieldsTyped'
  BY <1>20, SetTyped, Zenon DEF Free, FieldsTyped, threadVars, JoinStates
<1>21. ASSUME NEW t \in Threads, NEW c \in Threads, Create(t, c) PROVE FieldsTyped'
  BY <1>21, SetTyped, Zenon DEF Create, FieldsTyped
<1>22. ASSUME NEW t \in Threads, NEW c \in Threads, Join(t, c) \/ Detach(t, c) PROVE FieldsTyped'
  <2>1. handle' = Set(handle, c, "used") /\ UNCHANGED <<list, threadVars>>
    BY <1>22, Zenon DEF Join, Detach
  <2>2. QED
    BY <2>1, SetTyped, Zenon DEF FieldsTyped, threadVars
<1>23. UNCHANGED vars => UNCHANGED <<list, handle, threadVars>>
  BY Zenon DEF vars
<1>24. QED
  BY Zenon, <1>1, <1>2, <1>3, <1>4, <1>5, <1>6, <1>7, <1>8, <1>9, <1>10, <1>11, <1>12, <1>13, <1>14, <1>15,
     <1>16, <1>17, <1>18, <1>19, <1>20, <1>21, <1>22, <1>23, CloneCases, Zenon DEF Next, Progress

(***************************************************************************)
(* A call that begins or ends takes or drops its argument.                 *)
(***************************************************************************)
LEMMA MovesTyped ==
  ASSUME CallsTyped, NEW t \in Threads, NEW l \in Locations, pc'= [pc EXCEPT ![t] = l], NEW a \in Threads \union {None},
         l \in UsesArg <=> a # None, arg' = [arg EXCEPT ![t] = a]
  PROVE  CallsTyped'
<1>1. pc \in [Threads -> Locations] /\ arg \in [Threads -> Threads \union {None}]
  BY Zenon DEF CallsTyped
<1>2. /\ pc'[t] = l /\ \A u \in Threads \ {t} : pc'[u] = pc[u]
      /\ arg'[t] = a /\ \A u \in Threads \ {t} : arg'[u] = arg[u]
  BY <1>1, Zenon
<1>3. pc' \in [Threads -> Locations] /\ arg' \in [Threads -> Threads \union {None}]
  BY <1>1, Zenon
<1>4. \A u \in Threads : pc'[u] \in UsesArg <=> arg'[u] # None
  BY <1>2, Zenon DEF CallsTyped
<1>5. QED
  BY <1>3, <1>4, Zenon DEF CallsTyped

(***************************************************************************)
(* A call that goes on keeps its argument.                                 *)
(***************************************************************************)
LEMMA StaysTyped ==
  ASSUME CallsTyped, NEW t \in Threads, NEW l \in Locations, pc'= [pc EXCEPT ![t] = l],
         l \in UsesArg <=> pc[t] \in UsesArg, arg' = arg
  PROVE  CallsTyped'
<1>1. pc \in [Threads -> Locations] /\ arg \in [Threads -> Threads \union {None}]
  BY Zenon DEF CallsTyped
<1>2. pc'[t] = l /\ \A u \in Threads \ {t} : pc'[u] = pc[u]
  BY <1>1, Zenon
<1>3. pc' \in [Threads -> Locations] /\ arg' \in [Threads -> Threads \union {None}]
  BY <1>1, Zenon
<1>4. \A u \in Threads : pc'[u] \in UsesArg <=> arg'[u] # None
  BY <1>2, Zenon DEF CallsTyped
<1>5. QED
  BY <1>3, <1>4, Zenon DEF CallsTyped

(***************************************************************************)
(* Every step keeps the types of the calls,                                *)
(***************************************************************************)
LEMMA NextCallsTyped ==
  ASSUME CallsTyped, \A c \in Threads : ThreadInv(c), [Next]_vars
  PROVE  CallsTyped'
<1> DEFINE Idle == {"user", "created", "unmask", "exit", "exitlock", "term", "mask", "untid", "remove", "unmap", "die",
                    "run", "self", "send", "collect", "restore", "start"}
<1>0. /\ pc \in [Threads -> Locations] /\ arg \in [Threads -> Threads \union {None}]
  BY Zenon DEF CallsTyped
<1>i. Idle \subseteq Locations /\ Idle \intersect UsesArg = {} /\ UsesArg \subseteq Locations /\ None \notin Threads
  BY ThreadAssumption, Zenon DEF Locations, UsesArg, CreatorHolds, RunnerHolds
<1>u. {"create", "clone", "init", "add", "release", "detach", "cas", "find", "claim", "wait", "asleep", "reap", "free"}
        \subseteq UsesArg
  BY Zenon DEF UsesArg, CreatorHolds
<1> HIDE DEF Idle
<1>k. "user" \in Idle /\ "created" \in Idle
  BY Zenon DEF Idle
<1>1. ASSUME NEW t \in Threads, pc[t] \in Idle, \E l \in Idle : Goto(t, l), arg' = arg PROVE CallsTyped'
  <2>1. PICK l \in Idle : pc' = [pc EXCEPT ![t] = l]
    BY <1>1, Zenon DEF Goto
  <2>2. l \in Locations /\ (l \in UsesArg <=> pc[t] \in UsesArg)
    BY <1>1, <1>i, Zenon
  <2>3. QED
    BY <1>1, <2>1, <2>2, StaysTyped, Zenon
<1>2. ASSUME NEW t \in Threads, pc[t] \in UsesArg, \E l \in UsesArg : Goto(t, l), arg' = arg PROVE CallsTyped'
  <2>1. PICK l \in UsesArg : pc' = [pc EXCEPT ![t] = l]
    BY <1>2, Zenon DEF Goto
  <2>2. l \in Locations /\ (l \in UsesArg <=> pc[t] \in UsesArg)
    BY <1>2, <1>i, Zenon
  <2>3. QED
    BY <1>2, <2>1, <2>2, StaysTyped, Zenon
<1>3. ASSUME NEW t \in Threads, \E l \in UsesArg : Goto(t, l), \E c \in Threads : arg' = Set(arg, t, c) PROVE CallsTyped'
  <2>1. PICK l \in UsesArg : pc' = [pc EXCEPT ![t] = l]
    BY <1>3, Zenon DEF Goto
  <2>2. PICK c \in Threads : arg' = [arg EXCEPT ![t] = c]
    BY <1>3, Zenon DEF Set
  <2>3. l \in Locations /\ c \in Threads \union {None} /\ (l \in UsesArg <=> c # None)
    BY <1>i, Zenon
  <2>4. QED
    BY <2>1, <2>2, <2>3, MovesTyped, Zenon
<1>4. ASSUME NEW t \in Threads, \E l \in Idle : Goto(t, l), arg' = Set(arg, t, None) PROVE CallsTyped'
  <2>1. PICK l \in Idle : pc' = [pc EXCEPT ![t] = l]
    BY <1>4, Zenon DEF Goto
  <2>2. l \in Locations /\ None \in Threads \union {None} /\ (l \in UsesArg <=> None # None)
    BY <1>i, Zenon
  <2>3. QED
    BY <1>4, <2>1, <2>2, MovesTyped, Zenon DEF Set
<1>5. ASSUME NEW t \in Threads, \/ CreateReturns(t) \/ Start(t) \/ Unmask(t) \/ Exit(t) \/ MarkExited(t) \/ LockForExit(t)
                                \/ SetTerminating(t) \/ BlockSignals(t)
      PROVE  CallsTyped'
  BY <1>1, <1>5, Zenon DEF CreateReturns, Start, Unmask, Exit, MarkExited, LockForExit, SetTerminating, BlockSignals, Idle
<1>6. ASSUME NEW t \in Threads, \/ ForgetTid(t) \/ RemoveSelf(t) \/ Unmap(t) \/ RunOnAll(t) \/ RunLock(t) \/ RunSelf(t)
                                \/ Send(t) \/ RunReturns(t)
      PROVE  CallsTyped'
  BY <1>1, <1>6, Zenon DEF ForgetTid, RemoveSelf, Unmap, RunOnAll, RunLock, RunSelf, Send, RunReturns, Idle
<1>7. ASSUME NEW t \in Threads, LockCreation(t) \/ InitThread(t) \/ Add(t) \/ WaitForExit(t) \/ Reap(t)
      PROVE  CallsTyped'
  <2>1. /\ pc[t] \in {"create", "init", "add", "wait", "reap"} /\ arg' = arg
        /\ \E l \in {"clone", "add", "release", "asleep", "reap", "free"} : Goto(t, l)
    BY <1>7, Zenon DEF LockCreation, InitThread, Add, WaitForExit, Reap
  <2>2. pc[t] \in UsesArg /\ \E l \in UsesArg : Goto(t, l)
    BY <2>1, <1>u, Zenon
  <2>3. QED
    BY <1>2, <2>1, <2>2, Zenon
<1>8. ASSUME NEW t \in Threads, Find(t) \/ DetachCas(t) \/ Claim(t) PROVE CallsTyped'
  <2>1. pc[t] \in {"find", "detach", "cas", "claim"}
    BY <1>8, Zenon DEF Find, DetachCas, Claim
  <2>2. \/ arg' = arg /\ \E l \in {"claim", "cas", "find", "wait"} : Goto(t, l)
        \/ arg' = Set(arg, t, None) /\ Goto(t, "user")
    BY <1>8, Zenon DEF Find, DetachCas, Claim
  <2>3. pc[t] \in UsesArg /\ ((\E l \in {"claim", "cas", "find", "wait"} : Goto(t, l)) => \E l \in UsesArg : Goto(t, l))
    BY <2>1, <1>u, Zenon
  <2>4. QED
    BY <1>2, <1>4, <1>k, <2>2, <2>3, Zenon
<1>9. ASSUME NEW t \in Threads, CloneFails(t) \/ ReleaseChild(t) \/ Free(t) PROVE CallsTyped'
  BY <1>4, <1>9, <1>k, Zenon DEF CloneFails, ReleaseChild, Free
<1>10. ASSUME NEW t \in Threads, NEW c \in Threads, Create(t, c) \/ Join(t, c) \/ Detach(t, c) PROVE CallsTyped'
  <2>1. arg' = Set(arg, t, c) /\ \E l \in {"create", "find", "cas", "detach"} : Goto(t, l)
    BY <1>10, Zenon DEF Create, Join, Detach
  <2>2. \E l \in UsesArg : Goto(t, l)
    BY <2>1, <1>u, Zenon
  <2>3. QED
    BY <1>3, <2>1, <2>2, Zenon
<1>11. ASSUME NEW t \in Threads, Cloned(t) PROVE CallsTyped'
  <2>1. arg[t] \in Threads /\ Creates(t, arg[t])
    BY <1>11, <1>u, Zenon DEF Cloned, CallsTyped, Creates, Creating
  <2>2. PICK c \in Threads : arg[t] = c
    BY <2>1, Zenon
  <2>3. pc[c] = "none" /\ c # t /\ arg[c] = None
    BY <1>11, <2>1, <2>2, Zenon DEF Cloned, ThreadInv, CreationInStep, CallsTyped, UsesArg, CreatorHolds
  <2>4. /\ pc' = [pc EXCEPT ![t] = "init", ![c] = "start"] /\ arg' = arg /\ pc[t] = "clone"
    BY <1>11, <2>2, Zenon DEF Cloned
  <2>5. /\ pc' \in [Threads -> Locations] /\ pc'[t] = "init" /\ pc'[c] = "start"
        /\ \A u \in Threads \ {t, c} : pc'[u] = pc[u]
    BY <1>0, <2>3, <2>4, Zenon DEF Locations, CreatorHolds
  <2>6. \A u \in Threads : pc'[u] \in UsesArg <=> arg[u] # None
    BY <1>i, <1>u, <2>2, <2>3, <2>5, Zenon DEF CallsTyped, Idle
  <2>7. QED
    BY <1>0, <2>4, <2>5, <2>6, Zenon DEF CallsTyped
<1>12. ASSUME NEW t \in Threads, Die(t) PROVE CallsTyped'
  <2>0. /\ "dead" \in Locations /\ "wait" \in Locations
        /\ "asleep" \in UsesArg /\ "wait" \in UsesArg /\ "die" \notin UsesArg /\ "dead" \notin UsesArg
    BY Zenon DEF Locations, UsesArg, CreatorHolds
  <2>1. /\ arg' = arg /\ pc[t] = "die" /\ pc'[t] = "dead"
        /\ \A u \in Threads \ {t} : pc'[u] = pc[u] \/ (pc[u] = "asleep" /\ pc'[u] = "wait")
    BY <1>12, Zenon DEF Die
  <2>2. pc' \in [Threads -> Locations]
    <3>1. pc' = [u \in Threads |-> pc'[u]]
      BY <1>12, Zenon DEF Die
    <3>2. \A u \in Threads : pc'[u] \in Locations
      BY <1>0, <2>0, <2>1, Zenon
    <3>3. QED
      BY <3>1, <3>2, Zenon
  <2>3. \A u \in Threads : pc'[u] \in UsesArg <=> pc[u] \in UsesArg
    BY <2>0, <2>1, Zenon
  <2>4. QED
    BY <1>0, <2>1, <2>2, <2>3, Zenon DEF CallsTyped
<1>13. ASSUME NEW t \in Threads, Handle(t) PROVE CallsTyped'
  <2>1. /\ arg' = arg /\ pc' = [pc EXCEPT ![t] = IF pc[t] = "asleep" THEN "wait" ELSE pc[t]]
    BY <1>13, Zenon DEF Handle, Goto
  <2>2. CASE pc[t] = "asleep"
    <3>1. pc' = [pc EXCEPT ![t] = "wait"] /\ pc[t] \in UsesArg /\ "wait" \in UsesArg
      BY <1>u, <2>1, <2>2, Zenon
    <3>2. QED
      BY <1>2, <2>1, <3>1, Zenon DEF Goto
  <2>3. CASE pc[t] # "asleep"
    <3>1. pc' = pc
      BY <1>0, <2>1, <2>3, Zenon
    <3>2. QED
      BY <2>1, <3>1, Zenon DEF CallsTyped
  <2>4. QED
    BY <2>2, <2>3, Zenon
<1>14. ASSUME NEW t \in Threads, Collect(t) PROVE CallsTyped'
  BY <1>1, <1>14, Zenon DEF Collect, Idle, CallsTyped
<1>15. ASSUME UNCHANGED <<pc, arg>> PROVE CallsTyped'
  BY <1>15, Zenon DEF CallsTyped
<1>16. (\E t \in Threads : RemapStackWithMte(t)) \/ UNCHANGED vars => UNCHANGED <<pc, arg>>
  BY Zenon DEF RemapStackWithMte, vars
<1>17. QED
  BY <1>5, <1>6, <1>7, <1>8, <1>9, <1>10, <1>11, <1>12, <1>13, <1>14, <1>15, <1>16, CloneCases,
     Zenon, ZenonT(30) DEF Next, Progress

(***************************************************************************)
(* and so all types.                                                       *)
(***************************************************************************)
LEMMA NextType ==
  ASSUME Counts, TypeOK, \A c \in Threads : ThreadInv(c), [Next]_vars
  PROVE  TypeOK'
<1>1. CallsTyped /\ FieldsTyped /\ RunTyped /\ RingsTyped
  BY Zenon DEF TypeOK, CallsTyped, FieldsTyped, RunTyped, RingsTyped
<1>2. CallsTyped' /\ FieldsTyped' /\ RunTyped' /\ RingsTyped'
  BY <1>1, NextCallsTyped, NextFieldsTyped, NextRunTyped, NextRingsTyped, Zenon
<1>3. QED
  BY <1>2, Zenon DEF TypeOK, CallsTyped, FieldsTyped, RunTyped, RingsTyped

(***************************************************************************)
(* The invariant holds at the start of the process, with its main thread,  *)
(***************************************************************************)
LEMMA InitInv ==
  ASSUME Init
  PROVE  Inv
<1>1. TypeOK
  <2>1. CallsTyped
    BY ThreadAssumption, Zenon DEF Init, CallsTyped, Locations, UsesArg, CreatorHolds
  <2>2. FieldsTyped
    <3>1. list \subseteq Threads /\ mem \in [Threads -> {"none", "mapped", "unmapped"}]
      BY ThreadAssumption, Zenon DEF Init
    <3>2. "NOT_JOINED" \in JoinStates
      BY Zenon DEF JoinStates
    <3>3. QED
      BY <3>1, <3>2, Zenon DEF Init, FieldsTyped
  <2>3. RunTyped
    <3>1. num_tids \in Nat /\ g_sem \in Nat /\ runs \in 0 .. MaxRuns /\ ran \subseteq Threads
      BY ThreadAssumption DEF Init
    <3>2. QED
      BY <3>1, Zenon DEF Init, RunTyped
  <2>4. RingsTyped
    <3>1. rings \in [Threads -> Nat]
      BY Zenon DEF Init
    <3>2. QED
      BY <3>1, Zenon DEF Init, RingsTyped
  <2>5. QED
    BY <2>1, <2>2, <2>3, <2>4, Zenon DEF TypeOK, CallsTyped, FieldsTyped, RunTyped, RingsTyped
<1>2. MainStays
  BY ThreadAssumption, Zenon DEF Init, MainStays, Ended
<1>3. ASSUME NEW c \in Threads PROVE ThreadInv(c)
  <2>1. \A t \in Threads : ~Creates(t, c) /\ ~Uses(t, c)
    BY Zenon DEF Init, Creates, Uses, Creating, Using, Claimed
  <2>2. OneCall(c) /\ CreationInStep(c) /\ UseInStep(c)
    BY <2>1, Zenon DEF OneCall, CreationInStep, UseInStep
  <2>3. StageInStep(c) /\ mem[c] # "unmapped"
    <3>1. /\ handle[c] = "none" /\ join_state[c] = "NOT_JOINED" /\ old_state[c] = "NOT_JOINED"
          /\ ~handshake[c] /\ cleartid[c] /\ ~terminating[c]
      BY Zenon DEF Init
    <3>2. CASE c = Main
      <4>1. pc[c] = "user" /\ mem[c] = "mapped" /\ c \in list /\ tid[c]
        BY <3>2, Zenon DEF Init
      <4>2. QED
        BY <3>1, <4>1, Zenon DEF StageInStep, Alive, Leaving, Ended
    <3>3. CASE c # Main
      <4>1. pc[c] = "none" /\ mem[c] = "none" /\ c \notin list /\ ~tid[c]
        BY <3>3, Zenon DEF Init
      <4>2. QED
        BY <3>1, <4>1, Zenon DEF StageInStep, Unborn, Leaving, Ended
    <3>4. QED
      BY <3>2, <3>3, Zenon
  <2>4. SomebodyCares(c)
    BY Zenon DEF Init, SomebodyCares
  <2>5. QED
    BY <2>2, <2>3, <2>4, Zenon DEF ThreadInv
<1>4. RunExcludes
  BY Zenon DEF Init, RunExcludes, RunnerHolds
<1>5. RunInStep /\ SignalsMeetHandler
  BY Zenon DEF Init, RunInStep, SignalsMeetHandler
<1>6. RingsInStep
  BY Zenon DEF Init, RingsInStep, Creating
<1>7. QED
  BY <1>1, <1>2, <1>3, <1>4, <1>5, <1>6, Zenon DEF Inv

(***************************************************************************)
(* and every step keeps it.                                                *)
(***************************************************************************)
LEMMA NextInv ==
  ASSUME Counts, Inv, [Next]_vars
  PROVE  Inv'
<1>1. /\ TypeOK /\ MainStays /\ \A c \in Threads : ThreadInv(c)
      /\ RunExcludes /\ RunInStep /\ SignalsMeetHandler /\ RingsInStep
  BY Zenon DEF Inv
<1>2. TypeOK'
  BY <1>1, NextType, Zenon
<1>3. MainStays' /\ \A c \in Threads : ThreadInv(c)'
  BY <1>1, <1>2, NextThreads, Zenon DEF Kept
<1>4. RunExcludes'
  BY <1>1, NextExcludes, Zenon
<1>5. RunInStep' /\ SignalsMeetHandler'
  BY <1>1, NextRun, Zenon
<1>6. RingsInStep'
  BY <1>1, NextRings, Zenon
<1>7. QED
  BY <1>2, <1>3, <1>4, <1>5, <1>6, Zenon DEF Inv

(***************************************************************************)
(* What the invariant says of the mapping of a thread that has ended.      *)
(***************************************************************************)
LEMMA InvNothingLeaked ==
  ASSUME Inv
  PROVE  NothingLeaked
<1>1. SUFFICES ASSUME NEW c \in Threads, pc[c] = "dead", handle[c] # "valid", \A t \in Threads : arg[t] # c
               PROVE  mem[c] = "unmapped"
  BY Zenon DEF NothingLeaked
<1>2. ThreadInv(c) /\ MainStays /\ join_state[c] \in JoinStates
  BY Zenon DEF Inv, TypeOK
<1>3. c # Main
  BY <1>1, <1>2, Zenon DEF MainStays, Ended
<1>4. \A t \in Threads : ~Uses(t, c)
  BY <1>1, Zenon DEF Uses
<1>5. Alive(c) /\ Leaving(c) /\ SomebodyCares(c) /\ ~handshake[c]
  BY <1>1, <1>2, Zenon DEF ThreadInv, StageInStep, Alive
<1>6. CASE join_state[c] = "DETACHED"
  BY <1>1, <1>5, <1>6, Zenon DEF Leaving, Ended
<1>7. CASE join_state[c] = "JOINED"
  BY <1>4, <1>5, <1>7, Zenon DEF SomebodyCares
<1>8. CASE join_state[c] = "EXITED_NOT_JOINED"
  <2>1. c \in list \ {Main}
    BY <1>3, <1>5, <1>8 DEF Alive
  <2>2. QED
    BY <1>1, <1>4, <1>5, <1>8, <2>1, Zenon DEF SomebodyCares
<1>9. QED
  BY <1>1, <1>2, <1>5, <1>6, <1>7, <1>8 DEF JoinStates, Leaving, Ended

(***************************************************************************)
(* What it says of a call that is about to return and of the ring buffers. *)
(***************************************************************************)
LEMMA InvRunIsComplete ==
  ASSUME Inv
  PROVE  RunIsComplete
<1>1. RunInStep /\ SignalsMeetHandler /\ RingsInStep
  BY Zenon DEF Inv
<1>2. ASSUME NEW t \in Threads, pc[t] = "restore", RunExcludes
      PROVE  /\ g_retval => failed = {}
             /\ \A u \in Threads : pc[u] \notin {"none", "dead"} => terminating[u] \/ u \in ran \union failed
  <2>1. \A u \in Threads : ~pending[u]
    BY <1>1, <1>2, Alone DEF RunnerHolds
  <2>2. \A u \in Threads : pc[u] \notin {"none", "dead"} => terminating[u] \/ u \in ran \union failed \/ pending[u]
    BY <1>1, <1>2 DEF RunInStep, At
  <2>3. QED
    BY <1>1, <2>1, <2>2 DEF RunInStep
<1>3. RunReachesEveryone
  BY <1>2 DEF RunReachesEveryone, At, Inv
<1>4. OneRingBufferEach
  BY <1>1 DEF OneRingBufferEach, RingsInStep, At
<1>5. QED
  BY <1>1, <1>3, <1>4 DEF RunIsComplete

FS == INSTANCE FiniteSetTheorems

(***************************************************************************)
(* Counting threads.                                                       *)
(***************************************************************************)
LEMMA ThreadsCounted == Counts
<1>0. SUFFICES ASSUME NEW S \in SUBSET Threads
               PROVE  /\ Cardinality(S) \in Nat /\ (Cardinality(S) = 0 => S = {})
                      /\ \A t \in S : Cardinality(S \ {t}) = Cardinality(S) - 1
  BY Zenon DEF Counts
<1>1. \A T : Cardinality(T) = FS!Cardinality(T)
  BY Zenon DEF Cardinality, FS!Cardinality
<1>2. FS!IsFiniteSet(Threads)
  BY ThreadAssumption, Zenon DEF IsFiniteSet, FS!IsFiniteSet
<1>3. FS!IsFiniteSet(S) /\ FS!Cardinality(S) \in Nat
  BY <1>2, FS!FS_Subset, FS!FS_CardinalityType
<1>4. FS!Cardinality(S) = 0 => S = {}
  BY <1>3, FS!FS_EmptySet
<1>5. ASSUME NEW t \in S PROVE FS!Cardinality(S \ {t}) = FS!Cardinality(S) - 1
  BY <1>3, FS!FS_RemoveElement, Zenon
<1>6. QED
  BY <1>1, <1>3, <1>4, <1>5, SMTT(30)

(***************************************************************************)
(* For any number of threads and of calls of android_run_on_all_threads,   *)
(* every thread's mapping, handle, list entry, tid and join state are in   *)
(* step with how far it and the calls that work on it have come, and so    *)
(* are the creation lock, the signals and the ring buffers.                *)
(***************************************************************************)
THEOREM ThreadsInvariant == Spec => []Inv
<1>1. Init => Inv
  BY InitInv, SMTT(30)
<1>2. Inv /\ [Next]_vars => Inv'
  BY NextInv, ThreadsCounted
<1>3. QED
  BY <1>1, <1>2, PTL DEF Spec

(***************************************************************************)
(* However pthread_exit, pthread_join and pthread_detach race, a thread's  *)
(* mapping is unmapped only when neither the thread, the kernel, the list  *)
(* nor any call will touch it again.                                       *)
(***************************************************************************)
THEOREM UnmappedIsOutOfUse == Spec => []NoUseAfterUnmap
<1>1. Inv => NoUseAfterUnmap
  BY Zenon DEF Inv, ThreadInv, NoUseAfterUnmap
<1>2. QED
  BY <1>1, ThreadsInvariant, PTL

(***************************************************************************)
(* A thread that has ended and was joined or detached leaves no mapping    *)
(* behind once the calls on it have returned.                              *)
(***************************************************************************)
THEOREM NothingEverLeaked == Spec => []NothingLeaked
<1>1. Inv => NothingLeaked
  BY InvNothingLeaked
<1>2. QED
  BY <1>1, ThreadsInvariant, PTL

(***************************************************************************)
(* When android_run_on_all_threads returns, func has run on every thread   *)
(* that is not terminating, but for those that tgkill could not signal,    *)
(* and if there were any, or func failed anywhere, it returns false; no    *)
(* signal of it is left pending at any time outside the call; and after    *)
(* the switch to the memtag-stack ABI every running thread has exactly one *)
(* ring buffer.                                                            *)
(***************************************************************************)
THEOREM RunAlwaysComplete == Spec => []RunIsComplete
<1>1. Inv => RunIsComplete
  BY InvRunIsComplete
<1>2. QED
  BY <1>1, ThreadsInvariant, PTL

=============================================================================
