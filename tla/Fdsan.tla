------------------------------- MODULE Fdsan -------------------------------
(***************************************************************************)
(* The file descriptor sanitizer (libc/bionic/fdsan.cpp): a table of close *)
(* tags indexed by descriptor, of which the first InlineFds are part of    *)
(* the libc globals and the rest is a table that the first thread to need  *)
(* it allocates, without a lock.  Several threads of a correct program     *)
(* open a descriptor, give it to a FILE (which tags it) or keep it         *)
(* untagged, and close it once; a thread may vfork in between, and the     *)
(* child, which shares the memory but has a descriptor table of its own,   *)
(* may close its copy.                                                     *)
(***************************************************************************)
EXTENDS Naturals

CONSTANTS
    Threads,
    NoTag,       \* close tag 0, and "no table" (model value)
    InlineFds,   \* FdTableImpl<128>
    MaxFds,      \* RLIMIT_NOFILE when the program starts
    LowFds,      \* what a program may lower its hard limit to
    PageEntries  \* entries per page: the size of the allocation is rounded up

VARIABLES
    open,       \* descriptors open in the process (kernel)
    rlim_max,   \* RLIMIT_NOFILE (kernel)
    overflow,   \* FdTable::overflow: the thread that allocated it, or NoTag
    len,        \* FdTableOverflow::len of each table, 0 when unmapped
    close_tag,  \* FdEntry::close_tag of each entry <<table, fd>>
    pc,         \* where each thread is
    fd,         \* the descriptor a thread owns
    owner,      \* the tag it is owned with: the FILE of the thread, or NoTag
    table,      \* the table at() returned an entry of; NoTag is nullptr
    fdsan_error \* the descriptors the sanitizer has reported

vars == <<open, rlim_max, overflow, len, close_tag, pc, fd, owner, table,
          fdsan_error>>

Fds == 0 .. MaxFds - 1
Inline == "inline"
Header == 1  \* sizeof(FdTableOverflow), in entries
Entries == (Threads \union {Inline}) \X Fds

TypeOK ==
    /\ open \subseteq Fds
    /\ rlim_max \in {MaxFds, LowFds}
    /\ overflow \in Threads \union {NoTag}
    /\ len \in [Threads -> Nat]
    /\ close_tag \in [Entries -> Threads \union {NoTag}]
    /\ pc \in [Threads -> {"idle", "at", "create", "exchange", "held", "child",
                           "closing", "closeAt", "closeCreate", "close", "gone"}]
    /\ fd \in [Threads -> Fds]
    /\ owner \in [Threads -> Threads \union {NoTag}]
    /\ table \in [Threads -> Threads \union {NoTag, Inline}]
    /\ fdsan_error \subseteq Fds

Init ==
    /\ open = {}
    /\ rlim_max = MaxFds
    /\ overflow = NoTag
    /\ len = [t \in Threads |-> 0]
    /\ close_tag = [e \in Entries |-> NoTag]
    /\ pc = [t \in Threads |-> "idle"]
    /\ fd = [t \in Threads |-> 0]
    /\ owner = [t \in Threads |-> NoTag]
    /\ table = [t \in Threads |-> NoTag]
    /\ fdsan_error = {}

Goto(t, l) == pc' = [pc EXCEPT ![t] = l]

(* open() or fcntl(F_DUPFD): some free descriptor below the limit. *)
Open(t) ==
    /\ pc[t] = "idle"
    /\ \E f \in Fds \ open :
         /\ f < rlim_max
         /\ open' = open \union {f}
         /\ fd' = [fd EXCEPT ![t] = f]
    /\ \/ /\ owner' = [owner EXCEPT ![t] = t]         \* __FILE_init
          /\ Goto(t, "at")
       \/ /\ owner' = [owner EXCEPT ![t] = NoTag]
          /\ Goto(t, "held")
    /\ UNCHANGED <<rlim_max, overflow, len, close_tag, table, fdsan_error>>

(* setrlimit: a process may always lower its hard limit, also below the    *)
(* descriptors it has open.                                                *)
LowerLimit ==
    /\ rlim_max' = LowFds
    /\ UNCHANGED <<open, overflow, len, close_tag, pc, fd, owner, table, fdsan_error>>

EntryIn(o, f) == IF len[o] <= f - InlineFds THEN NoTag ELSE o

(* FdTableImpl::at up to the load of overflow and the test of the limit. *)
At(t) ==
    LET closing == pc[t] = "closeAt"
        found   == IF closing THEN "closing" ELSE "exchange"
    IN  /\ pc[t] \in {"at", "closeAt"}
        /\ \/ /\ fd[t] < InlineFds
              /\ table' = [table EXCEPT ![t] = Inline]
              /\ Goto(t, found)
              /\ UNCHANGED len
           \/ /\ fd[t] >= InlineFds
              /\ overflow # NoTag
              /\ table' = [table EXCEPT ![t] = EntryIn(overflow, fd[t])]
              /\ Goto(t, found)
              /\ UNCHANGED len
           \/ /\ fd[t] >= InlineFds
              /\ overflow = NoTag
              /\ fd[t] > rlim_max
              /\ table' = [table EXCEPT ![t] = NoTag]
              /\ Goto(t, found)
              /\ UNCHANGED len
           \/ /\ fd[t] >= InlineFds
              /\ overflow = NoTag
              /\ fd[t] <= rlim_max
              /\ LET required == rlim_max - InlineFds + Header
                     pages    == (required + PageEntries - 1) \div PageEntries
                 IN  len' = [len EXCEPT ![t] = pages * PageEntries - Header]
              /\ Goto(t, IF closing THEN "closeCreate" ELSE "create")
              /\ UNCHANGED table
        /\ UNCHANGED <<open, rlim_max, overflow, close_tag, fd, owner, fdsan_error>>

(* A faulty variant of Publish: the new table is stored without looking    *)
(* whether another thread has published one meanwhile.                     *)
PublishOver(t) == overflow' = t

(* The compare-exchange of overflow: the first table published stays. *)
Publish(t) == overflow' = IF overflow = NoTag THEN t ELSE overflow

(* The rest of at: publish the table just allocated, or unmap it and use   *)
(* the one that another thread published.                                  *)
Create(t) ==
    /\ pc[t] \in {"create", "closeCreate"}
    /\ Publish(t)
    /\ table' = [table EXCEPT ![t] = EntryIn(overflow', fd[t])]
    /\ len' = IF overflow' = t THEN len ELSE [len EXCEPT ![t] = 0]
    /\ Goto(t, IF pc[t] = "create" THEN "exchange" ELSE "closing")
    /\ UNCHANGED <<open, rlim_max, close_tag, fd, owner, fdsan_error>>

(* The compare-exchange of a close tag; a mismatch is reported. *)
ExchangeTag(t, expected, new) ==
    LET e == <<table[t], fd[t]>>
    IN  IF table[t] = NoTag THEN UNCHANGED <<close_tag, fdsan_error>>
        ELSE IF close_tag[e] = expected
        THEN /\ close_tag' = [close_tag EXCEPT ![e] = new]
             /\ UNCHANGED fdsan_error
        ELSE /\ fdsan_error' = fdsan_error \union {fd[t]}
             /\ UNCHANGED close_tag

(* android_fdsan_exchange_owner_tag once it has the entry. *)
ExchangeOwnerTag(t) ==
    /\ pc[t] = "exchange"
    /\ ExchangeTag(t, NoTag, owner[t])
    /\ Goto(t, "held")
    /\ UNCHANGED <<open, rlim_max, overflow, len, fd, owner, table>>

(* vfork suspends the thread until its child, running on its stack with    *)
(* vforked_ set, has called exec or _exit.                                 *)
Vfork(t) ==
    /\ pc[t] = "held"
    /\ Goto(t, "child")
    /\ UNCHANGED <<open, rlim_max, overflow, len, close_tag, fd, owner, table,
                   fdsan_error>>

(* A faulty variant of VforkedClose: the child does not look at vforked_   *)
(* and clears the tag in the memory it shares with its parent.             *)
VforkedCloseClears(t) ==
    /\ pc[t] = "child"
    /\ close_tag' = [close_tag EXCEPT ![<<table[t], fd[t]>>] = NoTag]
    /\ Goto(t, "gone")
    /\ UNCHANGED <<open, rlim_max, overflow, len, fd, owner, table, fdsan_error>>

(* android_fdsan_close_with_tag in the vforked child: only __close, which  *)
(* acts on the child's own descriptors.                                    *)
VforkedClose(t) ==
    /\ pc[t] = "child"
    /\ Goto(t, "gone")
    /\ UNCHANGED <<open, rlim_max, overflow, len, close_tag, fd, owner, table,
                   fdsan_error>>

VforkReturns(t) ==
    /\ pc[t] \in {"child", "gone"}
    /\ Goto(t, "held")
    /\ UNCHANGED <<open, rlim_max, overflow, len, close_tag, fd, owner, table,
                   fdsan_error>>

(* android_fdsan_close_with_tag: by __sclose with the tag of the FILE, by  *)
(* close() with none.                                                      *)
CloseWithTag(t) ==
    /\ pc[t] = "held"
    /\ Goto(t, "closeAt")
    /\ UNCHANGED <<open, rlim_max, overflow, len, close_tag, fd, owner, table,
                   fdsan_error>>

ClearTag(t) ==
    /\ pc[t] = "closing"
    /\ ExchangeTag(t, owner[t], NoTag)
    /\ Goto(t, "close")
    /\ UNCHANGED <<open, rlim_max, overflow, len, fd, owner, table>>

(* __close; EBADF is an error for a tagged descriptor. *)
Close(t) ==
    /\ pc[t] = "close"
    /\ open' = open \ {fd[t]}
    /\ fdsan_error' = IF owner[t] # NoTag /\ fd[t] \notin open
                      THEN fdsan_error \union {fd[t]} ELSE fdsan_error
    /\ Goto(t, "idle")
    /\ fd' = [fd EXCEPT ![t] = 0]
    /\ owner' = [owner EXCEPT ![t] = NoTag]
    /\ table' = [table EXCEPT ![t] = NoTag]
    /\ UNCHANGED <<rlim_max, overflow, len, close_tag>>

Next ==
    \/ LowerLimit
    \/ \E t \in Threads :
        \/ Open(t)
        \/ At(t)
        \/ Create(t)
        \/ ExchangeOwnerTag(t)
        \/ Vfork(t)
        \/ VforkedClose(t)
        \/ VforkReturns(t)
        \/ CloseWithTag(t)
        \/ ClearTag(t)
        \/ Close(t)

Spec == Init /\ [][Next]_vars

(* The sanitizer reports no descriptor of a program that closes each once, *)
(* with the tag it gave it, as long as the descriptor is below the limit:  *)
(* not when it is reused by another thread right after __close, not when   *)
(* two threads create the overflow table at once or the limit changes      *)
(* meanwhile, and not after a vforked child closed its copy.  Above a      *)
(* lowered limit at() may ignore a tag and find the entry of a table       *)
(* created later, which is rounded up to pages.                            *)
NoFalseAlarm == \A f \in fdsan_error : f >= rlim_max
-----------------------------------------------------------------------------
(***************************************************************************)
(* The inductive invariant.  Whether at() finds an entry for f, and where. *)
(***************************************************************************)
Home(f) == IF f < InlineFds THEN Inline ELSE overflow
Reaches(f) == f < InlineFds \/ (overflow # NoTag /\ f < InlineFds + len[overflow])

(***************************************************************************)
(* A thread owns its descriptor alone.                                     *)
(***************************************************************************)
OwnersApart ==
    /\ \A t \in Threads : owner[t] \in {t, NoTag} /\ (pc[t] # "idle" => fd[t] \in open)
    /\ \A t, u \in Threads : pc[t] # "idle" /\ pc[u] # "idle" /\ fd[t] = fd[u] => t = u

(***************************************************************************)
(* A table has an entry for every descriptor below the limit, also when    *)
(* the limit is lowered before it is published; at() finds the entry       *)
(* there is, and ignores only descriptors above the limit.                 *)
(***************************************************************************)
TablesFit ==
    /\ overflow # NoTag => InlineFds + len[overflow] >= rlim_max
    /\ \A t \in Threads :
         /\ pc[t] \in {"at", "create", "exchange"} => owner[t] = t
         /\ pc[t] \in {"create", "closeCreate"} =>
              fd[t] >= InlineFds /\ InlineFds + len[t] >= rlim_max
         /\ pc[t] \in {"exchange", "closing"} =>
              \/ table[t] = NoTag /\ fd[t] >= rlim_max
              \/ table[t] = Home(fd[t]) /\ Reaches(fd[t])

(***************************************************************************)
(* The tags there are belong to the owners, and the owners of descriptors  *)
(* below the limit have theirs.                                            *)
(***************************************************************************)
Tagged(t) ==
    owner[t] = t /\ pc[t] \in {"held", "child", "gone", "closeAt", "closeCreate", "closing"}

TagsAgree ==
    /\ \A e \in Entries : close_tag[e] # NoTag =>
         \E t \in Threads :
           /\ Tagged(t) /\ Reaches(fd[t])
           /\ e = <<Home(fd[t]), fd[t]>> /\ close_tag[e] = t
           /\ pc[t] = "closing" => table[t] # NoTag
    /\ \A t \in Threads : Tagged(t) =>
         fd[t] >= rlim_max \/ (Reaches(fd[t]) /\ close_tag[<<Home(fd[t]), fd[t]>>] = t)

Inv == TypeOK /\ OwnersApart /\ TablesFit /\ TagsAgree /\ NoFalseAlarm
=============================================================================
