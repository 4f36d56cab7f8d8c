-------------------------- MODULE StaticTlsLayout --------------------------
(***************************************************************************)
(* The layout of static thread-local storage, StaticTlsLayout in           *)
(* libc/bionic/bionic_elf_tls.cpp: where the thread control block, the     *)
(* executable's TLS segment, bionic_tls and the segments of the libraries  *)
(* loaded at startup are placed around the thread pointer.  Sizes and      *)
(* offsets are in bytes.                                                   *)
(***************************************************************************)
EXTENDS Integers, Sequences

CONSTANTS
  Sizes,            \* Sizes of TLS segments,
  Aligns,           \* their alignments, powers of two,
  Skews,            \* where they begin relative to these,
  MaxSolibs         \* and how many libraries are loaded at startup.

Word == 8
Archs == {"arm64", "x86_64", "riscv64"}
MIN_TLS_SLOT == [arm64 |-> -3, x86_64 |-> 0, riscv64 |-> -10]
MAX_TLS_SLOT == [arm64 |-> 7, x86_64 |-> 10, riscv64 |-> -1]
BionicTlsSize == 100

AlignedSize(size, align, skew) == [size |-> size, align |-> align, skew |-> skew]

Max(S) == CHOOSE m \in S : \A n \in S : n <= m   \* std::max

Segments ==
  {s \in [size : Sizes, align : Aligns, skew : Skews] : s.skew < s.align}

VARIABLES
  arch,
  cursor,           \* cursor_
  align,            \* align_
  placed,           \* What has been placed, each with its offset.
  tcb,              \* offset_bionic_tcb_
  exe,              \* offset_exe_
  step              \* What comes next.

vars == <<arch, cursor, align, placed, tcb, exe, step>>

Init ==
  /\ arch \in Archs
  /\ cursor = 0 /\ align = 1
  /\ placed = <<>>
  /\ tcb = -1 /\ exe = -1
  /\ step = "exe"

align_checked(value, a, skew) == ((value - skew + a - 1) \div a) * a + skew

tp == tcb - MIN_TLS_SLOT[arch] * Word

-----------------------------------------------------------------------------
(***************************************************************************)
(* reserve places s at the first suitable offset from c on.                *)
(***************************************************************************)
ReserveAt(c, s) == align_checked(c, s.align, s.skew)

EndOf(c, s) == ReserveAt(c, s) + s.size

(***************************************************************************)
(* reserve_tp_pair places one thing before the thread pointer and one      *)
(* after it, both as close to it as they can be.                           *)
(***************************************************************************)
ReserveTpPairUnshifted(c, before, after) ==
  LET end == align_checked(EndOf(c, before), before.align, 0)
      pointer == align_checked(end, Max({before.align, after.align}), 0)
  IN [before |-> ReserveAt(c, before), tp |-> pointer, after |-> ReserveAt(pointer, after)]
  \* A faulty variant that leaves the padding in front of the thread pointer.

ReserveTpPair(c, before, after) ==
  LET end == align_checked(EndOf(c, before), before.align, 0)
      pointer == align_checked(end, Max({before.align, after.align}), 0)
  IN [before |-> ReserveAt(c, before) + (pointer - end),
      tp |-> pointer,
      after |-> ReserveAt(pointer, after)]

Place(s, offset) == [offset |-> offset, size |-> s.size, align |-> s.align, skew |-> s.skew]

Slots(first, last) == AlignedSize((last - first + 1) * Word, Word, 0)

Tcb == Slots(MIN_TLS_SLOT[arch], MAX_TLS_SLOT[arch])

(***************************************************************************)
(* reserve_exe_segment_and_tcb.                                            *)
(***************************************************************************)
ReserveTcbOnly ==
  /\ step = "exe"
  /\ tcb' = ReserveAt(cursor, Tcb)
  /\ cursor' = EndOf(cursor, Tcb)
  /\ align' = Max({align, Word})
  /\ placed' = <<Place(Tcb, tcb')>>
  /\ step' = "bionic_tls"
  /\ UNCHANGED <<arch, exe>>

(***************************************************************************)
(* ARM: the non-negative slots follow the thread pointer and the segment   *)
(* follows them, unless the ABI wants it elsewhere, which is fatal.        *)
(***************************************************************************)
ReserveExeArm(s) ==
  LET pre == [Slots(MIN_TLS_SLOT[arch], -1) EXCEPT !.align = 1]
      post == [Slots(0, MAX_TLS_SLOT[arch]) EXCEPT !.align = Max({Word, s.align})]
      pair == ReserveTpPair(cursor, pre, post)
      afterTcb == pair.after + post.size
  IN /\ step = "exe" /\ arch = "arm64"
     /\ tcb' = pair.before
     /\ exe' = ReserveAt(afterTcb, s)
     /\ cursor' = exe' + s.size
     /\ align' = Max({align, post.align, s.align})
     /\ placed' = <<Place(Tcb, tcb'), Place(s, exe')>>
     /\ step' = IF align_checked(2 * Word, s.align, s.skew)
                     = align_checked(post.size, s.align, s.skew)
                THEN "bionic_tls" ELSE "fatal"
     /\ UNCHANGED arch

ReserveExeX86(s) ==
  LET pair == ReserveTpPair(cursor, s, Tcb)
  IN /\ step = "exe" /\ arch = "x86_64"
     /\ exe' = pair.before
     /\ tcb' = pair.after
     /\ cursor' = tcb' + Tcb.size
     /\ align' = Max({align, s.align, Word})
     /\ placed' = <<Place(s, exe'), Place(Tcb, tcb')>>
     /\ step' = "bionic_tls"
     /\ UNCHANGED arch

ReserveExeRiscv(s) ==
  LET pair == ReserveTpPair(cursor, Tcb, s)
  IN /\ step = "exe" /\ arch = "riscv64"
     /\ tcb' = pair.before
     /\ exe' = pair.after
     /\ cursor' = exe' + s.size
     /\ align' = Max({align, s.align, Word})
     /\ placed' = <<Place(Tcb, tcb'), Place(s, exe')>>
     /\ step' = "bionic_tls"
     /\ UNCHANGED arch

(***************************************************************************)
(* reserve_bionic_tls, reserve_solib_segment and finish_layout.            *)
(***************************************************************************)
Reserve(s) ==
  /\ cursor' = EndOf(cursor, s)
  /\ align' = Max({align, s.align})
  /\ placed' = Append(placed, Place(s, ReserveAt(cursor, s)))
  /\ UNCHANGED <<arch, tcb, exe>>

ReserveBionicTls ==
  /\ step = "bionic_tls"
  /\ Reserve(AlignedSize(BionicTlsSize, Word, 0))
  /\ step' = "solibs"

ReserveSolibSegment(s) ==
  /\ step = "solibs"
  /\ Len(placed) < 3 + MaxSolibs
  /\ Reserve(s)
  /\ UNCHANGED step

FinishLayout ==
  /\ step = "solibs"
  /\ cursor' = align_checked(cursor, align, 0)
  /\ step' = "finished"
  /\ UNCHANGED <<arch, align, placed, tcb, exe>>

Next ==
  \/ ReserveTcbOnly
  \/ \E s \in Segments : \/ ReserveExeArm(s) \/ ReserveExeX86(s) \/ ReserveExeRiscv(s)
                         \/ ReserveSolibSegment(s)
  \/ ReserveBionicTls
  \/ FinishLayout

Spec == Init /\ [][Next]_vars

-----------------------------------------------------------------------------
(***************************************************************************)
(* What is placed lies inside, in order, without overlap, and has its      *)
(* alignment in a block aligned to align_.                                 *)
(***************************************************************************)
PlacedApart ==
  \A n \in DOMAIN placed :
    /\ placed[n].offset >= 0
    /\ placed[n].offset % placed[n].align = placed[n].skew
    /\ align % placed[n].align = 0
    /\ placed[n].offset + placed[n].size <= cursor
    /\ \A m \in 1 .. n - 1 : placed[m].offset + placed[m].size <= placed[n].offset

(***************************************************************************)
(* The executable's segment has the offset from the thread pointer that    *)
(* the static linker has compiled into the code: on ARM it follows two     *)
(* words, on x86 it ends as close before the thread pointer as its         *)
(* alignment allows, on RISC-V it begins as close after it.                *)
(***************************************************************************)
ExeAsLinked ==
  exe >= 0 /\ step # "fatal" =>
    \E n \in DOMAIN placed :
      /\ placed[n].offset = exe
      /\ tp % placed[n].align = 0
      /\ arch = "arm64" => exe - tp = align_checked(2 * Word, placed[n].align, placed[n].skew)
      /\ arch = "x86_64" => tp - exe - placed[n].size \in 0 .. placed[n].align - 1
      /\ arch = "riscv64" => exe - tp = placed[n].skew

(***************************************************************************)
(* The layout is one a thread can use, and a block of its size can follow  *)
(* another.                                                                *)
(***************************************************************************)
LayoutIsSound ==
  PlacedApart /\ ExeAsLinked /\ (step = "finished" => cursor % align = 0)

-----------------------------------------------------------------------------
(***************************************************************************)
(* The inductive invariant: the layout so far is sound, and nothing has    *)
(* been placed before the executable's segment.                            *)
(***************************************************************************)
Placed == [offset : Nat, size : Nat, align : Aligns \cup {Word}, skew : Nat]

TypeOK ==
  /\ arch \in Archs
  /\ cursor \in Nat /\ align \in Aligns \cup {Word, 1}
  /\ placed \in Seq(Placed)
  /\ tcb \in Int /\ exe \in Int
  /\ step \in {"exe", "bionic_tls", "solibs", "finished", "fatal"}

Inv ==
  /\ TypeOK
  /\ step = "exe" => cursor = 0 /\ align = 1 /\ placed = <<>> /\ exe = -1
  /\ LayoutIsSound
=============================================================================
