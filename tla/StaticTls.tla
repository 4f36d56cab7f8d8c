----------------------------- MODULE StaticTls -----------------------------
(***************************************************************************)
(* The layout of static TLS, an instance of StaticTlsLayout over variables *)
(* of its own.                                                             *)
(***************************************************************************)
EXTENDS Integers

CONSTANTS
  Sizes, Aligns, Skews, MaxSolibs

VARIABLES
  arch, cursor, align, placed, tcb, exe, step

layout == <<arch, cursor, align, placed, tcb, exe, step>>

Layout == INSTANCE StaticTlsLayout

(***************************************************************************)
(* Alignments are powers of two; all that matters is that of two of them   *)
(* the greater is a multiple of the other.                                 *)
(***************************************************************************)
ASSUME LayoutAssumption ==
  /\ Sizes \cup Skews \subseteq Nat /\ Aligns \subseteq Nat \ {0} /\ MaxSolibs \in Nat
  /\ \A a, b \in Aligns \cup {Layout!Word} : a <= b => b % a = 0

-----------------------------------------------------------------------------
(***************************************************************************)
(* The parts of static TLS do not overlap, have their alignment, and the   *)
(* executable's segment has the offset from the thread pointer that the    *)
(* static linker assumed, for each architecture.                           *)
(***************************************************************************)
LayoutIsSound == Layout!LayoutIsSound
=============================================================================
