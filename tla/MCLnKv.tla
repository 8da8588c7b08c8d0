------------------------------- MODULE MCLnKv -------------------------------
(* Instances of LnKv for TLC.                                              *)
EXTENDS LnKv, TLC

\* An item of one unit of header and one of body: two items fill a block of
\* five units, a torn header leaves room for two more.
SameSize == [v \in Vals |-> 1]

\* A short and a long value
TwoSizes == [v \in Vals |-> IF v = "long" THEN 2 ELSE 1]

Anywhere == PC

\* Power stays on from the erase of a gc source to the gc_done mark.
NotBeforeDone == PC \ {"gc_magic", "gc_done"}

\* Power fails only while a gc has erased its source and not yet marked its
\* destination done, or has marked only its source.
AroundDone == {"gc_magic", "gc_done", "gc_dst"}

KeySymmetry == Permutations(Keys)
Symmetry == Permutations(Keys) \cup Permutations(Vals)
=============================================================================
