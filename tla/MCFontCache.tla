----------------------------- MODULE MCFontCache -----------------------------
(***************************************************************************)
(* Constants for the runs of the font cache: few addresses, so that freed  *)
(* ones are reused by fonts of another kind, and a first call shortly      *)
(* before the tick count wraps.                                            *)
(***************************************************************************)
EXTENDS FontCache, TLC

CONSTANTS f1, f2, f3, t1, t2

TwoAddrs == {f1, f2}
ThreeAddrs == {f1, f2, f3}
OneThread == {t1}
TwoThreads == {t1, t2}
Regular == [set |-> "regular", height |-> 1]
Bold == [set |-> "bold", height |-> 2]
TallRegular == [set |-> "regular", height |-> 3]
AllKinds == {Regular, Bold, TallRegular}
MCIndices == 1 .. 2
MCFirstClocks == {9}
RaceFirstClocks == {10}
RaceSymmetry == Permutations(TwoThreads) \cup Permutations(TwoAddrs)
AddrSymmetry == Permutations(ThreeAddrs)
=============================================================================
