--------------------------- MODULE MCHwBreakpoints ---------------------------
(* HwBreakpoints on a small instance; thread ids are interchangeable. *)
EXTENDS HwBreakpoints, TLC

Symmetry == Permutations(Tids)
=============================================================================
