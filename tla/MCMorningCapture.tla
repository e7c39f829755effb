--------------------------- MODULE MCMorningCapture ---------------------------
(* Finite instances of MorningCapture.                                     *)
EXTENDS MorningCapture, TLC

(* Runs and rows have no order; the clock and the anchors do.              *)
Symmetry == Permutations(Runs) \cup Permutations(Names)
=============================================================================
