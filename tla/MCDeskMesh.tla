----------------------------- MODULE MCDeskMesh -----------------------------
(* Finite instances of DeskMesh.                                           *)
EXTENDS DeskMesh, TLC

CONSTANTS intel, research

TwoDesks == <<intel, research>>
OneDesk == <<intel>>

MeshSymmetry == Permutations(Runs) \cup Permutations(Fixtures)
=============================================================================
