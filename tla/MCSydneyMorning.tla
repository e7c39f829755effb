-------------------------- MODULE MCSydneyMorning --------------------------
(* Finite instances of SydneyMorning.                                      *)
EXTENDS SydneyMorning, TLC

(* Runs are interchangeable: nothing in the workflow orders them.          *)
RunSymmetry == Permutations(Runs)

AllDays == 1..LastDay

(* The last local day is a Saturday.                                       *)
AllButLast == 1..(LastDay - 1)
=============================================================================
