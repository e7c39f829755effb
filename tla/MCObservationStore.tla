-------------------------- MODULE MCObservationStore --------------------------
(* Finite instances of ObservationStore.                                   *)
EXTENDS ObservationStore, TLC

(* Invocations, values and payloads are interchangeable.                   *)
StoreSymmetry == Permutations(Sessions) \cup Permutations(Values) \cup Permutations(Payloads)
=============================================================================
