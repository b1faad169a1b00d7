----------------------------- MODULE MCAuthMemory -----------------------------
(* Small instances of AuthMemory for TLC. *)
EXTENDS AuthMemory, TLC

Two == [k \in Keys |-> 2]

Symmetry == Permutations(Requests) \cup Permutations(Nodes) \cup Permutations(Flows)

=============================================================================
