------------------------------ MODULE MCHumanIndex ------------------------------
(* Instances of HumanIndex for TLC. *)
EXTENDS HumanIndex, TLC

Symmetry == Permutations(Identities) \cup Permutations(Builders)

=============================================================================
