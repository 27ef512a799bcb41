------------------------------ MODULE MCCouncil ------------------------------
(* Instances of Council for TLC. *)
EXTENDS Council, TLC

MCRoom == [e \in Experts |-> 1]

=============================================================================
