------------------------------ MODULE MCEscrowTrade ------------------------------
(* Instances of EscrowTrade for TLC. *)
EXTENDS EscrowTrade, TLC

Symmetry == Permutations(Orders) \cup Permutations(Requests)

=================================================================================
