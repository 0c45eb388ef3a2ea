----------------------------- MODULE MCEscrowOpening -----------------------------
(* Instances of EscrowOpening for TLC. *)
EXTENDS EscrowOpening, TLC

Symmetry ==
    Permutations(Orders) \cup Permutations(Rows) \cup Permutations(Contracts)
        \cup Permutations(Requests)

=================================================================================
