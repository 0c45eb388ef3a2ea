----------------------------- MODULE MCAuthChallenge -----------------------------
(* Instances of AuthChallenge for TLC. *)
EXTENDS AuthChallenge, TLC

Symmetry == Permutations(Keys) \cup Permutations(Challenges) \cup Permutations(Requests)

=================================================================================
