------------------------------ MODULE MCUserAccount ------------------------------
(* Instances of UserAccount for TLC. *)
EXTENDS UserAccount, TLC

\* Each provider has a format of its own; one identifier fits both.
AcceptedByProvider ==
    [p \in Providers |-> IF p = "bank" THEN Identifiers ELSE Identifiers \ {"iban"}]

Symmetry == Permutations(Users) \cup Permutations(Keys) \cup Permutations(Methods)
              \cup Permutations(Requests)

=================================================================================
