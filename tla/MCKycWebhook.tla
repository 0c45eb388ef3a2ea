------------------------------ MODULE MCKycWebhook ------------------------------
(* Instances of KycWebhook for TLC. *)
EXTENDS KycWebhook, TLC

Symmetry == Permutations(Users) \cup Permutations(Webhooks) \cup Permutations(Requests)

=================================================================================
