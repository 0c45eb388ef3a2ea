----------------------------- MODULE MCAuthRateLimit -----------------------------
(***************************************************************************)
(* Two addresses, windows of two ticks, two attempts each.                 *)
(***************************************************************************)
EXTENDS AuthRateLimit, TLC

Symmetry == Permutations(Callers)

==================================================================================
