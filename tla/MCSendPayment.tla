------------------------------ MODULE MCSendPayment ------------------------------
(* Instances of SendPayment for TLC. *)
EXTENDS SendPayment, TLC

CONSTANTS ana, bob, treasury, nick, w1, w2

\* Two wishes of one account.  The text of the first has zeros behind the point, and so
\* has its fee: 1.0050000 and 0.0030150.
MCWish ==
    w1 :> [via |-> "send", source |-> ana, to |-> nick, amount |-> [int |-> 1, dec |-> <<0, 0, 5>>]]
    @@ w2 :> [via |-> "pay", source |-> ana, to |-> bob, amount |-> [int |-> 0, dec |-> <<5>>]]

MCLifetime == [send |-> 1, pay |-> 0]

=================================================================================
