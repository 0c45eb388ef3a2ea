------------------------------ MODULE EscrowPromise ------------------------------
(***************************************************************************)
(* What the escrow promises buyer and seller of an order, without handlers,*)
(* transactions, listener or cron: where the seller's money is, whether    *)
(* the buyer has confirmed the fiat payment, and what the platform says.   *)
(* EscrowTrade implements it.                                              *)
(***************************************************************************)
CONSTANT Orders

VARIABLES
    offered,   \* orders whose parties were told where to put the money
    money,     \* money[o]: where the seller's money is
    fiatSent,  \* orders whose buyer has confirmed on chain that the fiat was sent
    claim      \* claim[o]: what the platform says about the money

vars == <<offered, money, fiatSent, claim>>

Place == {"seller", "escrow", "buyer", "returned", "called off"}
Claim == {"none", "empty", "held", "fiat sent", "paid", "ended"}

\* The history that bears a claim out.
Justified(o, c) ==
    CASE c = "none"      -> TRUE
      [] c = "empty"     -> o \in offered
      [] c = "held"      -> money[o] \in {"escrow", "buyer", "returned"}
      [] c = "fiat sent" -> o \in fiatSent
      [] c = "paid"      -> money[o] = "buyer"
      [] c = "ended"     -> money[o] \in {"returned", "called off"}

\* The order is on record, and so is its escrow; from then on money may come.
Offer(o) ==
    /\ o \notin offered
    /\ offered' = offered \cup {o}
    /\ claim' = [claim EXCEPT ![o] = "empty"]
    /\ UNCHANGED <<money, fiatSent>>

Deposit(o) ==
    /\ o \in offered /\ money[o] = "seller"
    /\ money' = [money EXCEPT ![o] = "escrow"]
    /\ UNCHANGED <<offered, fiatSent, claim>>

CallOff(o) ==
    /\ money[o] = "seller"
    /\ money' = [money EXCEPT ![o] = "called off"]
    /\ UNCHANGED <<offered, fiatSent, claim>>

ConfirmFiat(o) ==
    /\ money[o] = "escrow"
    /\ fiatSent' = fiatSent \cup {o}
    /\ UNCHANGED <<offered, money, claim>>

\* Money reaches the buyer only after the fiat was confirmed.
Pay(o) ==
    /\ money[o] = "escrow" /\ o \in fiatSent
    /\ money' = [money EXCEPT ![o] = "buyer"]
    /\ UNCHANGED <<offered, fiatSent, claim>>

Return(o) ==
    /\ money[o] = "escrow"
    /\ money' = [money EXCEPT ![o] = "returned"]
    /\ UNCHANGED <<offered, fiatSent, claim>>

\* The platform says something that is so, or falls silent.
Say(o, c) ==
    /\ Justified(o, c)
    /\ claim' = [claim EXCEPT ![o] = c]
    /\ UNCHANGED <<offered, money, fiatSent>>

Init ==
    /\ offered = {}
    /\ money = [o \in Orders |-> "seller"]
    /\ fiatSent = {}
    /\ claim = [o \in Orders |-> "none"]

Next ==
    \E o \in Orders :
        \/ Offer(o) \/ Deposit(o) \/ CallOff(o) \/ ConfirmFiat(o) \/ Pay(o) \/ Return(o)
        \/ \E c \in Claim : Say(o, c)

Spec == Init /\ [][Next]_vars

=================================================================================
