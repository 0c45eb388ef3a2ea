---------------------------- MODULE MCStellarListener ----------------------------
(* Instances of StellarListener for TLC. *)
EXTENDS StellarListener

CONSTANTS o1, o2

\* The clients of one order report the fund and the fiat payment.
BuyerOfOne == {<<o1, "fund">>, <<o1, "fiat_sent">>}

\* Its contract may also be funded without the backend, and is disputed; that of the other
\* order is funded and refunded without the backend.
MixedEvents ==
    {<<o1, "ESCROW_FUNDED">>, <<o1, "ESCROW_DISPUTED">>,
     <<o2, "ESCROW_FUNDED">>, <<o2, "ESCROW_REFUNDED">>}

NoRequests == {}
FundRequest == Orders \X {"fund"}
BuyerRequests == Orders \X {"fund", "fiat_sent"}

NoEvents == {}
FundedEvent == Orders \X {"ESCROW_FUNDED"}
DisputedEvent == Orders \X {"ESCROW_DISPUTED"}

=================================================================================
