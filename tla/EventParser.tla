------------------------------- MODULE EventParser -------------------------------
(***************************************************************************)
(* StellarEventParserService: what makes a raw contract event one of the   *)
(* event types the listener knows.  The event's type and topics are joined *)
(* into one upper-case text, and the first keyword of a fixed list that is *)
(* a substring of it decides.  A text is abstracted to its words.          *)
(*                                                                         *)
(* Every event the RPC returns has the contract it was asked for; topics   *)
(* arrive readable, as the tests of the parser have them.                  *)
(***************************************************************************)
EXTENDS EscrowStatus, Integers, Sequences, FiniteSetsExt

\* What a contract reports: the events the listener knows, and the change of a milestone's
\* status, which it does not.
ChainEvent == EventType \cup {"MILESTONE_CHANGED"}

Unrecognised == "unrecognised"

\* The word of each event's topics the parser could react to.
WordsOf ==
    [e \in ChainEvent |->
        CASE e = "ESCROW_CREATED"    -> {"CREATED"}
          [] e = "ESCROW_FUNDED"     -> {"FUND"}
          [] e = "ESCROW_RELEASED"   -> {"RELEASE"}
          [] e = "ESCROW_REFUNDED"   -> {"REFUND"}
          [] e = "ESCROW_CANCELLED"  -> {"CANCEL"}
          [] e = "ESCROW_DISPUTED"   -> {"DISPUTE"}
          [] e = "MILESTONE_CHANGED" -> {"MILESTONE"}]

\* String.includes: a text with the word REFUND also has the substring FUND.
Substrings(words) == words \cup (IF "REFUND" \in words THEN {"FUND"} ELSE {})

\* A resolveEventType that looks for FUND before REFUND.
ResolutionOrderFundFirst ==
    << <<{"INITIALIZE", "CREATED"}, "ESCROW_CREATED">>,
       <<{"FUND"}, "ESCROW_FUNDED">>,
       <<{"REFUND"}, "ESCROW_REFUNDED">>,
       <<{"RELEASE"}, "ESCROW_RELEASED">>,
       <<{"CANCEL"}, "ESCROW_CANCELLED">>,
       <<{"DISPUTE"}, "ESCROW_DISPUTED">> >>

ResolutionOrder ==
    << <<{"INITIALIZE", "CREATED"}, "ESCROW_CREATED">>,
       <<{"REFUND"}, "ESCROW_REFUNDED">>,
       <<{"FUND"}, "ESCROW_FUNDED">>,
       <<{"RELEASE"}, "ESCROW_RELEASED">>,
       <<{"CANCEL"}, "ESCROW_CANCELLED">>,
       <<{"DISPUTE"}, "ESCROW_DISPUTED">> >>

ResolveEventType(words) ==
    LET hits == {i \in DOMAIN ResolutionOrder :
                    ResolutionOrder[i][1] \cap Substrings(words) # {}}
    IN  IF hits = {} THEN Unrecognised ELSE ResolutionOrder[Min(hits)][2]

\* parseEvent for each event of a contract, null being Unrecognised.
ParseEvent == [e \in ChainEvent |-> ResolveEventType(WordsOf[e])]

=================================================================================
