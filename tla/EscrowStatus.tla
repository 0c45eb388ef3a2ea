------------------------------ MODULE EscrowStatus ------------------------------
(***************************************************************************)
(* The status machine shared by the escrow service, the order service and  *)
(* the Stellar listener: the two database enumerations, the transition     *)
(* table that guards every escrow write, and the tables that translate a   *)
(* synchronised action or an on-chain event into database statuses.        *)
(***************************************************************************)

OrderStatus == {"created", "locked", "released", "cancelled", "expired", "disputed"}

EscrowRowStatus ==
    {"pending", "initialized", "funded", "fiat_sent", "released", "disputed", "resolved"}

\* EscrowAction: the operations a client reports through POST /escrows/sync.
SyncAction == {"initialize", "fund", "fiat_sent", "release"}

\* The event types the parser can resolve from a contract event.
EventType ==
    {"ESCROW_CREATED", "ESCROW_FUNDED", "ESCROW_RELEASED",
     "ESCROW_REFUNDED", "ESCROW_CANCELLED", "ESCROW_DISPUTED"}

---------------------------------------------------------------------------------

\* The statuses from which an action or an event may be applied.
ValidTransitions ==
    [x \in SyncAction \cup EventType |->
        CASE x \in {"initialize", "ESCROW_CREATED"}  -> {"pending"}
          [] x \in {"fund", "ESCROW_FUNDED"}         -> {"initialized"}
          [] x = "fiat_sent"                         -> {"funded"}
          [] x \in {"release", "ESCROW_RELEASED"}    -> {"funded", "fiat_sent"}
          [] x = "ESCROW_REFUNDED"                   -> {"funded", "fiat_sent", "disputed"}
          [] x = "ESCROW_CANCELLED"                  -> {"pending", "initialized"}
          [] x = "ESCROW_DISPUTED"                   -> {"funded", "fiat_sent"}]

\* The status syncTransaction stores once the action's transaction succeeded.
SyncedStatus ==
    [a \in SyncAction |->
        CASE a = "initialize" -> "initialized"
          [] a = "fund"       -> "funded"
          [] a = "fiat_sent"  -> "fiat_sent"
          [] a = "release"    -> "released"]

\* The statuses in which the listener drops an event as stale.
AlreadyProcessed ==
    [e \in EventType |->
        CASE e = "ESCROW_CREATED"   -> EscrowRowStatus \ {"pending"}
          [] e = "ESCROW_FUNDED"    -> {"funded", "fiat_sent", "released", "resolved"}
          [] e = "ESCROW_RELEASED"  -> {"released", "resolved"}
          [] e = "ESCROW_REFUNDED"  -> {"resolved"}
          [] e = "ESCROW_CANCELLED" -> {"resolved", "released"}
          [] e = "ESCROW_DISPUTED"  -> {"disputed"}]

\* mapEventToStatuses: what the listener writes, to both rows.
EscrowStatusOf ==
    [e \in EventType |->
        CASE e = "ESCROW_CREATED"   -> "initialized"
          [] e = "ESCROW_FUNDED"    -> "funded"
          [] e = "ESCROW_RELEASED"  -> "released"
          [] e = "ESCROW_DISPUTED"  -> "disputed"
          [] e \in {"ESCROW_REFUNDED", "ESCROW_CANCELLED"} -> "resolved"]

OrderStatusOf ==
    [e \in EventType |->
        CASE e = "ESCROW_CREATED"   -> "created"
          [] e = "ESCROW_FUNDED"    -> "locked"
          [] e = "ESCROW_RELEASED"  -> "released"
          [] e = "ESCROW_DISPUTED"  -> "disputed"
          [] e \in {"ESCROW_REFUNDED", "ESCROW_CANCELLED"} -> "cancelled"]

=================================================================================
