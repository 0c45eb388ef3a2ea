------------------------------- MODULE EscrowTrade -------------------------------
(***************************************************************************)
(* The life of P2P orders and their escrows once OrderService.create has   *)
(* deployed the contract: the order and escrow rows in the database, the   *)
(* contracts on chain, the request handlers that read a row, await the     *)
(* Trustless Work API and then write, the expiration cron, and the Stellar *)
(* listener applying on-chain events.                                      *)
(*                                                                         *)
(* Every await that separates a read from a dependent write is a step      *)
(* boundary: no handler of this code holds a lock or writes conditionally, *)
(* so any other step may come between.  A row of an order made by          *)
(* OrderService.create has its contract from the start, so orders and      *)
(* contracts are in one-to-one correspondence and share the index o.       *)
(*                                                                         *)
(* Clients are taken at their word in one respect: the transaction they    *)
(* submit is the one the service built for the action they name.           *)
(***************************************************************************)
EXTENDS EscrowStatus

CONSTANTS
    Orders,          \* orderIds (fresh UUIDs: an id is never used twice)
    Requests,        \* API requests the server can have in flight
    Jobs,            \* runs of the expiration cron that may overlap
    ClientStatuses   \* order statuses clients put in POST or PATCH /orders bodies

ASSUME ClientStatusesAssumption == ClientStatuses \subseteq OrderStatus

VARIABLES
    orders,    \* orders[o]: the order row's status, "none" when there is no row
    due,       \* due[o]: expiresAt of the order has passed
    escrows,   \* escrows[o]: the escrow row's status, "none" when there is no row
    chain,     \* chain[o]: what has happened to the order's contract on chain
    xdrs,      \* xdrs[o]: actions whose unsigned transaction a client holds
    req,       \* req[r]: where an in-flight request handler stands
    jobs,      \* jobs[j]: orders a cron run has decided on and not written yet
    listener   \* the event whose transaction the listener is about to run, if any

vars == <<orders, due, escrows, chain, xdrs, req, jobs, listener>>

NoRow == "none"
HasOrder(o) == orders[o] # NoRow
HasEscrow(o) == escrows[o] # NoRow

---------------------------------------------------------------------------------
(* Types *)

ChainFact == {"deployed", "funded", "fiat_sent", "approved", "released",
              "refunded", "cancelled", "disputed"}

XdrAction == {"fund", "fiat_sent", "release"}

\* pc: the await the handler is suspended in; action: the dto.action of a sync.
Request ==
    [pc: {"persist", "check", "approve", "issue", "cancel"}, order: Orders, action: {"none"}]
        \cup [pc: {"send", "write"}, order: Orders, action: XdrAction]

Idle == [pc |-> "idle"]

Decision == [order: Orders, target: {"expired", "cancelled"}]

Delivery == [order: Orders, event: EventType]

\* Every variable holds a value of its type; the listener has at most one event in hand.
TypeOK ==
    /\ orders \in [Orders -> OrderStatus \cup {NoRow}]
    /\ due \in [Orders -> BOOLEAN]
    /\ escrows \in [Orders -> EscrowRowStatus \cup {NoRow}]
    /\ chain \in [Orders -> SUBSET ChainFact]
    /\ xdrs \in [Orders -> SUBSET XdrAction]
    /\ req \in [Requests -> Request \cup {Idle}]
    /\ jobs \in [Jobs -> SUBSET Decision]
    /\ listener \in SUBSET Delivery
    /\ \A x, y \in listener : x = y

---------------------------------------------------------------------------------
(* The contract on chain (external): what the Trustless Work contract      *)
(* accepts, as far as the code relies on it.                               *)

Settled(o) == chain[o] \cap {"released", "refunded", "cancelled"} # {}

FactOfAction == [fund |-> "funded", fiat_sent |-> "fiat_sent", release |-> "released"]

FactOfEvent ==
    [e \in EventType |->
        CASE e = "ESCROW_CREATED"   -> "deployed"
          [] e = "ESCROW_FUNDED"    -> "funded"
          [] e = "ESCROW_RELEASED"  -> "released"
          [] e = "ESCROW_REFUNDED"  -> "refunded"
          [] e = "ESCROW_CANCELLED" -> "cancelled"
          [] e = "ESCROW_DISPUTED"  -> "disputed"]

Accepts(o, fact) ==
    /\ "deployed" \in chain[o]
    /\ ~Settled(o)
    /\ fact \in {"funded", "cancelled"} => "funded" \notin chain[o]
    /\ fact \in {"fiat_sent", "released", "refunded", "disputed"} => "funded" \in chain[o]
    /\ fact = "released" => "approved" \in chain[o]
    /\ fact \in {"released", "disputed"} => "disputed" \notin chain[o]

Execute(o, fact) == chain' = [chain EXCEPT ![o] = @ \cup {fact}]

\* A wallet broadcasts a transaction it was given without going through the API.
WalletSubmits(o, a) ==
    /\ a \in xdrs[o]
    /\ Accepts(o, FactOfAction[a])
    /\ Execute(o, FactOfAction[a])
    /\ UNCHANGED <<orders, due, escrows, xdrs, req, jobs, listener>>

\* The dispute resolver, or a party, acts on the contract outside this backend.
ResolverActs(o, fact) ==
    /\ Accepts(o, fact)
    /\ Execute(o, fact)
    /\ UNCHANGED <<orders, due, escrows, xdrs, req, jobs, listener>>

---------------------------------------------------------------------------------
(* Request handlers: suspending, finishing, failing *)

Suspend(r, pc, o, a) ==
    req' = [req EXCEPT ![r] = [pc |-> pc, order |-> o, action |-> a]]

Finish(r) == req' = [req EXCEPT ![r] = Idle]

\* An external call or a database call throws and the handler propagates it;
\* what it already did on chain stays done.
RequestFails(r) ==
    /\ req[r] # Idle
    /\ Finish(r)
    /\ UNCHANGED <<orders, due, escrows, chain, xdrs, jobs, listener>>

\* The process dies: in-flight handlers, cron runs and the listener are gone.
Crash ==
    /\ req' = [r \in Requests |-> Idle]
    /\ jobs' = [j \in Jobs |-> {}]
    /\ listener' = {}
    /\ UNCHANGED <<orders, due, escrows, chain, xdrs>>

---------------------------------------------------------------------------------
(* OrderService.create: the contract first, then both rows in one transaction *)

\* A create that answers with the fund transaction before the rows are stored.
CreateDeployAnswersEarly(r, o) ==
    /\ req[r] = Idle
    /\ chain[o] = {}
    /\ Execute(o, "deployed")
    /\ xdrs' = [xdrs EXCEPT ![o] = {"fund"}]
    /\ Suspend(r, "persist", o, "none")
    /\ UNCHANGED <<orders, due, escrows, jobs, listener>>

CreateDeploy(r, o) ==
    /\ req[r] = Idle
    /\ chain[o] = {}
    /\ Execute(o, "deployed")
    /\ Suspend(r, "persist", o, "none")
    /\ UNCHANGED <<orders, due, escrows, xdrs, jobs, listener>>

CreatePersist(r, status) ==
    LET o == req[r].order IN
    /\ req[r] # Idle /\ req[r].pc = "persist"
    /\ orders' = [orders EXCEPT ![o] = status]
    /\ escrows' = [escrows EXCEPT ![o] = "initialized"]
    /\ xdrs' = [xdrs EXCEPT ![o] = {"fund"}]
    /\ Finish(r)
    /\ UNCHANGED <<due, chain, jobs, listener>>

---------------------------------------------------------------------------------
(* OrderService.update and remove, EscrowService.remove *)

\* PATCH /orders/:id writes whatever status the body holds and may move expiresAt.
UpdateOrder(o, status, isDue) ==
    /\ HasOrder(o)
    /\ orders' = [orders EXCEPT ![o] = status]
    /\ due' = [due EXCEPT ![o] = isDue]
    /\ UNCHANGED <<escrows, chain, xdrs, req, jobs, listener>>

\* DELETE /orders/:id; the escrow row goes with it (onDelete: Cascade).
RemoveOrder(o) ==
    /\ HasOrder(o)
    /\ orders' = [orders EXCEPT ![o] = NoRow]
    /\ escrows' = [escrows EXCEPT ![o] = NoRow]
    /\ UNCHANGED <<due, chain, xdrs, req, jobs, listener>>

RemoveEscrow(o) ==
    /\ HasEscrow(o)
    /\ escrows' = [escrows EXCEPT ![o] = NoRow]
    /\ UNCHANGED <<orders, due, chain, xdrs, req, jobs, listener>>

---------------------------------------------------------------------------------
(* OrderService.cancel: read both rows, check, then write *)

CancelRead(r, o) ==
    /\ req[r] = Idle
    /\ HasOrder(o)
    /\ orders[o] \notin {"released", "cancelled", "expired", "disputed"}
    /\ escrows[o] \notin {"funded", "fiat_sent", "released", "disputed", "resolved"}
    /\ Suspend(r, "cancel", o, "none")
    /\ UNCHANGED <<orders, due, escrows, chain, xdrs, jobs, listener>>

CancelWrite(r) ==
    /\ req[r] # Idle /\ req[r].pc = "cancel"
    /\ HasOrder(req[r].order)
    /\ orders' = [orders EXCEPT ![req[r].order] = "cancelled"]
    /\ Finish(r)
    /\ UNCHANGED <<due, escrows, chain, xdrs, jobs, listener>>

---------------------------------------------------------------------------------
(* EscrowService.markFiatSent and release: build transactions for wallets.  *)
(* EscrowService.fund only builds the fund transaction again, which create  *)
(* already handed out.                                                      *)

MarkFiatSent(o) ==
    /\ escrows[o] \in {"funded", "fiat_sent"}
    /\ xdrs' = [xdrs EXCEPT ![o] = @ \cup {"fiat_sent"}]
    /\ UNCHANGED <<orders, due, escrows, chain, req, jobs, listener>>

ReleaseRead(r, o) ==
    /\ req[r] = Idle
    /\ escrows[o] \in {"funded", "fiat_sent"}
    /\ Suspend(r, "check", o, "none")
    /\ UNCHANGED <<orders, due, escrows, chain, xdrs, jobs, listener>>

\* A release that approves without looking at the milestone.
ReleaseCheckAlwaysApproves(r) ==
    /\ req[r] # Idle /\ req[r].pc = "check"
    /\ Suspend(r, "approve", req[r].order, "none")
    /\ UNCHANGED <<orders, due, escrows, chain, xdrs, jobs, listener>>

\* The milestone's on-chain state decides whether the treasury approves first.
ReleaseCheck(r) ==
    LET o == req[r].order IN
    /\ req[r] # Idle /\ req[r].pc = "check"
    /\ Suspend(r, IF "fiat_sent" \in chain[o] THEN "approve" ELSE "issue", o, "none")
    /\ UNCHANGED <<orders, due, escrows, chain, xdrs, jobs, listener>>

\* The treasury's approval is broadcast; the answer may or may not reach the handler.
ReleaseApprove(r) ==
    LET o == req[r].order IN
    /\ req[r] # Idle /\ req[r].pc = "approve"
    /\ Accepts(o, "approved")
    /\ Execute(o, "approved")
    /\ Suspend(r, "issue", o, "none") \/ Finish(r)
    /\ UNCHANGED <<orders, due, escrows, xdrs, jobs, listener>>

ReleaseIssue(r) ==
    /\ req[r] # Idle /\ req[r].pc = "issue"
    /\ xdrs' = [xdrs EXCEPT ![req[r].order] = @ \cup {"release"}]
    /\ Finish(r)
    /\ UNCHANGED <<orders, due, escrows, chain, jobs, listener>>

---------------------------------------------------------------------------------
(* EscrowService.syncTransaction: read and validate, broadcast, write *)

\* A sync that locks the order before it has broadcast the transaction.
SyncReadLocksOrder(r, o, a) ==
    /\ req[r] = Idle
    /\ a \in xdrs[o]
    /\ HasEscrow(o)
    /\ escrows[o] \in ValidTransitions[a]
    /\ Suspend(r, "send", o, a)
    /\ orders' = [orders EXCEPT ![o] = "locked"]
    /\ UNCHANGED <<due, escrows, chain, xdrs, jobs, listener>>

SyncRead(r, o, a) ==
    /\ req[r] = Idle
    /\ a \in xdrs[o]
    /\ HasEscrow(o)
    /\ escrows[o] \in ValidTransitions[a]
    /\ Suspend(r, "send", o, a)
    /\ UNCHANGED <<orders, due, escrows, chain, xdrs, jobs, listener>>

\* A sync that does not look at result.status: it goes on to write when the
\* network rejected the transaction.
SyncSendIgnoresResult(r) ==
    LET o == req[r].order IN
    LET fact == FactOfAction[req[r].action] IN
    /\ req[r] # Idle /\ req[r].pc = "send"
    /\ chain' = [chain EXCEPT ![o] = IF Accepts(o, fact) THEN @ \cup {fact} ELSE @]
    /\ Suspend(r, "write", o, req[r].action)
    /\ UNCHANGED <<orders, due, escrows, xdrs, jobs, listener>>

\* The network executes the transaction and answers SUCCESS, or the answer is
\* lost (60 s client timeout) and the handler fails.  A rejected transaction is
\* a RequestFails step.
SyncSend(r) ==
    LET o == req[r].order IN
    LET fact == FactOfAction[req[r].action] IN
    /\ req[r] # Idle /\ req[r].pc = "send"
    /\ Accepts(o, fact)
    /\ Execute(o, fact)
    /\ Suspend(r, "write", o, req[r].action) \/ Finish(r)
    /\ UNCHANGED <<orders, due, escrows, xdrs, jobs, listener>>

SyncWrite(r) ==
    LET o == req[r].order IN
    /\ req[r] # Idle /\ req[r].pc = "write"
    /\ HasEscrow(o)
    /\ escrows' = [escrows EXCEPT ![o] = SyncedStatus[req[r].action]]
    /\ Finish(r)
    /\ UNCHANGED <<orders, due, chain, xdrs, jobs, listener>>

---------------------------------------------------------------------------------
(* OrderCron and OrderService.expireOrders *)

Expires(o) ==
    /\ HasOrder(o) /\ ~due[o]
    /\ due' = [due EXCEPT ![o] = TRUE]
    /\ UNCHANGED <<orders, escrows, chain, xdrs, req, jobs, listener>>

ProtectedFromExpiration == {"fiat_sent", "released", "disputed", "resolved"}

\* One findMany reads orders and escrows; what processExpiredOrder decides for each
\* order depends on this snapshot alone.
ExpireOrdersRead(j) ==
    LET candidates == {o \in Orders : due[o] /\ orders[o] \in {"created", "locked"}}
        eligible == {o \in candidates : escrows[o] \notin ProtectedFromExpiration}
    IN
    /\ jobs[j] = {}
    /\ eligible # {}
    /\ jobs' = [jobs EXCEPT ![j] =
                  {[order |-> o,
                    target |-> IF orders[o] = "locked" THEN "cancelled" ELSE "expired"]
                   : o \in eligible}]
    /\ UNCHANGED <<orders, due, escrows, chain, xdrs, req, listener>>

\* After the balance query: the write, or an error that only ends this order's turn.
ProcessExpiredOrder(j, d) ==
    /\ d \in jobs[j]
    /\ jobs' = [jobs EXCEPT ![j] = @ \ {d}]
    /\ \/ HasOrder(d.order) /\ orders' = [orders EXCEPT ![d.order] = d.target]
       \/ orders' = orders
    /\ UNCHANGED <<due, escrows, chain, xdrs, req, listener>>

---------------------------------------------------------------------------------
(* StellarListenerService.processEvent.  Which events a poll returns, and   *)
(* how often, is module StellarListener's matter: here any emitted event    *)
(* may be handed to processEvent at any time and any number of times.       *)

\* A listener that starts on an event while another one is in hand.
ListenerReadOverlapping(o, e) ==
    /\ FactOfEvent[e] \in chain[o]
    /\ HasEscrow(o)
    /\ escrows[o] \notin AlreadyProcessed[e]
    /\ escrows[o] \in ValidTransitions[e]
    /\ listener' = listener \cup {[order |-> o, event |-> e]}
    /\ UNCHANGED <<orders, due, escrows, chain, xdrs, req, jobs>>

ListenerRead(o, e) ==
    /\ listener = {}
    /\ FactOfEvent[e] \in chain[o]
    /\ HasEscrow(o)
    /\ escrows[o] \notin AlreadyProcessed[e]
    /\ escrows[o] \in ValidTransitions[e]
    /\ listener' = {[order |-> o, event |-> e]}
    /\ UNCHANGED <<orders, due, escrows, chain, xdrs, req, jobs>>

\* The database transaction: both rows are updated, or neither is.
ListenerCommit(x) ==
    /\ x \in listener
    /\ HasEscrow(x.order) /\ HasOrder(x.order)
    /\ escrows' = [escrows EXCEPT ![x.order] = EscrowStatusOf[x.event]]
    /\ orders' = [orders EXCEPT ![x.order] = OrderStatusOf[x.event]]
    /\ listener' = {}
    /\ UNCHANGED <<due, chain, xdrs, req, jobs>>

ListenerRollback(x) ==
    /\ x \in listener
    /\ listener' = {}
    /\ UNCHANGED <<orders, due, escrows, chain, xdrs, req, jobs>>

---------------------------------------------------------------------------------

Init ==
    /\ orders = [o \in Orders |-> NoRow]
    /\ due = [o \in Orders |-> FALSE]
    /\ escrows = [o \in Orders |-> NoRow]
    /\ chain = [o \in Orders |-> {}]
    /\ xdrs = [o \in Orders |-> {}]
    /\ req = [r \in Requests |-> Idle]
    /\ jobs = [j \in Jobs |-> {}]
    /\ listener = {}

RequestStep(r) ==
    \/ \E o \in Orders :
          \/ CreateDeploy(r, o)
          \/ CancelRead(r, o)
          \/ ReleaseRead(r, o)
          \/ \E a \in XdrAction : SyncRead(r, o, a)
    \/ \E status \in ClientStatuses \cup {"created"} : CreatePersist(r, status)
    \/ CancelWrite(r)
    \/ ReleaseCheck(r)
    \/ ReleaseApprove(r)
    \/ ReleaseIssue(r)
    \/ SyncSend(r)
    \/ SyncWrite(r)
    \/ RequestFails(r)

OrderStep(o) ==
    \/ \E status \in ClientStatuses \cup {orders[o]}, isDue \in BOOLEAN :
          UpdateOrder(o, status, isDue)
    \/ RemoveOrder(o)
    \/ RemoveEscrow(o)
    \/ MarkFiatSent(o)
    \/ Expires(o)

ChainStep(o) ==
    \/ \E a \in XdrAction : WalletSubmits(o, a)
    \/ \E fact \in {"refunded", "cancelled", "disputed"} : ResolverActs(o, fact)

JobStep(j) == ExpireOrdersRead(j) \/ \E d \in jobs[j] : ProcessExpiredOrder(j, d)

ListenerStep ==
    \/ \E o \in Orders, e \in EventType : ListenerRead(o, e)
    \/ \E x \in listener : ListenerCommit(x) \/ ListenerRollback(x)

Next ==
    \/ \E r \in Requests : RequestStep(r)
    \/ \E o \in Orders : OrderStep(o) \/ ChainStep(o)
    \/ \E j \in Jobs : JobStep(j)
    \/ ListenerStep
    \/ Crash

Spec == Init /\ [][Next]_vars

---------------------------------------------------------------------------------
(* Properties *)

\* The database never runs ahead of the chain.  A status the escrow row shows has
\* happened to the contract, whatever interleaving of syncTransaction, processEvent,
\* lost answers, crashes and deletions led there.
EscrowWitnessed ==
    \A o \in Orders :
        /\ HasEscrow(o) => "deployed" \in chain[o]
        /\ escrows[o] \in {"funded", "fiat_sent", "released", "disputed"} =>
              "funded" \in chain[o]
        /\ escrows[o] = "fiat_sent" => "fiat_sent" \in chain[o]
        /\ escrows[o] = "released" => "released" \in chain[o]
        /\ escrows[o] = "disputed" => "disputed" \in chain[o]
        /\ escrows[o] = "resolved" => chain[o] \cap {"refunded", "cancelled"} # {}

\* An order row shows locked, released or disputed only when the contract was funded,
\* released or disputed, unless clients write these statuses themselves through
\* OrderService.create or update, which accept any status.
OrderWitnessed ==
    ClientStatuses \cap {"locked", "released", "disputed"} = {} =>
        \A o \in Orders :
            /\ orders[o] = "locked" => "funded" \in chain[o]
            /\ orders[o] = "released" => "released" \in chain[o]
            /\ orders[o] = "disputed" => "disputed" \in chain[o]

\* Money leaves the contract towards the buyer only after the buyer marked the fiat
\* payment as sent: EscrowService.release lets the treasury approve only a milestone
\* the chain reports as completed, although it accepts an escrow row still "funded".
ReleaseNeedsFiatSent ==
    \A o \in Orders : "released" \in chain[o] => {"funded", "fiat_sent"} \subseteq chain[o]

\* The rule in the comment of OrderService.cancel: "cancellation is only allowed while
\* the escrow is still pending or initialized", taken at the moment of the write.
CancelOnlyBeforeFunding ==
    [][\A r \in Requests : CancelWrite(r) =>
          escrows[req[r].order] \in {NoRow, "pending", "initialized"}]_vars

\* The rule in the comment of processExpiredOrder: "If the buyer has already marked fiat
\* payment as sent (fiat_sent) [...] automatic expiration IS BLOCKED", taken at the
\* moment of the write.
FiatSentBlocksExpiration ==
    [][\A j \in Jobs : \A d \in jobs[j] :
          ProcessExpiredOrder(j, d) /\ orders'[d.order] # orders[d.order] =>
              escrows[d.order] # "fiat_sent"]_vars

\* Every change of an existing escrow row's status is a transition the table of
\* validateStatusTransition allows from the status it replaces.
EscrowFollowsTransitions ==
    [][\A o \in Orders :
          HasEscrow(o) /\ HasEscrow(o)' /\ escrows'[o] # escrows[o] =>
              \/ \E a \in SyncAction :
                    escrows[o] \in ValidTransitions[a] /\ escrows'[o] = SyncedStatus[a]
              \/ \E e \in EventType :
                    escrows[o] \in ValidTransitions[e] /\ escrows'[o] = EscrowStatusOf[e]]_vars

---------------------------------------------------------------------------------
(* What buyers and sellers are promised *)

\* Where the contract has the seller's money.
MoneyOf(facts) ==
    CASE "released" \in facts -> "buyer"
      [] "released" \notin facts /\ "refunded" \in facts -> "returned"
      [] facts \cap {"released", "refunded"} = {} /\ "cancelled" \in facts -> "called off"
      [] facts \cap {"released", "refunded", "cancelled"} = {} /\ "funded" \in facts -> "escrow"
      [] OTHER -> "seller"

\* What an escrow row tells about it.
ClaimOf(status) ==
    CASE status = NoRow -> "none"
      [] status \in {"pending", "initialized"} -> "empty"
      [] status \in {"funded", "disputed"} -> "held"
      [] status = "fiat_sent" -> "fiat sent"
      [] status = "released" -> "paid"
      [] status = "resolved" -> "ended"

Promise == INSTANCE EscrowPromise WITH
    offered <- {o \in Orders : xdrs[o] # {}},
    money <- [o \in Orders |-> MoneyOf(chain[o])],
    fiatSent <- {o \in Orders : "fiat_sent" \in chain[o]},
    claim <- [o \in Orders |-> ClaimOf(escrows[o])]

\* The handlers, the cron, the listener and the contract together keep the promise of
\* EscrowPromise: money comes only into contracts of orders that OrderService.create has
\* recorded, leaves them once, towards the buyer only after the fiat was confirmed, and
\* the escrow row never says what has not happened.
KeepsPromise == Promise!Spec

=================================================================================
