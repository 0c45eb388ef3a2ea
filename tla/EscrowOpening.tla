------------------------------ MODULE EscrowOpening ------------------------------
(***************************************************************************)
(* How an order without an escrow gets a contract: EscrowService.open,     *)
(* initialize with its sync, and the legacy create, up to the funding of   *)
(* the contract.  (OrderService.create, which writes order and escrow in   *)
(* one transaction, is in EscrowTrade.)                                    *)
(*                                                                         *)
(* None of these handlers runs in a database transaction: open inserts the *)
(* row and stores the contract in two writes, and all of them decide on a  *)
(* row they read before a call to the Trustless Work API.  Every await is  *)
(* a step boundary.  A client keeps an unsigned transaction together with  *)
(* the escrowId it came with, and reports it for that escrow.              *)
(***************************************************************************)
EXTENDS EscrowAssets

CONSTANTS
    Orders,      \* orders that exist
    Rows,        \* escrowIds, never used twice
    Contracts,   \* contract ids, one per deploy transaction built
    Requests     \* requests the server can have in flight

VARIABLES
    rows,         \* rows[i]: the escrow row, or why there is none
    drawn,        \* drawn[c]: the asset a deploy transaction for c was built for, if one was
    deployed,     \* contracts on chain
    funded,       \* contracts that hold the seller's funds
    deployXdrs,   \* unsigned deploy transactions in clients' hands
    fundXdrs,     \* unsigned fund transactions in clients' hands
    req,          \* req[r]: where an in-flight request stands
    contested     \* history: rows for which two requests that store a contract in that row
                  \* were in flight at once

vars == <<rows, drawn, deployed, funded, deployXdrs, fundXdrs, req, contested>>
chainVars == <<drawn, deployed, funded>>
xdrVars == <<deployXdrs, fundXdrs>>

NoContract == "no contract"

ASSUME ContractsAssumption == NoContract \notin Contracts

NotDrawn == "not drawn"
Never == [row |-> "never inserted"]
Deleted == [row |-> "deleted"]

Row == [order: Orders,
        status: {"pending", "initialized", "funded"},
        contract: Contracts \cup {NoContract}]

Live(i) == rows[i] \notin {Never, Deleted}
RowOf(o) == {i \in Rows : Live(i) /\ rows[i].order = o}

Xdr == [row: Rows, contract: Contracts]

Idle == [pc |-> "idle"]

Request ==
    [pc: {"deploy new", "build", "insert legacy"}, order: Orders]
        \cup [pc: {"deploy"}, order: Orders, row: Rows]
        \cup [pc: {"insert", "find", "insert pending"}, order: Orders, contract: Contracts]
        \cup [pc: {"attach", "answer", "amend", "send deploy", "write deploy", "send fund",
                   "write fund"}, row: Rows, contract: Contracts]

\* Every variable holds a value of its type, and orderId is unique among the rows.
TypeOK ==
    /\ rows \in [Rows -> Row \cup {Never, Deleted}]
    /\ drawn \in [Contracts -> {UsdcIssuer, XlmAddress, NotDrawn}]
    /\ deployed \in SUBSET Contracts
    /\ funded \in SUBSET Contracts
    /\ deployXdrs \in SUBSET Xdr
    /\ fundXdrs \in SUBSET Xdr
    /\ req \in [Requests -> Request \cup {Idle}]
    /\ contested \in SUBSET Rows
    /\ \A i, j \in Rows : Live(i) /\ Live(j) /\ rows[i].order = rows[j].order => i = j

---------------------------------------------------------------------------------

At(r, pc) == req[r] # Idle /\ req[r].pc = pc

\* A request that will store a contract in row i: open, and the sync of initialize.
Opens(state, i) ==
    state.pc \in {"deploy", "attach", "send deploy", "write deploy"} /\ state.row = i

Suspend(r, state) ==
    /\ req' = [req EXCEPT ![r] = state]
    /\ contested' = contested \cup
          {i \in Rows : Opens(state, i) /\ \E q \in Requests \ {r} : Opens(req[q], i)}

Finish(r) ==
    /\ req' = [req EXCEPT ![r] = Idle]
    /\ UNCHANGED contested

RequestFails(r) ==
    /\ req[r] # Idle
    /\ Finish(r)
    /\ UNCHANGED <<rows, chainVars, xdrVars>>

Crash ==
    /\ req' = [r \in Requests |-> Idle]
    /\ UNCHANGED <<rows, chainVars, xdrVars, contested>>

\* repo.create: a new escrowId; the unique constraint on orderId rejects a second row.
Insert(i, o, status) ==
    /\ rows[i] = Never
    /\ RowOf(o) = {}
    /\ rows' = [rows EXCEPT ![i] = [order |-> o, status |-> status, contract |-> NoContract]]

\* repo.update: fails when the row is gone, and sets no condition on what it replaces.
Update(i, status, c) ==
    /\ Live(i)
    /\ rows' = [rows EXCEPT ![i].status = status, ![i].contract = c]

\* tw.initializeEscrow: the unsigned transaction that deploys c.
Draw(c, a) ==
    /\ drawn[c] = NotDrawn
    /\ Deployable(a)
    /\ drawn' = [drawn EXCEPT ![c] = ResolveTrustline(a).address]

\* The check open and initialize begin with.
NoContractYet(o) == \A i \in RowOf(o) : rows[i].contract = NoContract

---------------------------------------------------------------------------------
(* open: read, deploy, insert if there was no row, store the contract *)

\* An open that deploys whatever the order already has.
OpenReadUnchecked(r, o) ==
    /\ req[r] = Idle
    /\ \/ RowOf(o) = {} /\ Suspend(r, [pc |-> "deploy new", order |-> o])
       \/ \E i \in RowOf(o) : Suspend(r, [pc |-> "deploy", order |-> o, row |-> i])
    /\ UNCHANGED <<rows, chainVars, xdrVars>>

OpenRead(r, o) ==
    /\ req[r] = Idle
    /\ NoContractYet(o)
    /\ \/ RowOf(o) = {} /\ Suspend(r, [pc |-> "deploy new", order |-> o])
       \/ \E i \in RowOf(o) : Suspend(r, [pc |-> "deploy", order |-> o, row |-> i])
    /\ UNCHANGED <<rows, chainVars, xdrVars>>

\* tw.signAndBroadcast: the backend's signature is put on the envelope, which no client
\* holds, and the transaction executes once.
SignAndBroadcast(c) == deployed' = deployed \cup {c}

\* deployEscrowToChain: the treasury's transaction is built, signed and broadcast.
OpenDeploy(r, c, a) ==
    /\ Draw(c, a)
    /\ SignAndBroadcast(c)
    /\ \/ At(r, "deploy new")
            /\ Suspend(r, [pc |-> "insert", order |-> req[r].order, contract |-> c])
       \/ At(r, "deploy")
            /\ Suspend(r, [pc |-> "attach", row |-> req[r].row, contract |-> c])
    /\ UNCHANGED <<rows, funded, xdrVars>>

OpenInsert(r, i) ==
    /\ At(r, "insert")
    /\ Insert(i, req[r].order, "initialized")
    /\ Suspend(r, [pc |-> "attach", row |-> i, contract |-> req[r].contract])
    /\ UNCHANGED <<chainVars, xdrVars>>

\* An update that stores the status and forgets the contract.
OpenAttachStatusOnly(r) ==
    /\ At(r, "attach")
    /\ Live(req[r].row)
    /\ rows' = [rows EXCEPT ![req[r].row].status = "initialized"]
    /\ Suspend(r, [pc |-> "answer", row |-> req[r].row, contract |-> req[r].contract])
    /\ UNCHANGED <<chainVars, xdrVars>>

OpenAttach(r) ==
    /\ At(r, "attach")
    /\ Update(req[r].row, "initialized", req[r].contract)
    /\ Suspend(r, [pc |-> "answer", row |-> req[r].row, contract |-> req[r].contract])
    /\ UNCHANGED <<chainVars, xdrVars>>

\* open and fund answer with the unsigned fund transaction.
Answer(r) ==
    /\ At(r, "answer")
    /\ fundXdrs' = fundXdrs \cup {[row |-> req[r].row, contract |-> req[r].contract]}
    /\ Finish(r)
    /\ UNCHANGED <<rows, chainVars, deployXdrs>>

FundRead(r, i) ==
    /\ req[r] = Idle
    /\ Live(i) /\ rows[i].contract # NoContract /\ rows[i].status = "initialized"
    /\ Suspend(r, [pc |-> "answer", row |-> i, contract |-> rows[i].contract])
    /\ UNCHANGED <<rows, chainVars, xdrVars>>

---------------------------------------------------------------------------------
(* initialize: read, build the deploy transaction, read again, insert or update *)

InitializeRead(r, o) ==
    /\ req[r] = Idle
    /\ NoContractYet(o)
    /\ Suspend(r, [pc |-> "build", order |-> o])
    /\ UNCHANGED <<rows, chainVars, xdrVars>>

InitializeBuild(r, c, a) ==
    /\ At(r, "build")
    /\ Draw(c, a)
    /\ Suspend(r, [pc |-> "find", order |-> req[r].order, contract |-> c])
    /\ UNCHANGED <<rows, deployed, funded, xdrVars>>

InitializeFind(r) ==
    LET o == req[r].order IN
    /\ At(r, "find")
    /\ \/ RowOf(o) = {} /\ Suspend(r, [req[r] EXCEPT !.pc = "insert pending"])
       \/ \E i \in RowOf(o) :
             Suspend(r, [pc |-> "amend", row |-> i, contract |-> req[r].contract])
    /\ UNCHANGED <<rows, chainVars, xdrVars>>

\* The answer with the transaction may get lost.
InitializeInsert(r, i) ==
    /\ At(r, "insert pending")
    /\ Insert(i, req[r].order, "pending")
    /\ \/ deployXdrs' = deployXdrs \cup {[row |-> i, contract |-> req[r].contract]}
       \/ deployXdrs' = deployXdrs
    /\ Finish(r)
    /\ UNCHANGED <<chainVars, fundXdrs>>

\* The update stores addresses and amount only.
InitializeAmend(r) ==
    /\ At(r, "amend")
    /\ Live(req[r].row)
    /\ deployXdrs' = deployXdrs \cup {[row |-> req[r].row, contract |-> req[r].contract]}
    /\ Finish(r)
    /\ UNCHANGED <<rows, chainVars, fundXdrs>>

---------------------------------------------------------------------------------
(* The legacy CRUD: create, update (which may move a row to another order), remove *)

CreateRead(r, o) ==
    /\ req[r] = Idle
    /\ RowOf(o) = {}
    /\ Suspend(r, [pc |-> "insert legacy", order |-> o])
    /\ UNCHANGED <<rows, chainVars, xdrVars>>

\* A create into a table without the unique constraint on orderId.
CreateInsertAnyway(r, i) ==
    /\ At(r, "insert legacy")
    /\ rows[i] = Never
    /\ rows' = [rows EXCEPT ![i] = [order |-> req[r].order, status |-> "pending",
                                    contract |-> NoContract]]
    /\ Finish(r)
    /\ UNCHANGED <<chainVars, xdrVars>>

CreateInsert(r, i) ==
    /\ At(r, "insert legacy")
    /\ Insert(i, req[r].order, "pending")
    /\ Finish(r)
    /\ UNCHANGED <<chainVars, xdrVars>>

UpdateOrderId(i, o) ==
    /\ Live(i)
    /\ RowOf(o) = {}
    /\ rows' = [rows EXCEPT ![i].order = o]
    /\ UNCHANGED <<chainVars, xdrVars, req, contested>>

Remove(i) ==
    /\ Live(i)
    /\ rows' = [rows EXCEPT ![i] = Deleted]
    /\ UNCHANGED <<chainVars, xdrVars, req, contested>>

---------------------------------------------------------------------------------
(* syncTransaction with action initialize or fund: read, broadcast, write *)

SyncRead(r, x) ==
    /\ req[r] = Idle
    /\ Live(x.row)
    /\ \/ x \in deployXdrs /\ rows[x.row].status = "pending"
            /\ Suspend(r, [pc |-> "send deploy", row |-> x.row, contract |-> x.contract])
       \/ x \in fundXdrs /\ rows[x.row].status = "initialized"
            /\ Suspend(r, [pc |-> "send fund", row |-> x.row, contract |-> x.contract])
    /\ UNCHANGED <<rows, chainVars, xdrVars>>

\* A sync that does not look at result.status.
SyncSendDeployUnchecked(r) ==
    /\ At(r, "send deploy")
    /\ deployed' \in {deployed, deployed \cup {req[r].contract}}
    /\ Suspend(r, [req[r] EXCEPT !.pc = "write deploy"])
    /\ UNCHANGED <<rows, drawn, funded, xdrVars>>

\* A transaction executes once.  The handler learns of it, or the answer is lost.
SyncSendDeploy(r) ==
    /\ At(r, "send deploy")
    /\ req[r].contract \notin deployed
    /\ deployed' = deployed \cup {req[r].contract}
    /\ Suspend(r, [req[r] EXCEPT !.pc = "write deploy"]) \/ Finish(r)
    /\ UNCHANGED <<rows, drawn, funded, xdrVars>>

\* A sync that does not look at result.status.
SyncSendFundUnchecked(r) ==
    /\ At(r, "send fund")
    /\ funded' \in {funded, funded \cup {req[r].contract}}
    /\ Suspend(r, [req[r] EXCEPT !.pc = "write fund"])
    /\ UNCHANGED <<rows, drawn, deployed, xdrVars>>

SyncSendFund(r) ==
    /\ At(r, "send fund")
    /\ req[r].contract \in deployed \ funded
    /\ funded' = funded \cup {req[r].contract}
    /\ Suspend(r, [req[r] EXCEPT !.pc = "write fund"]) \/ Finish(r)
    /\ UNCHANGED <<rows, drawn, deployed, xdrVars>>

\* The write after a deploy stores the new contract, the one after a fund the status.
SyncWrite(r) ==
    /\ \/ At(r, "write deploy") /\ Update(req[r].row, "initialized", req[r].contract)
       \/ At(r, "write fund") /\ Live(req[r].row)
            /\ rows' = [rows EXCEPT ![req[r].row].status = "funded"]
    /\ Finish(r)
    /\ UNCHANGED <<chainVars, xdrVars>>

---------------------------------------------------------------------------------
(* Wallets, and the listener (as a whole: see StellarListener) *)

WalletDeploys(x) ==
    /\ x \in deployXdrs
    /\ x.contract \notin deployed
    /\ deployed' = deployed \cup {x.contract}
    /\ UNCHANGED <<rows, drawn, funded, xdrVars, req, contested>>

WalletFunds(x) ==
    /\ x \in fundXdrs
    /\ x.contract \in deployed \ funded
    /\ funded' = funded \cup {x.contract}
    /\ UNCHANGED <<rows, drawn, deployed, xdrVars, req, contested>>

ListenerFunded(i) ==
    /\ Live(i)
    /\ rows[i].contract \in funded /\ rows[i].status = "initialized"
    /\ rows' = [rows EXCEPT ![i].status = "funded"]
    /\ UNCHANGED <<chainVars, xdrVars, req, contested>>

---------------------------------------------------------------------------------

Init ==
    /\ rows = [i \in Rows |-> Never]
    /\ drawn = [c \in Contracts |-> NotDrawn]
    /\ deployed = {} /\ funded = {}
    /\ deployXdrs = {} /\ fundXdrs = {}
    /\ req = [r \in Requests |-> Idle]
    /\ contested = {}

RequestStep(r) ==
    \/ \E o \in Orders : OpenRead(r, o) \/ InitializeRead(r, o) \/ CreateRead(r, o)
    \/ \E c \in Contracts, a \in AssetCode : OpenDeploy(r, c, a) \/ InitializeBuild(r, c, a)
    \/ \E i \in Rows :
          OpenInsert(r, i) \/ InitializeInsert(r, i) \/ CreateInsert(r, i) \/ FundRead(r, i)
    \/ \E x \in Xdr : SyncRead(r, x)
    \/ OpenAttach(r)
    \/ Answer(r)
    \/ InitializeFind(r)
    \/ InitializeAmend(r)
    \/ SyncSendDeploy(r)
    \/ SyncSendFund(r)
    \/ SyncWrite(r)
    \/ RequestFails(r)

Next ==
    \/ \E r \in Requests : RequestStep(r)
    \/ \E i \in Rows : Remove(i) \/ ListenerFunded(i) \/ \E o \in Orders : UpdateOrderId(i, o)
    \/ \E x \in Xdr : WalletDeploys(x) \/ WalletFunds(x)
    \/ Crash

Spec == Init /\ [][Next]_vars

---------------------------------------------------------------------------------
(* Properties *)

\* The contract a row names is on chain and no other row names it, although rows and
\* contracts come into being in separate, unguarded steps of concurrent requests.
ContractsReal ==
    /\ \A i \in Rows : Live(i) /\ rows[i].contract # NoContract => rows[i].contract \in deployed
    /\ \A i, j \in Rows :
          Live(i) /\ Live(j) /\ rows[i].contract = rows[j].contract
              /\ rows[i].contract # NoContract => i = j

\* "Only USDC is accepted for escrow operations": whatever assetCode open and
\* initialize are called with, a contract on chain is one for USDC, although the validation
\* and the mapping to a trustline read an omitted code differently.
OnlyUsdc == \A c \in deployed : drawn[c] = UsdcIssuer

\* A row shows funded only if the contract it names holds the funds, unless two opens (or
\* an open and the sync of an initialize) for that row overlapped: neither lost answers and
\* crashes of syncTransaction nor the legacy update and remove break it.
FundedWitnessed ==
    \A i \in Rows \ contested :
        Live(i) /\ rows[i].status = "funded" => rows[i].contract \in funded

\* The seller's funds are not stranded, with the same exception: as long as the row lives
\* for which open or fund handed out a fund transaction, it names the contract that
\* transaction funds.
NoStrandedFunds ==
    \A x \in fundXdrs :
        Live(x.row) /\ x.row \notin contested => rows[x.row].contract = x.contract

\* Nothing but such an overlap gives a row that has a contract another one: the checks of
\* open, initialize and syncTransaction hold although each decides on a row read earlier.
ContractKept ==
    [][\A i \in Rows \ contested' :
          Live(i) /\ Live(i)' /\ rows[i].contract # NoContract =>
             rows'[i].contract = rows[i].contract]_vars

\* The rule behind "An escrow contract already exists for this order": a row that has a
\* contract is never given another.
OneContractPerRow ==
    [][\A i \in Rows : Live(i) /\ Live(i)' /\ rows[i].contract # NoContract =>
          rows'[i].contract = rows[i].contract]_vars

=================================================================================
