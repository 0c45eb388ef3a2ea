---------------------------- MODULE EscrowOpeningProofs ----------------------------
(***************************************************************************)
(* The safety of EscrowOpening for any number of orders, rows, contracts   *)
(* and overlapping requests.  No handler holds a lock, so the invariant    *)
(* says who may still store which contract in which row: a contract is     *)
(* drawn by one request, which keeps it to itself until it has a row for   *)
(* it, and from then on every row, transaction and request that holds the  *)
(* contract holds it for that row.  While no two opening requests for a    *)
(* row have overlapped, the one in flight finds it as it was read, and all *)
(* the others hold the contract the row has.                               *)
(***************************************************************************)
EXTENDS EscrowOpening, TLAPS

\* Requests that hold a contract and have no row for it yet, and those that have one.
LoosePc == {"insert", "find", "insert pending"}
BoundPc == {"attach", "answer", "amend", "send deploy", "write deploy", "send fund",
            "write fund"}

Loose(r, c) == req[r].pc \in LoosePc /\ req[r].contract = c
Bound(r, i, c) == req[r].pc \in BoundPc /\ req[r].row = i /\ req[r].contract = c
InHand(i, c) == [row |-> i, contract |-> c] \in deployXdrs \cup fundXdrs

\* Contract c is stored, or may come to be stored, in row i.
Names(i, c) ==
    \/ Live(i) /\ rows[i].contract = c
    \/ InHand(i, c)
    \/ \E r \in Requests : Bound(r, i, c)

\* A contract goes with one row, and a request without a row has its contract for itself.
OneRow == \A c \in Contracts : \A i, j \in Rows : Names(i, c) /\ Names(j, c) => i = j
NamesDrawn == \A c \in Contracts : \A i \in Rows : Names(i, c) => drawn[c] # NotDrawn
LooseAlone ==
    \A c \in Contracts : \A r \in Requests : Loose(r, c) =>
        /\ drawn[c] # NotDrawn
        /\ \A i \in Rows : ~Names(i, c)
        /\ \A q \in Requests : Loose(q, c) => q = r

Ownership == OneRow /\ NamesDrawn /\ LooseAlone

\* What is drawn is drawn for USDC, and nothing is on chain that was not drawn.
DrawnForUsdc == \A c \in Contracts : drawn[c] \in {NotDrawn, UsdcIssuer}
DeployedDrawn == \A c \in deployed : drawn[c] # NotDrawn

\* What a row names is on chain, and a pending row names nothing yet.
RowsDeployed ==
    \A i \in Rows : Live(i) /\ rows[i].contract # NoContract => rows[i].contract \in deployed
PendingBare ==
    \A i \in Rows : Live(i) /\ rows[i].status = "pending" => rows[i].contract = NoContract

\* What a handler read before its last await still holds when it goes on: the contract it is
\* about to store is on chain, the one it is about to call funded holds funds, the row it
\* has was inserted; and, while no two opening requests for it have overlapped, that row is
\* without a contract for a request that opens and has the request's contract for one that
\* funds.
Sound(s) ==
    /\ s.pc \in {"insert", "attach", "write deploy"} => s.contract \in deployed
    /\ s.pc = "write fund" => s.contract \in funded
    /\ s.pc \in BoundPc \cup {"deploy"} => rows[s.row] # Never
    /\ s.pc \in {"deploy", "attach", "send deploy", "write deploy"} /\ s.row \notin contested =>
           (Live(s.row) => rows[s.row].contract = NoContract)
    /\ s.pc \in {"answer", "send fund", "write fund"} /\ s.row \notin contested =>
           (Live(s.row) => rows[s.row].contract = s.contract)

RequestsSound == \A r \in Requests : Sound(req[r])
OneOpener ==
    \A i \in Rows \ contested : \A q, r \in Requests :
        Opens(req[q], i) /\ Opens(req[r], i) => q = r

\* Transactions in clients' hands are about rows that were inserted.
XdrsKnown == \A x \in deployXdrs \cup fundXdrs : rows[x.row] # Never

IInv ==
    /\ TypeOK
    /\ Ownership /\ DrawnForUsdc /\ DeployedDrawn
    /\ RowsDeployed /\ PendingBare
    /\ RequestsSound /\ OneOpener
    /\ XdrsKnown /\ NoStrandedFunds /\ FundedWitnessed

------------------------------------------------------------------------------------
(* Rows and requests by their fields *)

\* A row is never mistaken for the absence of one.
LEMMA RowsExist == \A x \in Row : x # Never /\ x # Deleted
  <1>1. ASSUME NEW x \in Row PROVE DOMAIN x = {"order", "status", "contract"}
    BY DEF Row
  <1>2. DOMAIN Never = {"row"} /\ DOMAIN Deleted = {"row"}
    BY DEF Never, Deleted
  <1>3. QED
    BY <1>1, <1>2

\* A live row is a row; one never inserted is not live.
LEMMA LiveRow ==
    ASSUME TypeOK, NEW i \in Rows
    PROVE  /\ Live(i) <=> rows[i] \in Row
           /\ rows[i] = Never => ~Live(i)
  BY RowsExist DEF TypeOK, Live

\* What a request holds at each of its steps.
LEMMA Fields ==
    ASSUME TypeOK, NEW r \in Requests
    PROVE  /\ req[r].pc \in {"deploy new", "build", "insert legacy"} => req[r].order \in Orders
           /\ req[r].pc = "deploy" => req[r].order \in Orders /\ req[r].row \in Rows
           /\ req[r].pc \in LoosePc =>
                  /\ req[r].order \in Orders /\ req[r].contract \in Contracts
                  /\ req[r] \in [pc: LoosePc, order: Orders, contract: Contracts]
           /\ req[r].pc \in BoundPc =>
                  /\ req[r].row \in Rows /\ req[r].contract \in Contracts
                  /\ req[r] \in [pc: BoundPc, row: Rows, contract: Contracts]
           /\ req[r] = Idle <=> req[r].pc = "idle"
  <1> DEFINE Early == [pc: {"deploy new", "build", "insert legacy"}, order: Orders]
             Deploy == [pc: {"deploy"}, order: Orders, row: Rows]
             Alone == [pc: LoosePc, order: Orders, contract: Contracts]
             Tied == [pc: BoundPc, row: Rows, contract: Contracts]
  <1>1. req[r] \in Early \cup Deploy \cup Alone \cup Tied \cup {Idle}
    BY DEF TypeOK, Request, LoosePc, BoundPc
  <1>2. req[r] \in Early =>
            req[r].pc \in {"deploy new", "build", "insert legacy"} /\ req[r].order \in Orders
    OBVIOUS
  <1>3. req[r] \in Deploy => req[r].pc = "deploy" /\ req[r].order \in Orders /\ req[r].row \in Rows
    OBVIOUS
  <1>4. req[r] \in Alone =>
            req[r].pc \in LoosePc /\ req[r].order \in Orders /\ req[r].contract \in Contracts
    OBVIOUS
  <1>5. req[r] \in Tied =>
            req[r].pc \in BoundPc /\ req[r].row \in Rows /\ req[r].contract \in Contracts
    OBVIOUS
  <1>6. Idle.pc = "idle"
    BY DEF Idle
  <1> HIDE DEF Early, Deploy, Alone, Tied
  <1>7. /\ req[r].pc \in LoosePc => req[r] \in Alone
        /\ req[r].pc \in BoundPc => req[r] \in Tied
        /\ req[r] = Idle <=> req[r].pc = "idle"
    BY <1>1, <1>2, <1>3, <1>4, <1>5, <1>6 DEF LoosePc, BoundPc
  <1>8. /\ req[r].pc \in {"deploy new", "build", "insert legacy"} => req[r] \in Early
        /\ req[r].pc = "deploy" => req[r] \in Deploy
    BY <1>1, <1>2, <1>3, <1>4, <1>5, <1>6 DEF LoosePc, BoundPc
  <1>9. QED
    BY <1>2, <1>3, <1>4, <1>5, <1>7, <1>8 DEF Alone, Tied

\* The two ways in which a step leaves a request.
LEMMA SuspendType ==
    ASSUME TypeOK, NEW r \in Requests, NEW s \in Request, Suspend(r, s)
    PROVE  /\ req' \in [Requests -> Request \cup {Idle}] /\ contested' \in SUBSET Rows
           /\ req'[r] = s /\ \A q \in Requests \ {r} : req'[q] = req[q]
  BY DEF TypeOK, Suspend

\* A request that finishes is idle, and the others go on.
LEMMA FinishType ==
    ASSUME TypeOK, NEW r \in Requests, Finish(r)
    PROVE  /\ req' \in [Requests -> Request \cup {Idle}] /\ contested' \in SUBSET Rows
           /\ req'[r] = Idle /\ \A q \in Requests \ {r} : req'[q] = req[q]
  BY DEF TypeOK, Finish

\* The writes of the repository, on the type and on the row.
LEMMA InsertRow ==
    ASSUME TypeOK, NEW i \in Rows, NEW o \in Orders, NEW s \in {"pending", "initialized"},
           Insert(i, o, s)
    PROVE  /\ rows' \in [Rows -> Row \cup {Never, Deleted}]
           /\ rows'[i] = [order |-> o, status |-> s, contract |-> NoContract]
           /\ rows'[i].status = s /\ rows'[i].contract = NoContract /\ rows'[i] # Never
           /\ rows[i] = Never /\ ~Live(i) /\ Live(i)'
           /\ \A j \in Rows \ {i} : rows'[j] = rows[j] /\ (Live(j)' <=> Live(j))
           /\ \A j, k \in Rows : (Live(j) /\ Live(k) /\ rows[j].order = rows[k].order)' => j = k
  <1>1. /\ rows'[i] = [order |-> o, status |-> s, contract |-> NoContract]
        /\ \A j \in Rows \ {i} : rows'[j] = rows[j]
    BY DEF Insert, TypeOK
  <1>2. rows'[i] \in Row
    BY <1>1 DEF Row
  <1>3. rows' \in [Rows -> Row \cup {Never, Deleted}]
    BY <1>1, <1>2 DEF Insert, TypeOK
  <1>4. rows[i] = Never /\ ~Live(i) /\ Live(i)'
    BY <1>2, RowsExist DEF Insert, Live
  <1>5. \A j \in Rows \ {i} : Live(j)' <=> Live(j)
    BY <1>1 DEF Live
  <1>6. \A j \in Rows \ {i} : Live(j) => rows[j].order # o
    BY DEF Insert, RowOf
  <1>7. \A j, k \in Rows : (Live(j) /\ Live(k) /\ rows[j].order = rows[k].order)' => j = k
    BY <1>1, <1>5, <1>6 DEF TypeOK
  <1>8. rows'[i].status = s /\ rows'[i].contract = NoContract /\ rows'[i] # Never
    BY <1>1, <1>2, RowsExist
  <1>9. QED
    BY <1>1, <1>3, <1>4, <1>5, <1>7, <1>8

\* A write to a live row keeps orderId unique if the order is its own or a free one.
LEMMA ChangeRow ==
    ASSUME TypeOK, NEW i \in Rows, Live(i), NEW x \in Row,
           rows' = [rows EXCEPT ![i] = x],
           x.order = rows[i].order \/ RowOf(x.order) = {}
    PROVE  /\ rows' \in [Rows -> Row \cup {Never, Deleted}]
           /\ rows'[i] = x
           /\ \A j \in Rows \ {i} : rows'[j] = rows[j]
           /\ \A j \in Rows : (Live(j)' <=> Live(j)) /\ (rows'[j] = Never <=> rows[j] = Never)
           /\ \A j, k \in Rows : (Live(j) /\ Live(k) /\ rows[j].order = rows[k].order)' => j = k
  <1>1. rows'[i] = x /\ \A j \in Rows \ {i} : rows'[j] = rows[j]
    BY DEF TypeOK
  <1>2. rows' \in [Rows -> Row \cup {Never, Deleted}]
    BY <1>1 DEF TypeOK
  <1>3. \A j \in Rows : (Live(j)' <=> Live(j)) /\ (rows'[j] = Never <=> rows[j] = Never)
    BY <1>1, RowsExist DEF Live
  <1>4. \A j \in Rows \ {i} : Live(j) => rows[j].order # x.order
    BY DEF TypeOK, RowOf
  <1>5. \A j, k \in Rows : (Live(j) /\ Live(k) /\ rows[j].order = rows[k].order)' => j = k
    BY <1>1, <1>3, <1>4 DEF TypeOK
  <1>6. QED
    BY <1>1, <1>2, <1>3, <1>5

\* The updates of the code as such a change.
LEMMA UpdateStatus ==
    ASSUME TypeOK, NEW i \in Rows, Live(i), NEW s \in {"pending", "initialized", "funded"},
           rows' = [rows EXCEPT ![i].status = s]
    PROVE  \E x \in Row : /\ rows' = [rows EXCEPT ![i] = x]
                          /\ x.order = rows[i].order /\ x.status = s
                          /\ x.contract = rows[i].contract
  <1> DEFINE x == [rows[i] EXCEPT !.status = s]
  <1>1. rows[i] \in Row
    BY LiveRow
  <1>2. x \in Row /\ x.order = rows[i].order /\ x.status = s /\ x.contract = rows[i].contract
    BY <1>1 DEF Row
  <1>3. rows' = [rows EXCEPT ![i] = x]
    BY DEF TypeOK
  <1>4. QED
    BY <1>2, <1>3

\* repo.update with a contract is such a write.
LEMMA UpdateContract ==
    ASSUME TypeOK, NEW i \in Rows, NEW c \in Contracts, Update(i, "initialized", c)
    PROVE  /\ Live(i)
           /\ \E x \in Row : /\ rows' = [rows EXCEPT ![i] = x]
                             /\ x.order = rows[i].order /\ x.status = "initialized"
                             /\ x.contract = c
  <1> DEFINE x == [rows[i] EXCEPT !.status = "initialized", !.contract = c]
  <1>1. Live(i) /\ rows[i] \in Row
    BY LiveRow DEF Update
  <1>2. x \in Row /\ x.order = rows[i].order /\ x.status = "initialized" /\ x.contract = c
    BY <1>1 DEF Row
  <1>3. rows' = [rows EXCEPT ![i] = x]
    BY DEF TypeOK, Update
  <1>4. QED
    BY <1>1, <1>2, <1>3

\* The legacy update of orderId is such a write.
LEMMA UpdateOrder ==
    ASSUME TypeOK, NEW i \in Rows, NEW o \in Orders, UpdateOrderId(i, o)
    PROVE  /\ Live(i) /\ RowOf(o) = {}
           /\ \E x \in Row : /\ rows' = [rows EXCEPT ![i] = x]
                             /\ x.order = o /\ x.status = rows[i].status
                             /\ x.contract = rows[i].contract
  <1> DEFINE x == [rows[i] EXCEPT !.order = o]
  <1>1. Live(i) /\ RowOf(o) = {} /\ rows[i] \in Row
    BY LiveRow DEF UpdateOrderId
  <1>2. x \in Row /\ x.order = o /\ x.status = rows[i].status /\ x.contract = rows[i].contract
    BY <1>1 DEF Row
  <1>3. rows' = [rows EXCEPT ![i] = x]
    BY DEF TypeOK, UpdateOrderId
  <1>4. QED
    BY <1>1, <1>2, <1>3

------------------------------------------------------------------------------------
(* What steps have in common *)

\* No step takes anything back from the chain or clears the history.
Grows ==
    /\ deployed \subseteq deployed' /\ funded \subseteq funded'
    /\ contested \subseteq contested'
    /\ \A c \in Contracts : drawn[c] # NotDrawn => drawn'[c] # NotDrawn

\* All writes but the two that store a contract: rows keep theirs, and new ones have none.
ContractsLeft ==
    \A j \in Rows :
        /\ rows'[j] = Never => rows[j] = Never
        /\ Live(j)' => \/ Live(j) /\ rows'[j].contract = rows[j].contract
                       \/ rows[j] = Never /\ rows'[j].contract = NoContract

\* A step that leaves the table alone leaves the contracts alone.
LEMMA RowsAlike == ASSUME UNCHANGED rows PROVE ContractsLeft
  BY DEF ContractsLeft, Live

\* A new row has no contract.
LEMMA InsertLeft ==
    ASSUME TypeOK, NEW i \in Rows, NEW o \in Orders, NEW st \in {"pending", "initialized"},
           Insert(i, o, st)
    PROVE  ContractsLeft
  <1>1. /\ rows[i] = Never /\ \A j \in Rows \ {i} : rows'[j] = rows[j]
        /\ rows'[i] = [order |-> o, status |-> st, contract |-> NoContract]
    BY DEF Insert, TypeOK
  <1>2. rows'[i] \in Row /\ rows'[i].contract = NoContract
    BY <1>1 DEF Row
  <1>3. QED
    BY <1>1, <1>2, RowsExist DEF ContractsLeft, Live

\* A write that does not name a contract leaves it.
LEMMA ChangeLeft ==
    ASSUME TypeOK, NEW i \in Rows, Live(i), NEW x \in Row, rows' = [rows EXCEPT ![i] = x],
           x.order = rows[i].order \/ RowOf(x.order) = {}, x.contract = rows[i].contract
    PROVE  ContractsLeft
  BY ChangeRow DEF ContractsLeft

\* Such writes leave what the other requests and the clients hold about rows as it was.
LEMMA SoundStays ==
    ASSUME IInv, Grows, ContractsLeft, NEW s, Sound(s),
           s.pc \in BoundPc \cup {"deploy"} => s.row \in Rows
    PROVE  Sound(s)'
  <1>1. /\ s.pc \in {"insert", "attach", "write deploy"} => s.contract \in deployed'
        /\ s.pc = "write fund" => s.contract \in funded'
    BY DEF Sound, Grows
  <1>2. s.pc \in BoundPc \cup {"deploy"} => rows'[s.row] # Never
    BY DEF Sound, ContractsLeft
  <1>3. s.pc \in BoundPc \cup {"deploy"} /\ Live(s.row)' =>
            Live(s.row) /\ rows'[s.row].contract = rows[s.row].contract
    BY DEF Sound, ContractsLeft
  <1>4. /\ s.pc \in {"deploy", "attach", "send deploy", "write deploy"} /\ s.row \notin contested' =>
               (Live(s.row)' => rows'[s.row].contract = NoContract)
        /\ s.pc \in {"answer", "send fund", "write fund"} /\ s.row \notin contested' =>
               (Live(s.row)' => rows'[s.row].contract = s.contract)
    BY <1>3 DEF Sound, Grows, BoundPc
  <1>5. QED
    BY <1>1, <1>2, <1>4 DEF Sound

\* The requests that do not take the step remain sound.
LEMMA RequestsStay ==
    ASSUME IInv, Grows, ContractsLeft, NEW r \in Requests,
           \A q \in Requests \ {r} : req'[q] = req[q] \/ req'[q] = Idle,
           Sound(req[r])'
    PROVE  RequestsSound'
  <1>1. \A q \in Requests : req[q].pc \in BoundPc \cup {"deploy"} => req[q].row \in Rows
    BY Fields DEF IInv
  <1>2. \A q \in Requests : Sound(req[q])
    BY DEF IInv, RequestsSound
  <1>3. ASSUME NEW q \in Requests \ {r} PROVE Sound(req[q])'
    <2>1. CASE req'[q] = Idle
      <3>1. req'[q].pc = "idle"
        BY <2>1 DEF Idle
      <3>2. QED
        BY <3>1 DEF Sound, BoundPc, Live
    <2>2. CASE req'[q] = req[q]
      <3>1. PICK s : s = req[q]
        OBVIOUS
      <3>2. Sound(s)'
        BY <1>1, <1>2, <3>1, SoundStays
      <3>3. QED
        BY <2>2, <3>1, <3>2 DEF Sound, Live
    <2>3. QED
      BY <2>1, <2>2
  <1>4. QED
    BY <1>3 DEF RequestsSound

\* What rows name remains on chain.
LEMMA RowsStay ==
    ASSUME IInv, Grows, ContractsLeft
    PROVE  RowsDeployed'
  BY DEF IInv, RowsDeployed, Grows, ContractsLeft

\* Transactions in hand remain about known rows and the contracts these have.
LEMMA XdrsStay ==
    ASSUME IInv, Grows, ContractsLeft, NEW x \in deployXdrs \cup fundXdrs
    PROVE  /\ rows'[x.row] # Never
           /\ x \in fundXdrs /\ Live(x.row)' /\ x.row \notin contested' =>
                  rows'[x.row].contract = x.contract
  <1>1. x.row \in Rows /\ rows[x.row] # Never
    BY DEF IInv, TypeOK, Xdr, XdrsKnown
  <1>2. Live(x.row)' => Live(x.row) /\ rows'[x.row].contract = rows[x.row].contract
    BY <1>1 DEF ContractsLeft
  <1>3. x \in fundXdrs /\ Live(x.row) /\ x.row \notin contested =>
            rows[x.row].contract = x.contract
    BY DEF IInv, NoStrandedFunds
  <1>4. QED
    BY <1>1, <1>2, <1>3 DEF Grows, ContractsLeft

\* The same when no transaction is handed out.
LEMMA ClientsStay ==
    ASSUME IInv, Grows, ContractsLeft, UNCHANGED xdrVars
    PROVE  XdrsKnown' /\ NoStrandedFunds'
  BY XdrsStay DEF XdrsKnown, NoStrandedFunds, xdrVars

\* A step that leaves the table alone keeps what the status says.
LEMMA StatusStays ==
    ASSUME IInv, Grows, UNCHANGED rows
    PROVE  PendingBare' /\ FundedWitnessed'
  BY DEF IInv, PendingBare, FundedWitnessed, Grows, Live

\* Steps after which no request opens a row that did not before.
LEMMA OpenersKept ==
    ASSUME OneOpener, contested \subseteq contested',
           \A q \in Requests : req'[q] = req[q] \/ req'[q].pc = "idle"
    PROVE  OneOpener'
  <1>1. ASSUME NEW q \in Requests, NEW i \in Rows, Opens(req[q], i)' PROVE Opens(req[q], i)
    <2>1. req'[q].pc # "idle"
      BY <1>1 DEF Opens
    <2>2. QED
      BY <1>1, <2>1 DEF Opens
  <1>2. SUFFICES ASSUME NEW i \in Rows \ contested', NEW q \in Requests, NEW r \in Requests,
                        Opens(req[q], i)', Opens(req[r], i)'
                 PROVE  q = r
    BY DEF OneOpener
  <1>3. i \in Rows \ contested /\ Opens(req[q], i) /\ Opens(req[r], i)
    BY <1>1, <1>2
  <1>4. QED
    BY <1>3, Zenon DEF OneOpener

\* One request opens a row at a time, or the overlap is noted.
LEMMA SuspendOpener ==
    ASSUME TypeOK, OneOpener, NEW r \in Requests, NEW s \in Request, Suspend(r, s)
    PROVE  OneOpener' /\ contested \subseteq contested'
  <1>1. req'[r] = s /\ \A q \in Requests \ {r} : req'[q] = req[q]
    BY SuspendType
  <1>2. contested' = contested \cup
            {i \in Rows : Opens(s, i) /\ \E q \in Requests \ {r} : Opens(req[q], i)}
    BY DEF Suspend
  <1>3. ASSUME NEW i \in Rows \ contested', NEW q \in Requests \ {r}, Opens(s, i)
        PROVE  ~Opens(req[q], i)
    BY <1>2, <1>3
  <1>4. ASSUME NEW i \in Rows \ contested', NEW q \in Requests, NEW p \in Requests,
               Opens(req[q], i)', Opens(req[p], i)'
        PROVE  q = p
    <2>1. CASE q # r /\ p # r
      <3>1. Opens(req[q], i) /\ Opens(req[p], i) /\ i \in Rows \ contested
        BY <1>1, <1>2, <1>4, <2>1 DEF Opens
      <3>2. QED
        BY <3>1, Zenon DEF OneOpener
    <2>2. CASE q = r /\ p # r
      <3>1. Opens(s, i) /\ Opens(req[p], i)
        BY <1>1, <1>4, <2>2 DEF Opens
      <3>2. QED
        BY <1>3, <2>2, <3>1
    <2>3. CASE q # r /\ p = r
      <3>1. Opens(s, i) /\ Opens(req[q], i)
        BY <1>1, <1>4, <2>3 DEF Opens
      <3>2. QED
        BY <1>3, <2>3, <3>1
    <2>4. QED
      BY <2>1, <2>2, <2>3
  <1>5. OneOpener'
    BY <1>4 DEF OneOpener
  <1>6. QED
    BY <1>2, <1>5

\* The end of a request starts no overlap.
LEMMA FinishOpener ==
    ASSUME TypeOK, OneOpener, NEW r \in Requests, Finish(r)
    PROVE  OneOpener' /\ contested' = contested
  <1>1. req'[r].pc = "idle" /\ \A q \in Requests \ {r} : req'[q] = req[q]
    BY FinishType DEF Idle
  <1>2. contested' = contested
    BY DEF Finish
  <1>3. QED
    BY <1>1, <1>2, OpenersKept

------------------------------------------------------------------------------------
(* Who holds a contract *)

\* Steps that give no contract a new holder.
LEMMA OwnersKept ==
    ASSUME Ownership, Grows,
           \A c \in Contracts, i \in Rows : Names(i, c)' => Names(i, c),
           \A c \in Contracts, r \in Requests : Loose(r, c)' => Loose(r, c)
    PROVE  Ownership'
  <1>1. OneRow' /\ NamesDrawn'
    BY DEF Ownership, OneRow, NamesDrawn, Grows
  <1>2. LooseAlone'
    BY DEF Ownership, LooseAlone, Grows
  <1>3. QED
    BY <1>1, <1>2 DEF Ownership

\* Contract d, which no row had, gets its row k.
LEMMA OwnersBound ==
    ASSUME Ownership, Grows, NEW d \in Contracts, NEW k \in Rows,
           drawn'[d] # NotDrawn,
           \A i \in Rows : ~Names(i, d),
           \A c \in Contracts, i \in Rows : Names(i, c)' => Names(i, c) \/ (i = k /\ c = d),
           \A c \in Contracts, r \in Requests : Loose(r, c)' => Loose(r, c) /\ c # d
    PROVE  Ownership'
  <1>1. OneRow' /\ NamesDrawn'
    BY DEF Ownership, OneRow, NamesDrawn, Grows
  <1>2. LooseAlone'
    BY DEF Ownership, LooseAlone, Grows
  <1>3. QED
    BY <1>1, <1>2 DEF Ownership

\* Request p draws contract d and has no row for it yet.
LEMMA OwnersDrawn ==
    ASSUME Ownership, Grows, NEW d \in Contracts, NEW p \in Requests,
           drawn[d] = NotDrawn, drawn'[d] # NotDrawn,
           \A c \in Contracts, i \in Rows : Names(i, c)' => Names(i, c),
           \A c \in Contracts, r \in Requests : Loose(r, c)' => Loose(r, c) \/ (r = p /\ c = d)
    PROVE  Ownership'
  <1>1. OneRow' /\ NamesDrawn'
    BY DEF Ownership, OneRow, NamesDrawn, Grows
  <1>2. LooseAlone'
    BY DEF Ownership, LooseAlone, NamesDrawn, Grows
  <1>3. QED
    BY <1>1, <1>2 DEF Ownership

\* A row that keeps its contract, or is new, names nothing it did not name.
LEMMA NamesLeft ==
    ASSUME IInv, ContractsLeft, NEW i \in Rows, NEW c \in Contracts,
           Live(i)' /\ rows'[i].contract = c
    PROVE  Live(i) /\ rows[i].contract = c
  BY ContractsAssumption DEF ContractsLeft

\* Request r goes on as s, with nothing in hand that was not held for the row before.
LEMMA MoveKept ==
    ASSUME IInv, Grows, ContractsLeft, NEW r \in Requests, NEW s,
           req'[r] = s, \A q \in Requests \ {r} : req'[q] = req[q],
           s.pc \in LoosePc => Loose(r, s.contract),
           s.pc \in BoundPc => Names(s.row, s.contract),
           \A i \in Rows, c \in Contracts : InHand(i, c)' => Names(i, c)
    PROVE  Ownership'
  <1>1. ASSUME NEW i \in Rows, NEW c \in Contracts, Names(i, c)' PROVE Names(i, c)
    <2>1. CASE Live(i)' /\ rows'[i].contract = c
      BY <2>1, NamesLeft DEF Names
    <2>2. CASE InHand(i, c)'
      BY <2>2
    <2>3. ASSUME NEW q \in Requests, Bound(q, i, c)' PROVE Names(i, c)
      BY <2>3 DEF Bound, Names
    <2>4. QED
      BY <1>1, <2>1, <2>2, <2>3 DEF Names
  <1>2. \A c \in Contracts, q \in Requests : Loose(q, c)' => Loose(q, c)
    BY DEF Loose
  <1>3. QED
    BY <1>1, <1>2, OwnersKept DEF IInv

\* Request r puts contract d, which no row had, to row k: in hand, or in what r holds next.
LEMMA MoveBound ==
    ASSUME IInv, Grows, ContractsLeft, NEW r \in Requests, NEW s,
           NEW d \in Contracts, NEW k \in Rows,
           Loose(r, d) \/ drawn[d] = NotDrawn,
           drawn'[d] # NotDrawn,
           req'[r] = s, \A q \in Requests \ {r} : req'[q] = req[q],
           s.pc \notin LoosePc,
           s.pc \in BoundPc => s.row = k /\ s.contract = d,
           \A i \in Rows, c \in Contracts : InHand(i, c)' => InHand(i, c) \/ (i = k /\ c = d)
    PROVE  Ownership'
  <1>1. \A i \in Rows : ~Names(i, d)
    BY DEF IInv, Ownership, NamesDrawn, LooseAlone
  <1>2. ASSUME NEW i \in Rows, NEW c \in Contracts, Names(i, c)'
        PROVE  Names(i, c) \/ (i = k /\ c = d)
    <2>1. CASE Live(i)' /\ rows'[i].contract = c
      BY <2>1, NamesLeft DEF Names
    <2>2. CASE InHand(i, c)'
      BY <2>2 DEF Names
    <2>3. ASSUME NEW q \in Requests, Bound(q, i, c)' PROVE Names(i, c) \/ (i = k /\ c = d)
      BY <2>3 DEF Bound, Names
    <2>4. QED
      BY <1>2, <2>1, <2>2, <2>3 DEF Names
  <1>3. ASSUME NEW c \in Contracts, NEW q \in Requests, Loose(q, c)'
        PROVE  Loose(q, c) /\ c # d
    <2>1. q # r /\ Loose(q, c)
      BY <1>3 DEF Loose
    <2>2. QED
      BY <2>1 DEF IInv, Ownership, LooseAlone
  <1>4. QED
    BY <1>1, <1>2, <1>3, OwnersBound DEF IInv

\* Request r draws contract d and holds it without a row.
LEMMA MoveDrawn ==
    ASSUME IInv, Grows, ContractsLeft, NEW r \in Requests, NEW s, NEW d \in Contracts,
           drawn[d] = NotDrawn, drawn'[d] # NotDrawn,
           req'[r] = s, \A q \in Requests \ {r} : req'[q] = req[q],
           s.pc \in LoosePc, s.contract = d,
           UNCHANGED xdrVars
    PROVE  Ownership'
  <1>1. ASSUME NEW i \in Rows, NEW c \in Contracts, Names(i, c)' PROVE Names(i, c)
    <2>1. CASE Live(i)' /\ rows'[i].contract = c
      BY <2>1, NamesLeft DEF Names
    <2>2. CASE InHand(i, c)'
      BY <2>2 DEF InHand, Names, xdrVars
    <2>3. ASSUME NEW q \in Requests, Bound(q, i, c)' PROVE Names(i, c)
      BY <2>3 DEF Bound, Names, LoosePc, BoundPc
    <2>4. QED
      BY <1>1, <2>1, <2>2, <2>3 DEF Names
  <1>2. \A c \in Contracts, q \in Requests : Loose(q, c)' => Loose(q, c) \/ (q = r /\ c = d)
    BY DEF Loose
  <1>3. QED
    BY <1>1, <1>2, OwnersDrawn DEF IInv

------------------------------------------------------------------------------------
(* Steps of requests that only read, and the ends of requests *)

\* A request reads and goes on as s, which is sound for what it has read.
LEMMA ReadStep ==
    ASSUME IInv, NEW r \in Requests, NEW s \in Request, Suspend(r, s),
           UNCHANGED <<rows, chainVars, xdrVars>>,
           Sound(s),
           s.pc \in LoosePc => Loose(r, s.contract),
           s.pc \in BoundPc => Names(s.row, s.contract)
    PROVE  IInv'
  <1>1. Grows /\ OneOpener'
    BY SuspendOpener DEF IInv, Grows, chainVars
  <1>2. ContractsLeft
    BY RowsAlike
  <1>3. req'[r] = s /\ \A q \in Requests \ {r} : req'[q] = req[q]
    BY SuspendType DEF IInv
  <1>4. TypeOK'
    BY SuspendType DEF IInv, TypeOK, chainVars, xdrVars, Live
  <1>5. \A i \in Rows, c \in Contracts : InHand(i, c)' => Names(i, c)
    BY DEF InHand, Names, xdrVars
  <1>6. Ownership'
    BY <1>1, <1>2, <1>3, <1>5, MoveKept
  <1>7. Sound(req[r])'
    BY <1>1, <1>3 DEF Sound, Live, Grows
  <1>8. RequestsSound'
    BY <1>1, <1>2, <1>3, <1>7, RequestsStay
  <1>9. DrawnForUsdc' /\ DeployedDrawn'
    BY DEF IInv, DrawnForUsdc, DeployedDrawn, chainVars
  <1>10. QED
    BY <1>1, <1>2, <1>4, <1>6, <1>8, <1>9, RowsStay, ClientsStay, StatusStays DEF IInv

\* open and initialize find an order whose row, if any, has no contract.
LEMMA OpenReadStep ==
    ASSUME IInv, NEW r \in Requests, NEW o \in Orders, OpenRead(r, o) \/ InitializeRead(r, o)
    PROVE  IInv'
  <1>1. CASE OpenRead(r, o)
    <2>1. CASE Suspend(r, [pc |-> "deploy new", order |-> o])
      <3>1. [pc |-> "deploy new", order |-> o] \in Request
        BY DEF Request
      <3>2. QED
        BY <1>1, <2>1, <3>1, ReadStep DEF OpenRead, Sound, LoosePc, BoundPc
    <2>2. ASSUME NEW i \in RowOf(o), Suspend(r, [pc |-> "deploy", order |-> o, row |-> i])
          PROVE  IInv'
      <3> DEFINE s == [pc |-> "deploy", order |-> o, row |-> i]
      <3>1. s \in Request
        BY DEF Request, RowOf
      <3>2. rows[i].contract = NoContract /\ rows[i] # Never
        BY <1>1 DEF OpenRead, NoContractYet, RowOf, Live
      <3>3. Sound(s) /\ s.pc \notin LoosePc \cup BoundPc
        BY <3>2 DEF Sound, LoosePc, BoundPc
      <3>4. QED
        BY <1>1, <2>2, <3>1, <3>3, ReadStep DEF OpenRead
    <2>3. QED
      BY <1>1, <2>1, <2>2 DEF OpenRead
  <1>2. CASE InitializeRead(r, o)
    <2>1. [pc |-> "build", order |-> o] \in Request
      BY DEF Request
    <2>2. QED
      BY <1>2, <2>1, ReadStep DEF InitializeRead, Sound, LoosePc, BoundPc
  <1>3. QED
    BY <1>1, <1>2

\* create reads that the order has no row.
LEMMA CreateReadStep ==
    ASSUME IInv, NEW r \in Requests, NEW o \in Orders, CreateRead(r, o)
    PROVE  IInv'
  <1>1. [pc |-> "insert legacy", order |-> o] \in Request
    BY DEF Request
  <1>2. QED
    BY <1>1, ReadStep DEF CreateRead, Sound, LoosePc, BoundPc

\* fund reads the contract of an initialized row.
LEMMA FundReadStep ==
    ASSUME IInv, NEW r \in Requests, NEW i \in Rows, FundRead(r, i)
    PROVE  IInv'
  <1> DEFINE s == [pc |-> "answer", row |-> i, contract |-> rows[i].contract]
  <1>1. Live(i) /\ rows[i].contract \in Contracts
    BY LiveRow DEF FundRead, IInv, Row
  <1>2. s \in Request
    BY <1>1 DEF Request
  <1>3. Sound(s)
    BY <1>1 DEF Sound, BoundPc, Live
  <1>4. s.pc \notin LoosePc /\ Names(s.row, s.contract)
    BY <1>1 DEF LoosePc, Names
  <1>5. QED
    BY <1>2, <1>3, <1>4, ReadStep DEF FundRead

\* The sync of a transaction decides on the status of the row it is for.
LEMMA SyncReadStep ==
    ASSUME IInv, NEW r \in Requests, NEW x \in Xdr, SyncRead(r, x)
    PROVE  IInv'
  <1>1. x.row \in Rows /\ x.contract \in Contracts
        /\ x = [row |-> x.row, contract |-> x.contract]
    BY DEF Xdr
  <1>2. CASE /\ x \in deployXdrs /\ rows[x.row].status = "pending"
             /\ Suspend(r, [pc |-> "send deploy", row |-> x.row, contract |-> x.contract])
    <2> DEFINE s == [pc |-> "send deploy", row |-> x.row, contract |-> x.contract]
    <2>1. s \in Request
      BY <1>1 DEF Request
    <2>2. rows[x.row] # Never /\ (Live(x.row) => rows[x.row].contract = NoContract)
      BY <1>1, <1>2 DEF IInv, XdrsKnown, PendingBare
    <2>3. Sound(s)
      BY <2>2 DEF Sound
    <2>4. s.pc \notin LoosePc /\ Names(s.row, s.contract)
      BY <1>1, <1>2 DEF LoosePc, Names, InHand
    <2>5. QED
      BY <1>2, <2>1, <2>3, <2>4, ReadStep DEF SyncRead
  <1>3. CASE /\ x \in fundXdrs
             /\ Suspend(r, [pc |-> "send fund", row |-> x.row, contract |-> x.contract])
    <2> DEFINE s == [pc |-> "send fund", row |-> x.row, contract |-> x.contract]
    <2>1. s \in Request
      BY <1>1 DEF Request
    <2>2. /\ rows[x.row] # Never
          /\ Live(x.row) /\ x.row \notin contested => rows[x.row].contract = x.contract
      BY <1>1, <1>3 DEF IInv, XdrsKnown, NoStrandedFunds
    <2>3. Sound(s)
      BY <2>2 DEF Sound
    <2>4. s.pc \notin LoosePc /\ Names(s.row, s.contract)
      BY <1>1, <1>3 DEF LoosePc, Names, InHand
    <2>5. QED
      BY <1>3, <2>1, <2>3, <2>4, ReadStep DEF SyncRead
  <1>4. QED
    BY <1>2, <1>3 DEF SyncRead

\* A request that ends, or all of them in a crash, leaves the rest as it is.
LEMMA EndStep ==
    ASSUME IInv, req' \in [Requests -> Request \cup {Idle}],
           \A q \in Requests : req'[q] = req[q] \/ req'[q] = Idle,
           UNCHANGED <<rows, chainVars, xdrVars, contested>>
    PROVE  IInv'
  <1>1. Grows /\ ContractsLeft
    BY RowsAlike DEF Grows, chainVars
  <1>2. TypeOK'
    BY DEF IInv, TypeOK, chainVars, xdrVars, Live
  <1>3. \A q \in Requests : req'[q] = req[q] \/ req'[q].pc = "idle"
    BY DEF Idle
  <1>4. \A c \in Contracts, i \in Rows : Names(i, c)' => Names(i, c)
    BY <1>3 DEF Names, Live, InHand, Bound, BoundPc, xdrVars
  <1>5. \A c \in Contracts, q \in Requests : Loose(q, c)' => Loose(q, c)
    BY <1>3 DEF Loose, LoosePc
  <1>6. Ownership'
    BY <1>1, <1>4, <1>5, OwnersKept DEF IInv
  <1>7. OneOpener'
    BY <1>3, OpenersKept DEF IInv
  <1>8. ASSUME NEW q \in Requests PROVE Sound(req[q])'
    <2>1. Sound(req[q])
      BY DEF IInv, RequestsSound
    <2>2. QED
      BY <1>3, <2>1 DEF Sound, Live, BoundPc, chainVars
  <1>9. RequestsSound' /\ DrawnForUsdc' /\ DeployedDrawn'
    BY <1>8 DEF IInv, RequestsSound, DrawnForUsdc, DeployedDrawn, chainVars
  <1>10. QED
    BY <1>1, <1>2, <1>6, <1>7, <1>9, RowsStay, ClientsStay, StatusStays DEF IInv

\* Requests that fail, and crashes of the server.
LEMMA FailStep ==
    ASSUME IInv, (\E r \in Requests : RequestFails(r)) \/ Crash
    PROVE  IInv'
  <1>1. ASSUME NEW r \in Requests, RequestFails(r) PROVE IInv'
    BY <1>1, FinishType, EndStep DEF IInv, RequestFails, Finish
  <1>2. CASE Crash
    BY <1>2, EndStep DEF Crash
  <1>3. QED
    BY <1>1, <1>2

\* An answer puts a transaction into the client's hands.
LEMMA HandOutStep ==
    ASSUME IInv, NEW r \in Requests, req[r].pc \in BoundPc, Finish(r),
           UNCHANGED <<rows, chainVars>>,
           LET x == [row |-> req[r].row, contract |-> req[r].contract] IN
               \/ fundXdrs' = fundXdrs \cup {x} /\ deployXdrs' = deployXdrs
                     /\ req[r].pc = "answer"
               \/ deployXdrs' = deployXdrs \cup {x} /\ fundXdrs' = fundXdrs
    PROVE  IInv'
  <1> DEFINE x == [row |-> req[r].row, contract |-> req[r].contract]
  <1>1. Grows /\ ContractsLeft /\ OneOpener' /\ contested' = contested
    BY RowsAlike, FinishOpener DEF IInv, Grows, chainVars
  <1>2. req[r].row \in Rows /\ req[r].contract \in Contracts
    BY Fields DEF IInv
  <1>3. x \in Xdr /\ x.row = req[r].row /\ x.contract = req[r].contract
    BY <1>2 DEF Xdr
  <1>4. TypeOK'
    BY <1>3, FinishType DEF IInv, TypeOK, chainVars, Live
  <1>5. Sound(req[r])
    BY DEF IInv, RequestsSound
  <1>6. rows[x.row] # Never
    BY <1>3, <1>5 DEF Sound
  <1>7. req[r].pc = "answer" /\ Live(x.row) /\ x.row \notin contested =>
            rows[x.row].contract = x.contract
    BY <1>3, <1>5 DEF Sound
  <1>8. XdrsKnown' /\ NoStrandedFunds'
    BY <1>1, <1>6, <1>7 DEF IInv, XdrsKnown, NoStrandedFunds, Live
  <1>9. ASSUME NEW i \in Rows, NEW c \in Contracts, InHand(i, c)' PROVE Names(i, c)
    <2>1. InHand(i, c) \/ [row |-> i, contract |-> c] = x
      BY <1>9 DEF InHand
    <2>2. [row |-> i, contract |-> c] = x => i = req[r].row /\ c = req[r].contract
      OBVIOUS
    <2>3. QED
      BY <2>1, <2>2 DEF Names, Bound
  <1>10. req'[r] = Idle /\ Idle.pc = "idle" /\ \A q \in Requests \ {r} : req'[q] = req[q]
    BY FinishType DEF IInv, Idle
  <1>11. Ownership'
    BY <1>1, <1>9, <1>10, MoveKept DEF LoosePc, BoundPc
  <1>12. Sound(req[r])'
    BY <1>10 DEF Sound, BoundPc, Live
  <1>13. RequestsSound'
    BY <1>1, <1>10, <1>12, RequestsStay
  <1>14. DrawnForUsdc' /\ DeployedDrawn'
    BY DEF IInv, DrawnForUsdc, DeployedDrawn, chainVars
  <1>15. QED
    BY <1>1, <1>4, <1>8, <1>11, <1>13, <1>14, RowsStay, StatusStays DEF IInv

\* open, fund and initialize answer.
LEMMA AnswerStep ==
    ASSUME IInv, NEW r \in Requests, Answer(r) \/ InitializeAmend(r)
    PROVE  IInv'
  <1>1. CASE Answer(r)
    BY <1>1, HandOutStep DEF Answer, At, BoundPc
  <1>2. CASE InitializeAmend(r)
    BY <1>2, HandOutStep DEF InitializeAmend, At, BoundPc
  <1>3. QED
    BY <1>1, <1>2

\* initialize finds a row for its contract, or none yet.
LEMMA FindStep ==
    ASSUME IInv, NEW r \in Requests, InitializeFind(r)
    PROVE  IInv'
  <1> DEFINE o == req[r].order
             c == req[r].contract
  <1>1. /\ req[r].pc = "find" /\ o \in Orders /\ c \in Contracts
        /\ req[r] \in [pc: LoosePc, order: Orders, contract: Contracts]
    BY Fields DEF IInv, InitializeFind, At, LoosePc
  <1>2. CASE Suspend(r, [req[r] EXCEPT !.pc = "insert pending"])
    <2> DEFINE s == [req[r] EXCEPT !.pc = "insert pending"]
    <2>1. s \in [pc: LoosePc, order: Orders, contract: Contracts]
          /\ s.pc = "insert pending" /\ s.contract = c
      BY <1>1 DEF LoosePc
    <2> HIDE DEF s
    <2>2. s \in Request
      BY <2>1 DEF Request, LoosePc
    <2>3. Sound(s) /\ Loose(r, s.contract) /\ s.pc \notin BoundPc
      BY <1>1, <2>1 DEF Sound, BoundPc, Loose, LoosePc
    <2>4. QED
      BY <1>2, <2>2, <2>3, ReadStep DEF InitializeFind, s
  <1>3. ASSUME NEW i \in RowOf(o), Suspend(r, [pc |-> "amend", row |-> i, contract |-> c])
        PROVE  IInv'
    <2> DEFINE s == [pc |-> "amend", row |-> i, contract |-> c]
    <2>1. i \in Rows /\ Live(i) /\ s \in Request
      BY <1>1 DEF RowOf, Request
    <2>2. UNCHANGED <<rows, chainVars, xdrVars>>
      BY DEF InitializeFind
    <2>3. Grows /\ ContractsLeft /\ OneOpener'
      BY <1>3, <2>1, <2>2, RowsAlike, SuspendOpener DEF IInv, Grows, chainVars
    <2>4. /\ req'[r] = s /\ \A q \in Requests \ {r} : req'[q] = req[q]
          /\ req' \in [Requests -> Request \cup {Idle}] /\ contested' \in SUBSET Rows
      BY <1>3, <2>1, SuspendType DEF IInv
    <2>5. TypeOK'
      BY <2>2, <2>4 DEF IInv, TypeOK, chainVars, xdrVars, Live
    <2>6. Loose(r, c) /\ drawn'[c] # NotDrawn
      BY <1>1, <2>2 DEF Loose, LoosePc, IInv, Ownership, LooseAlone, chainVars
    <2>7. \A j \in Rows, d \in Contracts : InHand(j, d)' => InHand(j, d)
      BY <2>2 DEF InHand, xdrVars
    <2>8. Ownership'
      BY <1>1, <2>1, <2>3, <2>4, <2>6, <2>7, MoveBound DEF LoosePc
    <2>9. Sound(req[r])'
      BY <2>1, <2>2, <2>4 DEF Sound, Live
    <2>10. RequestsSound'
      BY <2>3, <2>4, <2>9, RequestsStay
    <2>11. DrawnForUsdc' /\ DeployedDrawn'
      BY <2>2 DEF IInv, DrawnForUsdc, DeployedDrawn, chainVars
    <2>12. QED
      BY <2>2, <2>3, <2>5, <2>8, <2>10, <2>11, RowsStay, ClientsStay, StatusStays DEF IInv
  <1>4. QED
    BY <1>2, <1>3 DEF InitializeFind

------------------------------------------------------------------------------------
(* Steps on the chain *)

\* What is drawn is drawn for USDC: an omitted code or XLM passes one of the two checks and
\* not the other.
LEMMA DeployableIsUsdc ==
    ASSUME NEW a \in AssetCode, Deployable(a)
    PROVE  ResolveTrustline(a).address = UsdcIssuer
  <1>1. CASE a \in {Omitted, "XLM", "native"}
    <2>1. ResolveTrustline(a).symbol = "XLM"
      BY <1>1 DEF ResolveTrustline
    <2>2. ToUpperCase["XLM"] = "XLM"
      BY DEF ToUpperCase
    <2>3. QED
      BY <2>1, <2>2 DEF Deployable, ClientAccepts
  <1>2. CASE a \notin {Omitted, "XLM", "native"}
    BY <1>2 DEF ResolveTrustline
  <1>3. QED
    BY <1>1, <1>2

\* A contract is drawn once.
LEMMA DrawStep ==
    ASSUME IInv, NEW c \in Contracts, NEW a \in AssetCode, Draw(c, a)
    PROVE  /\ drawn[c] = NotDrawn /\ drawn'[c] = UsdcIssuer /\ UsdcIssuer # NotDrawn
           /\ drawn' \in [Contracts -> {UsdcIssuer, XlmAddress, NotDrawn}]
           /\ \A d \in Contracts \ {c} : drawn'[d] = drawn[d]
           /\ DrawnForUsdc'
  <1>1. drawn' = [drawn EXCEPT ![c] = UsdcIssuer]
    BY DeployableIsUsdc DEF Draw
  <1>2. QED
    BY <1>1 DEF IInv, TypeOK, Draw, DrawnForUsdc, UsdcIssuer, NotDrawn

\* Steps that touch neither rows nor transactions in hand.
LEMMA ChainStep ==
    ASSUME IInv, Grows, UNCHANGED <<rows, xdrVars>>,
           drawn' \in [Contracts -> {UsdcIssuer, XlmAddress, NotDrawn}],
           deployed' \in SUBSET Contracts, funded' \in SUBSET Contracts,
           req' \in [Requests -> Request \cup {Idle}], contested' \in SUBSET Rows,
           Ownership', DrawnForUsdc', DeployedDrawn', RequestsSound', OneOpener'
    PROVE  IInv'
  <1>1. TypeOK'
    BY DEF IInv, TypeOK, xdrVars, Live
  <1>2. ContractsLeft
    BY RowsAlike
  <1>3. QED
    BY <1>1, <1>2, RowsStay, ClientsStay, StatusStays DEF IInv

\* open draws and deploys, for a row it has read or for one it will insert.
LEMMA OpenDeployStep ==
    ASSUME IInv, NEW r \in Requests, NEW c \in Contracts, NEW a \in AssetCode,
           OpenDeploy(r, c, a)
    PROVE  IInv'
  <1>1. /\ drawn[c] = NotDrawn /\ drawn'[c] = UsdcIssuer /\ UsdcIssuer # NotDrawn
        /\ drawn' \in [Contracts -> {UsdcIssuer, XlmAddress, NotDrawn}]
        /\ \A d \in Contracts \ {c} : drawn'[d] = drawn[d]
        /\ DrawnForUsdc'
    BY DrawStep DEF OpenDeploy
  <1>2. deployed' = deployed \cup {c} /\ UNCHANGED <<rows, funded, xdrVars>>
    BY DEF OpenDeploy, SignAndBroadcast
  <1>3. DeployedDrawn' /\ deployed' \in SUBSET Contracts
    BY <1>1, <1>2 DEF IInv, TypeOK, DeployedDrawn
  <1>4. ContractsLeft
    BY <1>2, RowsAlike
  <1>5. ASSUME NEW s \in Request, Suspend(r, s), Ownership', Sound(s)'
        PROVE  IInv'
    <2>1. Grows /\ OneOpener'
      BY <1>1, <1>2, <1>5, SuspendOpener DEF IInv, Grows
    <2>2. /\ req'[r] = s /\ \A q \in Requests \ {r} : req'[q] = req[q]
          /\ req' \in [Requests -> Request \cup {Idle}] /\ contested' \in SUBSET Rows
      BY <1>5, SuspendType DEF IInv
    <2>3. Sound(req[r])'
      BY <1>5, <2>2 DEF Sound, Live
    <2>4. RequestsSound'
      BY <1>4, <2>1, <2>2, <2>3, RequestsStay
    <2>5. QED
      BY <1>1, <1>2, <1>3, <1>5, <2>1, <2>2, <2>4, ChainStep DEF IInv, TypeOK
  <1>6. CASE /\ At(r, "deploy new")
             /\ Suspend(r, [pc |-> "insert", order |-> req[r].order, contract |-> c])
    <2>0. PICK s : s = [pc |-> "insert", order |-> req[r].order, contract |-> c]
      OBVIOUS
    <2>1. s \in Request /\ s.pc = "insert" /\ s.contract = c /\ Suspend(r, s)
      BY <1>6, <2>0, Fields DEF IInv, At, Request
    <2>2. Grows
      BY <1>1, <1>2, <2>1, SuspendOpener DEF IInv, Grows
    <2>3. req'[r] = s /\ \A q \in Requests \ {r} : req'[q] = req[q]
      BY <2>1, SuspendType DEF IInv
    <2>4. Ownership'
      BY <1>1, <1>2, <1>4, <2>1, <2>2, <2>3, MoveDrawn DEF LoosePc
    <2>5. Sound(s)'
      BY <1>2, <2>1 DEF Sound, BoundPc
    <2>6. QED
      BY <1>5, <2>1, <2>4, <2>5
  <1>7. CASE /\ At(r, "deploy")
             /\ Suspend(r, [pc |-> "attach", row |-> req[r].row, contract |-> c])
    <2>0. PICK s : s = [pc |-> "attach", row |-> req[r].row, contract |-> c]
      OBVIOUS
    <2>1. /\ s \in Request /\ s.pc = "attach" /\ s.row = req[r].row /\ s.contract = c
          /\ s.row \in Rows /\ Suspend(r, s)
      BY <1>7, <2>0, Fields DEF IInv, At, Request
    <2>2. Grows
      BY <1>1, <1>2, <2>1, SuspendOpener DEF IInv, Grows
    <2>3. req'[r] = s /\ \A q \in Requests \ {r} : req'[q] = req[q]
      BY <2>1, SuspendType DEF IInv
    <2>4. \A i \in Rows, d \in Contracts : InHand(i, d)' => InHand(i, d)
      BY <1>2 DEF InHand, xdrVars
    <2>5. Ownership'
      BY <1>1, <1>4, <2>1, <2>2, <2>3, <2>4, MoveBound DEF LoosePc
    <2>6. Sound(req[r])
      BY DEF IInv, RequestsSound
    <2>7. Sound(s)'
      BY <1>2, <1>7, <2>1, <2>2, <2>6 DEF Sound, At, Live, Grows
    <2>8. QED
      BY <1>5, <2>1, <2>5, <2>7
  <1>8. QED
    BY <1>6, <1>7 DEF OpenDeploy

\* initialize draws a contract and does not deploy it.
LEMMA BuildStep ==
    ASSUME IInv, NEW r \in Requests, NEW c \in Contracts, NEW a \in AssetCode,
           InitializeBuild(r, c, a)
    PROVE  IInv'
  <1>0. PICK s : s = [pc |-> "find", order |-> req[r].order, contract |-> c]
    OBVIOUS
  <1>1. /\ drawn[c] = NotDrawn /\ drawn'[c] = UsdcIssuer /\ UsdcIssuer # NotDrawn
        /\ drawn' \in [Contracts -> {UsdcIssuer, XlmAddress, NotDrawn}]
        /\ \A d \in Contracts \ {c} : drawn'[d] = drawn[d]
        /\ DrawnForUsdc'
    BY DrawStep DEF InitializeBuild
  <1>2. /\ s \in Request /\ s.pc = "find" /\ s.contract = c /\ Suspend(r, s)
        /\ UNCHANGED <<rows, deployed, funded, xdrVars>>
    BY <1>0, Fields DEF IInv, InitializeBuild, At, Request
  <1>3. Grows /\ OneOpener' /\ ContractsLeft
    BY <1>1, <1>2, SuspendOpener, RowsAlike DEF IInv, Grows
  <1>4. /\ req'[r] = s /\ \A q \in Requests \ {r} : req'[q] = req[q]
        /\ req' \in [Requests -> Request \cup {Idle}] /\ contested' \in SUBSET Rows
    BY <1>2, SuspendType DEF IInv
  <1>5. Ownership'
    BY <1>1, <1>2, <1>3, <1>4, MoveDrawn DEF LoosePc
  <1>6. Sound(req[r])'
    BY <1>2, <1>4 DEF Sound, BoundPc, Live
  <1>7. RequestsSound'
    BY <1>3, <1>4, <1>6, RequestsStay
  <1>8. DeployedDrawn'
    BY <1>1, <1>2 DEF IInv, TypeOK, DeployedDrawn
  <1>9. QED
    BY <1>1, <1>2, <1>3, <1>4, <1>5, <1>7, <1>8, ChainStep DEF IInv, TypeOK

\* syncTransaction broadcasts, and learns of the result or not.
LEMMA SendStep ==
    ASSUME IInv, NEW r \in Requests, SyncSendDeploy(r) \/ SyncSendFund(r)
    PROVE  IInv'
  <1> DEFINE c == req[r].contract
  <1>1. /\ req[r].pc \in {"send deploy", "send fund"}
        /\ req[r].row \in Rows /\ c \in Contracts
        /\ req[r] \in [pc: BoundPc, row: Rows, contract: Contracts]
    BY Fields DEF IInv, SyncSendDeploy, SyncSendFund, At, BoundPc
  <1>2. /\ UNCHANGED <<rows, drawn, xdrVars>>
        /\ deployed' \in {deployed, deployed \cup {c}}
        /\ funded' \in {funded, funded \cup {c}}
    BY DEF SyncSendDeploy, SyncSendFund
  <1>3. Names(req[r].row, c) /\ Sound(req[r])
    BY <1>1 DEF Names, Bound, BoundPc, IInv, RequestsSound
  <1>4. DrawnForUsdc' /\ DeployedDrawn'
    BY <1>1, <1>2, <1>3 DEF IInv, Ownership, NamesDrawn, DrawnForUsdc, DeployedDrawn
  <1>5. ContractsLeft /\ deployed' \in SUBSET Contracts /\ funded' \in SUBSET Contracts
    BY <1>1, <1>2, RowsAlike DEF IInv, TypeOK
  <1>6. \A i \in Rows, d \in Contracts : InHand(i, d)' => Names(i, d)
    BY <1>2 DEF InHand, Names, xdrVars
  <1>7. ASSUME NEW s, req'[r] = s, \A q \in Requests \ {r} : req'[q] = req[q],
               req' \in [Requests -> Request \cup {Idle}], contested' \in SUBSET Rows,
               contested \subseteq contested', OneOpener', Sound(s)',
               s.pc \notin LoosePc, s.pc \in BoundPc => s.row = req[r].row /\ s.contract = c
        PROVE  IInv'
    <2>1. Grows
      BY <1>2, <1>7 DEF Grows
    <2>2. Ownership'
      BY <1>3, <1>5, <1>6, <1>7, <2>1, MoveKept
    <2>3. Sound(req[r])'
      BY <1>7 DEF Sound, Live
    <2>4. RequestsSound'
      BY <1>5, <1>7, <2>1, <2>3, RequestsStay
    <2>5. QED
      BY <1>2, <1>4, <1>5, <1>7, <2>1, <2>2, <2>4, ChainStep DEF IInv, TypeOK
  <1>8. CASE Finish(r)
    <2>1. Sound(Idle)' /\ Idle.pc \notin LoosePc \cup BoundPc
      BY DEF Sound, Idle, BoundPc, LoosePc
    <2>2. QED
      BY <1>7, <1>8, <2>1, FinishType, FinishOpener DEF IInv
  <1>9. CASE SyncSendDeploy(r) /\ Suspend(r, [req[r] EXCEPT !.pc = "write deploy"])
    <2>1. PICK s : s = [req[r] EXCEPT !.pc = "write deploy"]
      OBVIOUS
    <2>2. /\ s \in [pc: BoundPc, row: Rows, contract: Contracts]
          /\ s.pc = "write deploy" /\ s.row = req[r].row /\ s.contract = c
      BY <1>1, <2>1 DEF BoundPc
    <2>3. s \in Request /\ Suspend(r, s)
      BY <1>9, <2>1, <2>2 DEF Request, BoundPc
    <2>4. contested \subseteq contested'
      BY <2>3 DEF Suspend
    <2>5. Sound(s)'
      BY <1>2, <1>3, <1>9, <2>2, <2>4 DEF Sound, SyncSendDeploy, At, Live, BoundPc
    <2>6. QED
      BY <1>7, <2>2, <2>3, <2>5, SuspendType, SuspendOpener DEF IInv, LoosePc
  <1>10. CASE SyncSendFund(r) /\ Suspend(r, [req[r] EXCEPT !.pc = "write fund"])
    <2>1. PICK s : s = [req[r] EXCEPT !.pc = "write fund"]
      OBVIOUS
    <2>2. /\ s \in [pc: BoundPc, row: Rows, contract: Contracts]
          /\ s.pc = "write fund" /\ s.row = req[r].row /\ s.contract = c
      BY <1>1, <2>1 DEF BoundPc
    <2>3. s \in Request /\ Suspend(r, s)
      BY <1>10, <2>1, <2>2 DEF Request, BoundPc
    <2>4. contested \subseteq contested'
      BY <2>3 DEF Suspend
    <2>5. Sound(s)'
      BY <1>2, <1>3, <1>10, <2>2, <2>4 DEF Sound, SyncSendFund, At, Live, BoundPc
    <2>6. QED
      BY <1>7, <2>2, <2>3, <2>5, SuspendType, SuspendOpener DEF IInv, LoosePc
  <1>11. QED
    BY <1>8, <1>9, <1>10 DEF SyncSendDeploy, SyncSendFund

\* A client broadcasts a transaction itself.
LEMMA WalletStep ==
    ASSUME IInv, NEW x \in Xdr, WalletDeploys(x) \/ WalletFunds(x)
    PROVE  IInv'
  <1>1. /\ UNCHANGED <<rows, drawn, xdrVars, req, contested>>
        /\ deployed' \in {deployed, deployed \cup {x.contract}}
        /\ funded' \in {funded, funded \cup {x.contract}}
    BY DEF WalletDeploys, WalletFunds
  <1>2. x.row \in Rows /\ x.contract \in Contracts
        /\ x = [row |-> x.row, contract |-> x.contract]
    BY DEF Xdr
  <1>3. Names(x.row, x.contract)
    BY <1>2 DEF WalletDeploys, WalletFunds, Names, InHand
  <1>4. Grows /\ OneOpener' /\ DrawnForUsdc' /\ DeployedDrawn'
    <2>1. OneOpener'
      BY <1>1, OpenersKept DEF IInv
    <2>2. QED
      BY <1>1, <1>2, <1>3, <2>1
         DEF IInv, Grows, Ownership, NamesDrawn, DrawnForUsdc, DeployedDrawn
  <1>5. /\ \A c \in Contracts, i \in Rows : Names(i, c)' => Names(i, c)
        /\ \A c \in Contracts, q \in Requests : Loose(q, c)' => Loose(q, c)
    BY <1>1 DEF Names, Live, InHand, Bound, Loose, xdrVars
  <1>6. Ownership'
    BY <1>4, <1>5, OwnersKept DEF IInv
  <1>7. ASSUME NEW q \in Requests PROVE Sound(req[q])'
    <2>1. Sound(req[q])
      BY DEF IInv, RequestsSound
    <2>2. QED
      BY <1>1, <1>4, <2>1 DEF Sound, Live, Grows
  <1>8. RequestsSound'
    BY <1>7 DEF RequestsSound
  <1>9. deployed' \in SUBSET Contracts /\ funded' \in SUBSET Contracts
    BY <1>1, <1>2 DEF IInv, TypeOK
  <1>10. QED
    BY <1>1, <1>4, <1>6, <1>8, <1>9, ChainStep DEF IInv, TypeOK

------------------------------------------------------------------------------------
(* Steps that insert rows *)

\* What the inserts have in common.
LEMMA InsertKeeps ==
    ASSUME IInv, NEW i \in Rows, NEW o \in Orders, NEW st \in {"pending", "initialized"},
           Insert(i, o, st), UNCHANGED chainVars, contested \subseteq contested'
    PROVE  /\ Grows /\ ContractsLeft
           /\ rows'[i] # Never /\ rows'[i].contract = NoContract
           /\ RowsDeployed' /\ PendingBare' /\ FundedWitnessed'
           /\ DrawnForUsdc' /\ DeployedDrawn'
           /\ rows' \in [Rows -> Row \cup {Never, Deleted}]
           /\ \A j, k \in Rows : (Live(j) /\ Live(k) /\ rows[j].order = rows[k].order)' => j = k
  <1>1. /\ rows' \in [Rows -> Row \cup {Never, Deleted}]
        /\ rows'[i].contract = NoContract /\ rows'[i].status = st /\ rows'[i] # Never
        /\ rows[i] = Never /\ ~Live(i) /\ Live(i)'
        /\ \A j \in Rows \ {i} : rows'[j] = rows[j] /\ (Live(j)' <=> Live(j))
        /\ \A j, k \in Rows : (Live(j) /\ Live(k) /\ rows[j].order = rows[k].order)' => j = k
    BY InsertRow DEF IInv
  <1>2. Grows
    BY DEF Grows, chainVars
  <1>3. ContractsLeft
    BY InsertLeft DEF IInv
  <1>4. RowsDeployed'
    BY <1>2, <1>3, RowsStay
  <1>5. PendingBare'
    BY <1>1 DEF IInv, PendingBare
  <1>6. FundedWitnessed'
    BY <1>1, <1>2 DEF IInv, FundedWitnessed, Grows
  <1>7. DrawnForUsdc' /\ DeployedDrawn'
    BY DEF IInv, DrawnForUsdc, DeployedDrawn, chainVars
  <1>8. QED
    BY <1>1, <1>2, <1>3, <1>4, <1>5, <1>6, <1>7

\* open inserts the row for the contract it has deployed.
LEMMA OpenInsertStep ==
    ASSUME IInv, NEW r \in Requests, NEW i \in Rows, OpenInsert(r, i)
    PROVE  IInv'
  <1> DEFINE c == req[r].contract
  <1>1. req[r].pc = "insert" /\ req[r].order \in Orders /\ c \in Contracts /\ Loose(r, c)
    BY Fields DEF IInv, OpenInsert, At, LoosePc, Loose
  <1>2. PICK s : s = [pc |-> "attach", row |-> i, contract |-> c]
    OBVIOUS
  <1>3. /\ s \in Request /\ s.pc = "attach" /\ s.row = i /\ s.contract = c
        /\ Suspend(r, s) /\ UNCHANGED <<chainVars, xdrVars>>
    BY <1>1, <1>2 DEF Request, OpenInsert
  <1>4. OneOpener' /\ (contested \subseteq contested')
    BY <1>3, SuspendOpener DEF IInv
  <1>5. /\ Grows /\ ContractsLeft
        /\ rows'[i] # Never /\ rows'[i].contract = NoContract
        /\ RowsDeployed' /\ PendingBare' /\ FundedWitnessed'
        /\ DrawnForUsdc' /\ DeployedDrawn'
        /\ rows' \in [Rows -> Row \cup {Never, Deleted}]
        /\ \A j, k \in Rows : (Live(j) /\ Live(k) /\ rows[j].order = rows[k].order)' => j = k
    BY <1>1, <1>3, <1>4, InsertKeeps DEF OpenInsert
  <1>6. /\ req'[r] = s /\ \A q \in Requests \ {r} : req'[q] = req[q]
        /\ req' \in [Requests -> Request \cup {Idle}] /\ contested' \in SUBSET Rows
    BY <1>3, SuspendType DEF IInv
  <1>7. TypeOK'
    BY <1>3, <1>5, <1>6 DEF IInv, TypeOK, chainVars, xdrVars
  <1>8. drawn'[c] # NotDrawn
    BY <1>1, <1>3 DEF IInv, Ownership, LooseAlone, chainVars
  <1>9. \A j \in Rows, d \in Contracts : InHand(j, d)' => InHand(j, d)
    BY <1>3 DEF InHand, xdrVars
  <1>10. Ownership'
    BY <1>1, <1>3, <1>5, <1>6, <1>8, <1>9, MoveBound DEF LoosePc
  <1>11. c \in deployed'
    BY <1>1, <1>3 DEF IInv, RequestsSound, Sound, chainVars
  <1>12. Sound(req[r])'
    BY <1>3, <1>5, <1>6, <1>11 DEF Sound
  <1>13. RequestsSound'
    BY <1>5, <1>6, <1>12, RequestsStay
  <1>14. QED
    BY <1>3, <1>4, <1>5, <1>7, <1>10, <1>13, ClientsStay DEF IInv

\* initialize inserts the row and answers with the transaction; create just inserts.
LEMMA InsertStep ==
    ASSUME IInv, NEW r \in Requests, NEW i \in Rows, InitializeInsert(r, i) \/ CreateInsert(r, i)
    PROVE  IInv'
  <1>1. /\ req[r].order \in Orders /\ Insert(i, req[r].order, "pending")
        /\ Finish(r) /\ UNCHANGED <<chainVars, fundXdrs>>
    BY Fields DEF IInv, InitializeInsert, CreateInsert, At, LoosePc, xdrVars
  <1>2. OneOpener' /\ contested' = contested
    BY <1>1, FinishOpener DEF IInv
  <1>3. /\ Grows /\ ContractsLeft
        /\ rows'[i] # Never /\ rows'[i].contract = NoContract
        /\ RowsDeployed' /\ PendingBare' /\ FundedWitnessed'
        /\ DrawnForUsdc' /\ DeployedDrawn'
        /\ rows' \in [Rows -> Row \cup {Never, Deleted}]
        /\ \A j, k \in Rows : (Live(j) /\ Live(k) /\ rows[j].order = rows[k].order)' => j = k
    BY <1>1, <1>2, InsertKeeps
  <1>4. /\ req'[r] = Idle /\ Idle.pc = "idle" /\ \A q \in Requests \ {r} : req'[q] = req[q]
        /\ req' \in [Requests -> Request \cup {Idle}] /\ contested' \in SUBSET Rows
    BY <1>1, FinishType DEF IInv, Idle
  <1>5. Sound(req[r])'
    BY <1>4 DEF Sound, BoundPc, Live
  <1>6. RequestsSound'
    BY <1>3, <1>4, <1>5, RequestsStay
  <1>7. CASE UNCHANGED deployXdrs
    <2>1. TypeOK'
      BY <1>1, <1>3, <1>4, <1>7 DEF IInv, TypeOK, chainVars
    <2>2. \A j \in Rows, d \in Contracts : InHand(j, d)' => Names(j, d)
      BY <1>1, <1>7 DEF InHand, Names
    <2>3. Ownership'
      BY <1>3, <1>4, <2>2, MoveKept DEF LoosePc, BoundPc
    <2>4. QED
      BY <1>1, <1>2, <1>3, <1>6, <1>7, <2>1, <2>3, ClientsStay DEF IInv, xdrVars
  <1>8. CASE /\ At(r, "insert pending")
             /\ deployXdrs' = deployXdrs \cup {[row |-> i, contract |-> req[r].contract]}
    <2>1. PICK c : c = req[r].contract
      OBVIOUS
    <2>2. PICK x : x = [row |-> i, contract |-> c]
      OBVIOUS
    <2>3. c \in Contracts /\ Loose(r, c) /\ x \in Xdr /\ x.row = i
      BY <1>8, <2>1, <2>2, Fields DEF IInv, At, LoosePc, Loose, Xdr
    <2>4. deployXdrs' = deployXdrs \cup {x}
      BY <1>8, <2>1, <2>2
    <2>5. TypeOK'
      BY <1>1, <1>3, <1>4, <2>3, <2>4 DEF IInv, TypeOK, chainVars
    <2>6. XdrsKnown' /\ NoStrandedFunds'
      BY <1>1, <1>3, <2>3, <2>4, XdrsStay DEF XdrsKnown, NoStrandedFunds
    <2>7. drawn'[c] # NotDrawn
      BY <1>1, <2>3 DEF IInv, Ownership, LooseAlone, chainVars
    <2>8. \A j \in Rows, d \in Contracts : InHand(j, d)' => InHand(j, d) \/ (j = i /\ d = c)
      BY <1>1, <2>2, <2>4 DEF InHand
    <2>9. Ownership'
      BY <1>3, <1>4, <2>3, <2>7, <2>8, MoveBound DEF LoosePc, BoundPc
    <2>10. QED
      BY <1>1, <1>2, <1>3, <1>6, <2>5, <2>6, <2>9 DEF IInv
  <1>9. QED
    BY <1>7, <1>8 DEF InitializeInsert, CreateInsert, xdrVars

------------------------------------------------------------------------------------
(* Steps that change rows *)

\* Status, order and end of a row: its contract stays, and at most a request ends.
LEMMA RowStep ==
    ASSUME IInv, ContractsLeft, PendingBare', FundedWitnessed',
           rows' \in [Rows -> Row \cup {Never, Deleted}],
           \A j, k \in Rows : (Live(j) /\ Live(k) /\ rows[j].order = rows[k].order)' => j = k,
           UNCHANGED <<chainVars, xdrVars, contested>>,
           req' \in [Requests -> Request \cup {Idle}],
           \A q \in Requests : req'[q] = req[q] \/ req'[q] = Idle
    PROVE  IInv'
  <1>1. Grows
    BY DEF Grows, chainVars
  <1>2. TypeOK'
    BY DEF IInv, TypeOK, chainVars, xdrVars
  <1>3. \A q \in Requests : req'[q] = req[q] \/ req'[q].pc = "idle"
    BY DEF Idle
  <1>4. ASSUME NEW c \in Contracts, NEW i \in Rows, Names(i, c)' PROVE Names(i, c)
    <2>1. CASE Live(i)' /\ rows'[i].contract = c
      BY <2>1, NamesLeft DEF Names
    <2>2. CASE InHand(i, c)'
      BY <2>2 DEF InHand, Names, xdrVars
    <2>3. ASSUME NEW q \in Requests, Bound(q, i, c)' PROVE Names(i, c)
      BY <1>3, <2>3 DEF Bound, BoundPc, Names
    <2>4. QED
      BY <1>4, <2>1, <2>2, <2>3 DEF Names
  <1>5. \A c \in Contracts, q \in Requests : Loose(q, c)' => Loose(q, c)
    BY <1>3 DEF Loose, LoosePc
  <1>6. Ownership'
    BY <1>1, <1>4, <1>5, OwnersKept DEF IInv
  <1>7. OneOpener'
    BY <1>3, OpenersKept DEF IInv
  <1>8. ASSUME NEW r \in Requests PROVE Sound(req[r])'
    <2>1. CASE req'[r] = req[r]
      <3>1. PICK s : s = req[r]
        OBVIOUS
      <3>2. Sound(s) /\ (s.pc \in BoundPc \cup {"deploy"} => s.row \in Rows)
        BY <3>1, Fields DEF IInv, RequestsSound
      <3>3. Sound(s)'
        BY <1>1, <3>2, SoundStays
      <3>4. QED
        BY <2>1, <3>1, <3>3 DEF Sound, Live
    <2>2. CASE req'[r].pc = "idle"
      BY <2>2 DEF Sound, BoundPc, Live
    <2>3. QED
      BY <1>3, <2>1, <2>2
  <1>9. RequestsSound' /\ DrawnForUsdc' /\ DeployedDrawn'
    BY <1>8 DEF IInv, RequestsSound, DrawnForUsdc, DeployedDrawn, chainVars
  <1>10. QED
    BY <1>1, <1>2, <1>6, <1>7, <1>9, RowsStay, ClientsStay DEF IInv

\* A row that is moved to another order, or is seen or written as funded.
LEMMA ChangeStep ==
    ASSUME IInv, NEW i \in Rows, Live(i), NEW x \in Row, rows' = [rows EXCEPT ![i] = x],
           x.order = rows[i].order \/ RowOf(x.order) = {},
           x.contract = rows[i].contract,
           \/ x.status = rows[i].status
           \/ x.status = "funded" /\ (i \notin contested => rows[i].contract \in funded),
           UNCHANGED <<chainVars, xdrVars, contested>>,
           req' \in [Requests -> Request \cup {Idle}],
           \A q \in Requests : req'[q] = req[q] \/ req'[q] = Idle
    PROVE  IInv'
  <1>1. /\ rows' \in [Rows -> Row \cup {Never, Deleted}]
        /\ rows'[i] = x
        /\ \A j \in Rows \ {i} : rows'[j] = rows[j]
        /\ \A j \in Rows : (Live(j)' <=> Live(j)) /\ (rows'[j] = Never <=> rows[j] = Never)
        /\ \A j, k \in Rows : (Live(j) /\ Live(k) /\ rows[j].order = rows[k].order)' => j = k
    BY ChangeRow DEF IInv
  <1>2. ContractsLeft
    BY ChangeLeft DEF IInv
  <1>3. PendingBare' /\ FundedWitnessed'
    BY <1>1 DEF IInv, PendingBare, FundedWitnessed, chainVars
  <1>4. QED
    BY <1>1, <1>2, <1>3, RowStep

\* The legacy update and remove, and the listener.
LEMMA TableStep ==
    ASSUME IInv, NEW i \in Rows,
           \/ \E o \in Orders : UpdateOrderId(i, o)
           \/ Remove(i)
           \/ ListenerFunded(i)
    PROVE  IInv'
  <1>1. req \in [Requests -> Request \cup {Idle}]
    BY DEF IInv, TypeOK
  <1>2. ASSUME NEW o \in Orders, UpdateOrderId(i, o) PROVE IInv'
    <2>1. PICK x \in Row : /\ rows' = [rows EXCEPT ![i] = x]
                           /\ x.order = o /\ x.status = rows[i].status
                           /\ x.contract = rows[i].contract
      BY <1>2, UpdateOrder DEF IInv
    <2>2. QED
      BY <1>1, <1>2, <2>1, ChangeStep DEF UpdateOrderId
  <1>3. CASE Remove(i)
    <2>1. rows'[i] = Deleted /\ \A j \in Rows \ {i} : rows'[j] = rows[j]
      BY <1>3 DEF Remove, IInv, TypeOK
    <2>2. Deleted # Never /\ rows' \in [Rows -> Row \cup {Never, Deleted}]
      BY <1>3 DEF Remove, IInv, TypeOK, Deleted, Never
    <2>3. \A j \in Rows : Live(j)' => Live(j) /\ rows'[j] = rows[j]
      BY <2>1 DEF Live
    <2>4. ContractsLeft
      BY <2>1, <2>2, <2>3 DEF ContractsLeft
    <2>5. PendingBare' /\ FundedWitnessed'
      BY <1>3, <2>3 DEF IInv, PendingBare, FundedWitnessed, Remove, chainVars
    <2>6. \A j, k \in Rows : (Live(j) /\ Live(k) /\ rows[j].order = rows[k].order)' => j = k
      BY <2>3 DEF IInv, TypeOK
    <2>7. QED
      BY <1>1, <1>3, <2>2, <2>4, <2>5, <2>6, RowStep DEF Remove
  <1>4. CASE ListenerFunded(i)
    <2>1. PICK x \in Row : /\ rows' = [rows EXCEPT ![i] = x]
                           /\ x.order = rows[i].order /\ x.status = "funded"
                           /\ x.contract = rows[i].contract
      BY <1>4, UpdateStatus DEF IInv, ListenerFunded
    <2>2. QED
      BY <1>1, <1>4, <2>1, ChangeStep DEF ListenerFunded
  <1>5. QED
    BY <1>2, <1>3, <1>4

\* A contract is stored in its row, by open or by the sync of an initialize.
LEMMA StoreStep ==
    ASSUME IInv, NEW r \in Requests, req[r].pc \in {"attach", "write deploy"},
           Update(req[r].row, "initialized", req[r].contract),
           UNCHANGED <<chainVars, xdrVars>>,
           NEW s \in Request \cup {Idle},
           req'[r] = s, \A q \in Requests \ {r} : req'[q] = req[q],
           req' \in [Requests -> Request \cup {Idle}], contested' \in SUBSET Rows,
           contested \subseteq contested', OneOpener',
           \/ s = Idle
           \/ s.pc = "answer" /\ s.row = req[r].row /\ s.contract = req[r].contract
    PROVE  IInv'
  <1>1. PICK i, c : i = req[r].row /\ c = req[r].contract
    OBVIOUS
  <1>2. i \in Rows /\ c \in Contracts /\ Bound(r, i, c) /\ Names(i, c)
    BY <1>1, Fields DEF IInv, BoundPc, Bound, Names
  <1>3. PICK x \in Row : /\ rows' = [rows EXCEPT ![i] = x]
                         /\ x.order = rows[i].order /\ x.status = "initialized"
                         /\ x.contract = c
    BY <1>1, <1>2, UpdateContract DEF IInv
  <1>4. Live(i)
    BY <1>1 DEF Update
  <1>5. /\ rows' \in [Rows -> Row \cup {Never, Deleted}]
        /\ rows'[i] = x
        /\ \A j \in Rows \ {i} : rows'[j] = rows[j]
        /\ \A j \in Rows : (Live(j)' <=> Live(j)) /\ (rows'[j] = Never <=> rows[j] = Never)
        /\ \A j, k \in Rows : (Live(j) /\ Live(k) /\ rows[j].order = rows[k].order)' => j = k
    BY <1>2, <1>3, <1>4, ChangeRow DEF IInv
  <1>6. TypeOK'
    BY <1>5 DEF IInv, TypeOK, chainVars, xdrVars
  <1>7. Grows
    BY DEF Grows, chainVars
  <1>8. s = Idle => s.pc = "idle"
    <2>1. Idle.pc = "idle"
      BY DEF Idle
    <2>2. QED
      BY <2>1
  <1>9. ASSUME NEW j \in Rows, NEW d \in Contracts, Names(j, d)' PROVE Names(j, d)
    <2>1. CASE Live(j)' /\ rows'[j].contract = d
      <3>1. CASE j = i
        <4>1. d = c
          BY <1>3, <1>5, <2>1, <3>1
        <4>2. QED
          BY <1>2, <3>1, <4>1
      <3>2. CASE j # i
        <4>1. Live(j) /\ rows[j].contract = d
          BY <1>5, <2>1, <3>2
        <4>2. QED
          BY <4>1 DEF Names
      <3>3. QED
        BY <3>1, <3>2
    <2>2. CASE InHand(j, d)'
      BY <2>2 DEF InHand, Names, xdrVars
    <2>3. ASSUME NEW q \in Requests, Bound(q, j, d)' PROVE Names(j, d)
      BY <1>1, <1>2, <1>8, <2>3 DEF Bound, BoundPc, Names
    <2>4. QED
      BY <1>9, <2>1, <2>2, <2>3 DEF Names
  <1>10. \A d \in Contracts, q \in Requests : Loose(q, d)' => Loose(q, d)
    BY <1>8 DEF Loose, LoosePc
  <1>11. Ownership'
    BY <1>7, <1>9, <1>10, OwnersKept DEF IInv
  <1>12. c \in deployed /\ (i \notin contested => rows[i].contract = NoContract)
    BY <1>1, <1>4 DEF IInv, RequestsSound, Sound
  <1>13. RowsDeployed' /\ PendingBare' /\ FundedWitnessed'
    BY <1>3, <1>5, <1>7, <1>12
       DEF IInv, RowsDeployed, PendingBare, FundedWitnessed, chainVars, Grows
  <1>14. ASSUME NEW y \in fundXdrs, y.row \notin contested, Live(y.row)
         PROVE  y.row \in Rows \ {i}
    <2>1. y.row \in Rows /\ y.contract \in Contracts
      BY DEF IInv, TypeOK, Xdr
    <2>2. rows[y.row].contract = y.contract
      BY <1>14 DEF IInv, NoStrandedFunds
    <2>3. QED
      BY <1>12, <1>14, <2>1, <2>2, ContractsAssumption
  <1>15. XdrsKnown' /\ NoStrandedFunds'
    <2>1. \A y \in deployXdrs \cup fundXdrs : y.row \in Rows /\ rows[y.row] # Never
      BY DEF IInv, TypeOK, Xdr, XdrsKnown
    <2>2. XdrsKnown'
      BY <1>5, <2>1 DEF XdrsKnown, xdrVars
    <2>3. NoStrandedFunds'
      BY <1>5, <1>7, <1>14, <2>1 DEF IInv, NoStrandedFunds, xdrVars, Grows
    <2>4. QED
      BY <2>2, <2>3
  <1>16. ASSUME NEW q \in Requests \ {r} PROVE Sound(req[q])'
    <2>1. /\ Sound(req[q]) /\ (req[q].pc \in BoundPc \cup {"deploy"} => req[q].row \in Rows)
          /\ (req[q].pc \in BoundPc => req[q].contract \in Contracts)
      BY Fields DEF IInv, RequestsSound
    <2>2. req[q].pc \in {"deploy", "attach", "send deploy", "write deploy"}
              /\ req[q].row \notin contested => req[q].row \in Rows \ {i}
      BY <1>1, <1>2, <2>1 DEF IInv, OneOpener, Opens, BoundPc
    <2>3. req[q].pc \in {"answer", "send fund", "write fund"} /\ req[q].row \notin contested
              /\ Live(req[q].row) => req[q].row \in Rows \ {i}
      BY <1>12, <2>1, ContractsAssumption DEF Sound, BoundPc
    <2>4. req'[q] = req[q]
      OBVIOUS
    <2>5. /\ req[q].pc \in {"insert", "attach", "write deploy"} => req[q].contract \in deployed'
          /\ req[q].pc = "write fund" => req[q].contract \in funded'
          /\ req[q].pc \in BoundPc \cup {"deploy"} => rows'[req[q].row] # Never
      BY <1>5, <1>7, <2>1 DEF Sound, Grows
    <2>6. req[q].pc \in {"answer", "send fund", "write fund"} /\ req[q].row \notin contested' =>
              (Live(req[q].row)' => rows'[req[q].row].contract = req[q].contract)
      BY <1>5, <1>7, <2>1, <2>3, <2>4 DEF Sound, BoundPc, Grows, Live
    <2>7. req[q].pc \in {"deploy", "attach", "send deploy", "write deploy"}
              /\ req[q].row \notin contested' =>
              (Live(req[q].row)' => rows'[req[q].row].contract = NoContract)
      BY <1>5, <1>7, <2>1, <2>2, <2>4 DEF Sound, BoundPc, Grows, Live
    <2>8. QED
      BY <2>4, <2>5, <2>6, <2>7 DEF Sound, Live
  <1>17. Sound(req[r])'
    <2>1. rows'[i] # Never /\ rows'[i].contract = c
      BY <1>3, <1>5, RowsExist
    <2>2. CASE s = Idle
      BY <1>8, <2>2 DEF Sound, BoundPc, Live
    <2>3. CASE s.pc = "answer" /\ s.row = i /\ s.contract = c
      BY <2>1, <2>3 DEF Sound, BoundPc, Live
    <2>4. QED
      BY <1>1, <2>2, <2>3
  <1>18. RequestsSound' /\ DrawnForUsdc' /\ DeployedDrawn'
    BY <1>16, <1>17 DEF IInv, RequestsSound, DrawnForUsdc, DeployedDrawn, chainVars
  <1>19. QED
    BY <1>6, <1>11, <1>13, <1>15, <1>18 DEF IInv

\* The writes of open and syncTransaction.
LEMMA AttachStep ==
    ASSUME IInv, NEW r \in Requests, OpenAttach(r) \/ SyncWrite(r)
    PROVE  IInv'
  <1>1. req[r].row \in Rows /\ req[r].contract \in Contracts
    BY Fields DEF IInv, OpenAttach, SyncWrite, At, BoundPc
  <1>2. CASE OpenAttach(r)
    <2>1. PICK s : s = [pc |-> "answer", row |-> req[r].row, contract |-> req[r].contract]
      OBVIOUS
    <2>2. /\ s \in Request /\ Suspend(r, s)
          /\ s.pc = "answer" /\ s.row = req[r].row /\ s.contract = req[r].contract
      BY <1>1, <1>2, <2>1 DEF OpenAttach, Request
    <2>3. QED
      BY <1>2, <2>2, StoreStep, SuspendType, SuspendOpener DEF IInv, OpenAttach, At
  <1>3. CASE /\ SyncWrite(r) /\ At(r, "write deploy")
             /\ Update(req[r].row, "initialized", req[r].contract)
    <2>1. Finish(r) /\ UNCHANGED <<chainVars, xdrVars>> /\ req[r].pc = "write deploy"
      BY <1>3 DEF SyncWrite, At
    <2>2. /\ req'[r] = Idle /\ \A q \in Requests \ {r} : req'[q] = req[q]
          /\ req' \in [Requests -> Request \cup {Idle}] /\ contested' \in SUBSET Rows
          /\ OneOpener' /\ contested' = contested
      BY <2>1, FinishType, FinishOpener DEF IInv
    <2>3. QED
      BY <1>3, <2>1, <2>2, StoreStep
  <1>4. CASE /\ SyncWrite(r) /\ At(r, "write fund") /\ Live(req[r].row)
             /\ rows' = [rows EXCEPT ![req[r].row].status = "funded"]
    <2>1. PICK x \in Row : /\ rows' = [rows EXCEPT ![req[r].row] = x]
                           /\ x.order = rows[req[r].row].order /\ x.status = "funded"
                           /\ x.contract = rows[req[r].row].contract
      BY <1>1, <1>4, UpdateStatus DEF IInv
    <2>2. req[r].row \notin contested => rows[req[r].row].contract \in funded
      BY <1>4 DEF IInv, RequestsSound, Sound, At
    <2>3. Finish(r) /\ UNCHANGED <<chainVars, xdrVars>>
      BY <1>4 DEF SyncWrite
    <2>4. /\ req' \in [Requests -> Request \cup {Idle}] /\ UNCHANGED contested
          /\ \A q \in Requests : req'[q] = req[q] \/ req'[q] = Idle
      BY <2>3, FinishType DEF IInv, Finish
    <2>5. QED
      BY <1>1, <1>4, <2>1, <2>2, <2>3, <2>4, ChangeStep
  <1>5. QED
    BY <1>2, <1>3, <1>4 DEF SyncWrite

------------------------------------------------------------------------------------

\* The initial states satisfy the inductive invariant.
LEMMA InitIInv == Init => IInv
  <1> SUFFICES ASSUME Init PROVE IInv
    OBVIOUS
  <1>2. \A i \in Rows : ~Live(i)
    BY DEF Init, Live
  <1>3. \A r \in Requests : req[r].pc = "idle"
    BY DEF Init, Idle
  <1>4. TypeOK
    BY <1>2 DEF Init, TypeOK
  <1>5. Ownership
    BY <1>2, <1>3 DEF Init, Ownership, OneRow, NamesDrawn, LooseAlone, Names, InHand, Bound,
                      Loose, LoosePc, BoundPc
  <1>6. RequestsSound /\ OneOpener
    BY <1>3 DEF RequestsSound, Sound, BoundPc, OneOpener, Opens
  <1>7. QED
    BY <1>2, <1>4, <1>5, <1>6 DEF Init, IInv, DrawnForUsdc, DeployedDrawn, RowsDeployed,
                                  PendingBare, XdrsKnown, NoStrandedFunds, FundedWitnessed

\* Every step keeps it.
LEMMA NextIInv == IInv /\ [Next]_vars => IInv'
  <1> SUFFICES ASSUME IInv, [Next]_vars PROVE IInv'
    OBVIOUS
  <1>2. ASSUME NEW r \in Requests, RequestStep(r) PROVE IInv'
    BY <1>2, OpenReadStep, CreateReadStep, FundReadStep, SyncReadStep, FailStep, AnswerStep,
       FindStep, OpenDeployStep, BuildStep, SendStep, OpenInsertStep, InsertStep, AttachStep
       DEF RequestStep
  <1>3. CASE \/ \E i \in Rows : \/ Remove(i) \/ ListenerFunded(i)
                                \/ \E o \in Orders : UpdateOrderId(i, o)
             \/ \E x \in Xdr : WalletDeploys(x) \/ WalletFunds(x)
             \/ Crash
    BY <1>3, TableStep, WalletStep, FailStep
  <1>4. CASE UNCHANGED vars
    BY <1>4, EndStep DEF vars, chainVars, xdrVars, IInv, TypeOK
  <1>5. QED
    BY <1>2, <1>3, <1>4 DEF Next

------------------------------------------------------------------------------------
(* What a step does to the contract of a row *)

\* The step that ContractKept asks for.
KeepsContracts ==
    \A i \in Rows \ contested' :
        Live(i) /\ Live(i)' /\ rows[i].contract # NoContract =>
           rows'[i].contract = rows[i].contract

\* Writes that store no contract replace none.
LEMMA LeftKeeps == ASSUME ContractsLeft PROVE KeepsContracts
  BY DEF ContractsLeft, KeepsContracts, Live

\* The writes that store a contract replace none, unless two requests for the row overlapped.
LEMMA StoreKeeps ==
    ASSUME IInv, NEW r \in Requests, req[r].pc \in {"attach", "write deploy"},
           Update(req[r].row, "initialized", req[r].contract), contested \subseteq contested'
    PROVE  KeepsContracts
  <1>1. req[r].row \in Rows /\ req[r].contract \in Contracts
    BY Fields DEF IInv, BoundPc
  <1>2. \A j \in Rows \ {req[r].row} : rows'[j] = rows[j]
    BY DEF Update, IInv, TypeOK
  <1>3. Live(req[r].row) /\ req[r].row \notin contested => rows[req[r].row].contract = NoContract
    BY DEF IInv, RequestsSound, Sound
  <1>4. QED
    BY <1>2, <1>3 DEF KeepsContracts

\* So do all steps of requests.
LEMMA RequestKeeps ==
    ASSUME IInv, NEW r \in Requests, RequestStep(r)
    PROVE  KeepsContracts
  <1>1. CASE UNCHANGED rows
    BY <1>1, RowsAlike, LeftKeeps
  <1>2. ASSUME NEW i \in Rows, OpenInsert(r, i) \/ InitializeInsert(r, i) \/ CreateInsert(r, i)
        PROVE  KeepsContracts
    <2>1. req[r].order \in Orders
      BY <1>2, Fields DEF IInv, OpenInsert, InitializeInsert, CreateInsert, At, LoosePc
    <2>2. QED
      BY <1>2, <2>1, InsertLeft, LeftKeeps DEF IInv, OpenInsert, InitializeInsert, CreateInsert
  <1>3. CASE OpenAttach(r)
    <2>1. contested \subseteq contested'
      BY <1>3 DEF OpenAttach, Suspend
    <2>2. QED
      BY <1>3, <2>1, StoreKeeps DEF OpenAttach, At
  <1>4. CASE SyncWrite(r) /\ At(r, "write deploy")
    <2>1. UNCHANGED contested /\ Update(req[r].row, "initialized", req[r].contract)
      BY <1>4 DEF SyncWrite, Finish, At
    <2>2. QED
      BY <1>4, <2>1, StoreKeeps DEF At
  <1>5. CASE SyncWrite(r) /\ At(r, "write fund")
    <2>1. req[r].row \in Rows
      BY <1>5, Fields DEF IInv, At, BoundPc
    <2>2. Live(req[r].row) /\ rows' = [rows EXCEPT ![req[r].row].status = "funded"]
      BY <1>5 DEF SyncWrite, At
    <2>3. QED
      BY <2>1, <2>2, UpdateStatus, ChangeLeft, LeftKeeps DEF IInv
  <1>6. QED
    BY <1>1, <1>2, <1>3, <1>4, <1>5
       DEF RequestStep, OpenRead, InitializeRead, CreateRead, OpenDeploy, InitializeBuild,
           FundRead, SyncRead, Answer, InitializeFind, InitializeAmend, SyncSendDeploy,
           SyncSendFund, SyncWrite, RequestFails

\* So does every step.
LEMMA NextKeeps == IInv /\ [Next]_vars => KeepsContracts
  <1> SUFFICES ASSUME IInv, [Next]_vars PROVE KeepsContracts
    OBVIOUS
  <1>1. CASE UNCHANGED rows
    BY <1>1, RowsAlike, LeftKeeps
  <1>2. ASSUME NEW r \in Requests, RequestStep(r) PROVE KeepsContracts
    BY <1>2, RequestKeeps
  <1>3. ASSUME NEW i \in Rows, Remove(i) PROVE KeepsContracts
    BY <1>3 DEF Remove, KeepsContracts, Live, IInv, TypeOK
  <1>4. ASSUME NEW i \in Rows, ListenerFunded(i) PROVE KeepsContracts
    BY <1>4, UpdateStatus, ChangeLeft, LeftKeeps DEF ListenerFunded, IInv
  <1>5. ASSUME NEW i \in Rows, NEW o \in Orders, UpdateOrderId(i, o) PROVE KeepsContracts
    BY <1>5, UpdateOrder, ChangeLeft, LeftKeeps DEF IInv
  <1>6. QED
    BY <1>1, <1>2, <1>3, <1>4, <1>5 DEF Next, vars, WalletDeploys, WalletFunds, Crash

------------------------------------------------------------------------------------

\* The inductive invariant holds in every reachable state.
THEOREM Invariance == Spec => []IInv
  BY InitIInv, NextIInv, PTL DEF Spec

\* Rows, transactions and requests hold values of their types, and orderId stays unique
\* although every insert decides on a read made before an await.
THEOREM TypeCorrect == Spec => []TypeOK
  <1>1. IInv => TypeOK
    BY DEF IInv
  <1>2. QED
    BY <1>1, Invariance, PTL

\* The contract a row names is on chain and no other row names it, however many open,
\* initialize and create calls overlap, fail or crash.
THEOREM ContractsAreReal == Spec => []ContractsReal
  <1>1. ASSUME IInv PROVE ContractsReal
    <2>1. ASSUME NEW i \in Rows, NEW j \in Rows, Live(i), Live(j),
                 rows[i].contract = rows[j].contract, rows[i].contract # NoContract
          PROVE  i = j
      <3>1. rows[i].contract \in Contracts
        BY <1>1, <2>1, LiveRow DEF IInv, Row
      <3>2. Names(i, rows[i].contract) /\ Names(j, rows[i].contract)
        BY <2>1 DEF Names
      <3>3. QED
        BY <1>1, <3>1, <3>2 DEF IInv, Ownership, OneRow
    <2>2. QED
      BY <1>1, <2>1 DEF IInv, RowsDeployed, ContractsReal
  <1>2. QED
    BY <1>1, Invariance, PTL

\* Every contract on chain is one for USDC, whatever assetCode the calls named.
THEOREM UsdcOnly == Spec => []OnlyUsdc
  <1>1. IInv => OnlyUsdc
    BY DEF IInv, TypeOK, DrawnForUsdc, DeployedDrawn, OnlyUsdc
  <1>2. QED
    BY <1>1, Invariance, PTL

\* Without an overlap of two opening requests for it, a row shows funded only if the contract it
\* names holds the funds: open, fund and syncTransaction never claim a deposit made elsewhere.
THEOREM FundsWitnessed == Spec => []FundedWitnessed
  <1>1. IInv => FundedWitnessed
    BY DEF IInv
  <1>2. QED
    BY <1>1, Invariance, PTL

\* Without such an overlap a fund transaction that open or fund handed out for a row funds the
\* contract the row names.
THEOREM FundsNotStranded == Spec => []NoStrandedFunds
  <1>1. IInv => NoStrandedFunds
    BY DEF IInv
  <1>2. QED
    BY <1>1, Invariance, PTL

\* Without such an overlap no step of open, initialize, syncTransaction or the legacy CRUD
\* gives a row that has a contract another one.
THEOREM ContractsKept == Spec => ContractKept
  <1>1. IInv /\ [Next]_vars =>
            [\A i \in Rows \ contested' :
                Live(i) /\ Live(i)' /\ rows[i].contract # NoContract =>
                   rows'[i].contract = rows[i].contract]_vars
    BY NextKeeps DEF KeepsContracts
  <1>2. QED
    BY <1>1, Invariance, PTL DEF Spec, ContractKept

=================================================================================
