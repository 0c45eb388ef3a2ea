----------------------------- MODULE StellarListener -----------------------------
(***************************************************************************)
(* StellarListenerService: the loop that polls the Soroban RPC for events  *)
(* of the escrow contracts and applies them to the escrow and order rows.  *)
(* Its memory (the ledger cursor and the set of processed event ids) is    *)
(* lost with the process; after a restart the cursor is taken from the     *)
(* ledgerSequence in the latest escrow audit row.                          *)
(*                                                                         *)
(* The rows have other writers.  OrderService.create inserts them, and     *)
(* EscrowService.syncTransaction reads a row, waits for the network and    *)
(* then updates the row whatever has become of it; so does processEvent,   *)
(* and polls and syncs interleave at each of these steps.  Rows are not    *)
(* deleted here, and TRUSTLESS_WORK_CONTRACT_ID is not configured.         *)
(* EventParser says what the listener takes an event for.                  *)
(***************************************************************************)
EXTENDS EventParser

CONSTANTS
    Orders,            \* orders, each with its contract
    ChainEvents,       \* orders, and the events their contracts emit beside ESCROW_CREATED
    Requests,          \* orders and actions that clients report through syncTransaction
    Limit,             \* pagination.limit of getEvents
    MaxLedger,         \* bound: ledgers the chain closes
    MaxFailures,       \* bound: event transactions that fail
    MaxCrashes         \* bound: crashes of the process

ASSUME ChainEventsAssumption == ChainEvents \subseteq Orders \X (EventType \ {"ESCROW_CREATED"})
ASSUME RequestsAssumption == Requests \subseteq Orders \X (SyncAction \ {"initialize"})
ASSUME BoundsAssumption == {Limit, MaxLedger, MaxFailures, MaxCrashes} \subseteq Nat

VARIABLES
    log,        \* the contract events of the chain, oldest first
    ledger,     \* the last closed ledger
    escrows,    \* escrows[o]: the escrow row's status, "none" when there is no row
    orders,     \* orders[o]: the order row's status, likewise
    saved,      \* ledgerSequence of the latest escrow audit row, 0 if it has none
    cursor,     \* lastProcessedLedger
    seen,       \* processedEventIds, as indices of log
    pc,         \* where the polling loop stands
    targets,    \* contracts the poll under way asks for
    batch,      \* events of the poll under way still to be processed, as indices of log
    answer,     \* latestLedger of the poll under way
    found,      \* the status processEvent read, while its transaction is to come
    syncs,      \* syncs[<<o, a>>]: where the request syncTransaction(o, a) stands
    excused,    \* history: orders with an event that failed, fell off a page, came before a
                \* poll knew the row, or whose status a late sync replaced
    failures, crashes

chainVars == <<log, ledger>>
dbVars == <<escrows, orders, saved>>
pollVars == <<targets, batch, answer, found>>
vars == <<log, ledger, escrows, orders, saved, cursor, seen, pc, targets, batch, answer,
          found, syncs, excused, failures, crashes>>

NoRow == "none"

\* A request has read the row and sends the transaction; has the answer SUCCESS; has
\* updated the row and is to write its audit row.
SyncStage == {"none", "sending", "answered", "stored"}

Event == [ledger: 1..MaxLedger, order: Orders, event: ChainEvent]

\* Every variable holds a value of its type; the cursor, the saved ledger and the ledger
\* of an answer are never ahead of the chain.
TypeOK ==
    /\ log \in Seq(Event)
    /\ ledger \in 0..MaxLedger
    /\ escrows \in [Orders -> EscrowRowStatus \cup {NoRow}]
    /\ orders \in [Orders -> OrderStatus \cup {NoRow}]
    /\ {saved, cursor, answer} \subseteq 0..ledger
    /\ seen \subseteq DOMAIN log
    /\ pc \in {"down", "idle", "query", "event", "commit"}
    /\ targets \subseteq Orders
    /\ batch \subseteq DOMAIN log
    /\ found \in EscrowRowStatus \cup {NoRow}
    /\ syncs \in [Requests -> SyncStage]
    /\ excused \subseteq Orders
    /\ failures \in 0..MaxFailures
    /\ crashes \in 0..MaxCrashes

---------------------------------------------------------------------------------
(* The chain (external) *)

Emitted(o) == {log[i].event : i \in {j \in DOMAIN log : log[j].order = o}}

Settled(o) ==
    Emitted(o) \cap {"ESCROW_RELEASED", "ESCROW_REFUNDED", "ESCROW_CANCELLED"} # {}

\* What a deployed contract may emit next.
MayEmit(o, e) ==
    /\ "ESCROW_CREATED" \in Emitted(o)
    /\ e \notin Emitted(o)
    /\ ~Settled(o)
    /\ e \in {"ESCROW_FUNDED", "ESCROW_CANCELLED"} => "ESCROW_FUNDED" \notin Emitted(o)
    /\ e \in {"ESCROW_RELEASED", "ESCROW_REFUNDED", "ESCROW_DISPUTED"} =>
          "ESCROW_FUNDED" \in Emitted(o)
    /\ e = "ESCROW_RELEASED" => "ESCROW_DISPUTED" \notin Emitted(o)

\* An event in the ledger about to close.
Report(o, e) == [ledger |-> ledger + 1, order |-> o, event |-> e]

\* A ledger closes with the given events, in this order.
Close(events) ==
    /\ ledger < MaxLedger
    /\ ledger' = ledger + 1
    /\ log' = log \o events

\* Ledgers with no event, one, or two of different contracts.
CloseLedger ==
    /\ \/ Close(<< >>)
       \/ \E c \in ChainEvents : MayEmit(c[1], c[2]) /\ Close(<<Report(c[1], c[2])>>)
       \/ \E c, d \in ChainEvents :
             /\ c[1] # d[1]
             /\ MayEmit(c[1], c[2]) /\ MayEmit(d[1], d[2])
             /\ Close(<<Report(c[1], c[2]), Report(d[1], d[2])>>)
    /\ UNCHANGED <<dbVars, cursor, seen, pc, pollVars, syncs, excused, failures, crashes>>

---------------------------------------------------------------------------------
(* The other writers of the rows *)

\* deployEscrowToChain of OrderService.create.
Deploy(o) ==
    /\ Emitted(o) = {}
    /\ Close(<<Report(o, "ESCROW_CREATED")>>)
    /\ UNCHANGED <<dbVars, cursor, seen, pc, pollVars, syncs, excused, failures, crashes>>

\* The transaction of OrderService.create.  The fund transaction is handed out after
\* it, so the contract has emitted nothing else yet.
CreateRows(o) ==
    /\ Emitted(o) = {"ESCROW_CREATED"}
    /\ escrows[o] = NoRow
    /\ escrows' = [escrows EXCEPT ![o] = "initialized"]
    /\ orders' = [orders EXCEPT ![o] = "created"]
    /\ excused' = IF pc \in {"idle", "down"} THEN excused ELSE excused \cup {o}
    /\ UNCHANGED <<chainVars, saved, cursor, seen, pc, pollVars, syncs, failures, crashes>>

\* syncTransaction reads the row and validates the transition.
SyncRead(o, a) ==
    /\ pc # "down"
    /\ syncs[<<o, a>>] = "none"
    /\ escrows[o] \in ValidTransitions[a]
    /\ syncs' = [syncs EXCEPT ![<<o, a>>] = "sending"]
    /\ UNCHANGED <<chainVars, dbVars, cursor, seen, pc, pollVars, excused, failures, crashes>>

\* What the transaction of an action makes the contract report, and when it can.
SyncEvent ==
    [a \in {"fund", "fiat_sent", "release"} |->
        CASE a = "fund"      -> "ESCROW_FUNDED"
          [] a = "fiat_sent" -> "MILESTONE_CHANGED"
          [] a = "release"   -> "ESCROW_RELEASED"]

MaySend(o, a) ==
    IF a = "fiat_sent" THEN "ESCROW_FUNDED" \in Emitted(o) /\ ~Settled(o)
                       ELSE MayEmit(o, SyncEvent[a])

\* tw.sendTransaction: the transaction enters a ledger; the request goes on if the answer
\* says SUCCESS, and ends with an error if the answer is lost.
SyncSend(o, a) ==
    /\ syncs[<<o, a>>] = "sending"
    /\ MaySend(o, a)
    /\ Close(<<Report(o, SyncEvent[a])>>)
    /\ \E stage \in {"answered", "none"} : syncs' = [syncs EXCEPT ![<<o, a>>] = stage]
    /\ UNCHANGED <<dbVars, cursor, seen, pc, pollVars, excused, failures, crashes>>

\* The request ends with an error: sendTransaction throws, or answers something else than
\* SUCCESS, and the chain has nothing; or repo.update throws.
SyncFails(o, a) ==
    /\ syncs[<<o, a>>] \in {"sending", "answered"}
    /\ syncs' = [syncs EXCEPT ![<<o, a>>] = "none"]
    /\ UNCHANGED <<chainVars, dbVars, cursor, seen, pc, pollVars, excused, failures, crashes>>

\* The statuses only an event of the contract, or the sync of a release, gives a row.
LateStatuses == {"disputed", "released", "resolved"}

\* repo.update, whatever the row holds by now.
SyncWrite(o, a) ==
    /\ syncs[<<o, a>>] = "answered"
    /\ escrows' = [escrows EXCEPT ![o] = SyncedStatus[a]]
    /\ syncs' = [syncs EXCEPT ![<<o, a>>] = IF a = "fiat_sent" THEN "none" ELSE "stored"]
    /\ excused' = IF escrows[o] \in LateStatuses \ {SyncedStatus[a]} THEN excused \cup {o}
                                                                ELSE excused
    /\ UNCHANGED <<chainVars, orders, saved, cursor, seen, pc, pollVars, failures, crashes>>

\* The audit rows of fund and release hold no ledgerSequence; auditLogService.create
\* swallows its errors.
SyncAudit(o, a) ==
    /\ syncs[<<o, a>>] = "stored"
    /\ saved' \in {saved, 0}
    /\ syncs' = [syncs EXCEPT ![<<o, a>>] = "none"]
    /\ UNCHANGED <<chainVars, escrows, orders, cursor, seen, pc, pollVars, excused, failures,
                   crashes>>

SyncTransaction(o, a) ==
    \/ SyncRead(o, a)
    \/ SyncSend(o, a)
    \/ SyncFails(o, a)
    \/ SyncWrite(o, a)
    \/ SyncAudit(o, a)

---------------------------------------------------------------------------------
(* The polling loop: fetchAndProcessNewEvents *)

\* getTargetContractIds; a database error leaves the poll without targets.
ReadTargets ==
    /\ pc = "idle"
    /\ \E ids \in {{o \in Orders : escrows[o] \notin {NoRow, "released", "resolved"}}, {}} :
          /\ targets' = ids
          /\ pc' = IF ids = {} THEN "idle" ELSE "query"
    /\ UNCHANGED <<chainVars, dbVars, cursor, seen, batch, answer, found, syncs, excused, failures,
                   crashes>>

\* An RPC answer that starts after the cursor's ledger.
MatchingAfterCursor ==
    {i \in DOMAIN log : log[i].ledger > cursor /\ log[i].order \in targets}

\* The events getEvents has for this request: from startLedger on.  A request without
\* startLedger (cursor 0) is served from the first ledger.
Matching ==
    {i \in DOMAIN log : log[i].ledger >= cursor /\ log[i].order \in targets}

\* The oldest of them, as many as pagination.limit allows.
Page == {i \in Matching : Cardinality({j \in Matching : j < i}) < Limit}

\* queryEventsFromRpc answers: one page and the latest ledger of the chain.
QueryAnswered ==
    /\ pc = "query"
    /\ batch' = Page
    /\ answer' = ledger
    /\ pc' = "event"
    /\ excused' = excused \cup {log[i].order : i \in Matching \ Page}
    /\ UNCHANGED <<chainVars, dbVars, cursor, seen, targets, found, syncs, failures, crashes>>

\* queryEventsFromRpc fails: no events and no latestLedger.
QueryFails ==
    /\ pc = "query"
    /\ pc' = "idle"
    /\ targets' = {}
    /\ UNCHANGED <<chainVars, dbVars, cursor, seen, batch, answer, found, syncs, excused, failures,
                   crashes>>

Later(a, b) == IF a > b THEN a ELSE b

\* The loop takes events oldest first.  The event it has come to, and what the parser
\* takes it for.
Position == Min(batch)
Current == log[Position]
Parsed == ParseEvent[Current.event]

\* The loop goes on to the next event; one that was recognised and did not throw moves
\* the cursor.
NextEvent(processed) ==
    /\ batch' = batch \ {Position}
    /\ cursor' = IF processed THEN Later(cursor, Current.ledger) ELSE cursor
    /\ pc' = "event"
    /\ found' = NoRow

\* findEscrowRecord: the escrow row with the event's contractId.  The engagementId an
\* event may carry names the order of the same row.
Found == escrows[Current.order] # NoRow

\* An event the parser makes nothing of is passed over; the cursor stays.
SkipEvent ==
    /\ pc = "event" /\ batch # {}
    /\ Parsed = Unrecognised
    /\ NextEvent(FALSE)
    /\ UNCHANGED <<chainVars, dbVars, seen, targets, answer, syncs, excused, failures, crashes>>

\* processEvent up to its transaction, for an event that is dropped: a duplicate, an
\* unknown contract, or a status the event can no longer change.
DropEvent ==
    /\ pc = "event" /\ batch # {}
    /\ Parsed # Unrecognised
    /\ LET duplicate == Position \in seen
           stale == escrows[Current.order] \in AlreadyProcessed[Parsed]
       IN
       /\ duplicate \/ ~Found \/ stale
       /\ seen' = IF ~duplicate /\ Found /\ stale THEN seen \cup {Position} ELSE seen
    /\ NextEvent(TRUE)
    /\ UNCHANGED <<chainVars, dbVars, targets, answer, syncs, excused, failures, crashes>>

\* An event that is neither duplicate nor stale.
Fresh ==
    /\ Parsed # Unrecognised
    /\ Position \notin seen
    /\ Found
    /\ escrows[Current.order] \notin AlreadyProcessed[Parsed]

\* validateStatusTransition throws.
RejectEvent ==
    /\ pc = "event" /\ batch # {}
    /\ Fresh
    /\ escrows[Current.order] \notin ValidTransitions[Parsed]
    /\ NextEvent(FALSE)
    /\ UNCHANGED <<chainVars, dbVars, seen, targets, answer, syncs, excused, failures, crashes>>

\* A processEvent that does not call validateStatusTransition.
AcceptUnvalidated ==
    /\ pc = "event" /\ batch # {}
    /\ Fresh
    /\ found' = escrows[Current.order]
    /\ pc' = "commit"
    /\ UNCHANGED <<chainVars, dbVars, cursor, seen, targets, batch, answer, syncs, excused,
                   failures, crashes>>

AcceptEvent ==
    /\ pc = "event" /\ batch # {}
    /\ Fresh
    /\ escrows[Current.order] \in ValidTransitions[Parsed]
    /\ found' = escrows[Current.order]
    /\ pc' = "commit"
    /\ UNCHANGED <<chainVars, dbVars, cursor, seen, targets, batch, answer, syncs, excused,
                   failures, crashes>>

\* The transaction: escrow row, order row and audit row together.
CommitEvent ==
    /\ pc = "commit"
    /\ escrows' = [escrows EXCEPT ![Current.order] = EscrowStatusOf[Parsed]]
    /\ orders' = [orders EXCEPT ![Current.order] = OrderStatusOf[Parsed]]
    /\ saved' = Current.ledger
    /\ seen' = seen \cup {Position}
    /\ NextEvent(TRUE)
    /\ UNCHANGED <<chainVars, targets, answer, syncs, excused, failures, crashes>>

\* The transaction fails; the loop logs the error and turns to the next event.
FailEvent ==
    /\ pc = "commit"
    /\ failures < MaxFailures
    /\ failures' = failures + 1
    /\ excused' = excused \cup {Current.order}
    /\ NextEvent(FALSE)
    /\ UNCHANGED <<chainVars, dbVars, seen, targets, answer, syncs, crashes>>

\* An end of the poll that moves the cursor past the latest ledger.
EndPollPastLatest ==
    /\ pc = "event" /\ batch = {}
    /\ cursor' = Later(cursor, answer + 1)
    /\ pc' = "idle"
    /\ targets' = {}
    /\ answer' = 0
    /\ UNCHANGED <<chainVars, dbVars, seen, batch, found, syncs, excused, failures, crashes>>

\* The end of the poll: the cursor moves to the latest ledger the RPC knew of.
EndPoll ==
    /\ pc = "event" /\ batch = {}
    /\ cursor' = Later(cursor, answer)
    /\ pc' = "idle"
    /\ targets' = {}
    /\ answer' = 0
    /\ UNCHANGED <<chainVars, dbVars, seen, batch, found, syncs, excused, failures, crashes>>

---------------------------------------------------------------------------------
(* Crash and onModuleInit *)

Crash ==
    /\ pc # "down"
    /\ crashes < MaxCrashes
    /\ crashes' = crashes + 1
    /\ pc' = "down"
    /\ cursor' = 0
    /\ seen' = {}
    /\ targets' = {} /\ batch' = {} /\ answer' = 0 /\ found' = NoRow
    /\ syncs' = [r \in Requests |-> "none"]
    /\ UNCHANGED <<chainVars, dbVars, excused, failures>>

\* loadLastProcessedLedger; if the audit row cannot be read the cursor stays 0.
Restart ==
    /\ pc = "down"
    /\ cursor' \in {saved, 0}
    /\ pc' = "idle"
    /\ UNCHANGED <<chainVars, dbVars, seen, pollVars, syncs, excused, failures, crashes>>

---------------------------------------------------------------------------------

Init ==
    /\ log = << >>
    /\ ledger = 0
    /\ escrows = [o \in Orders |-> NoRow]
    /\ orders = [o \in Orders |-> NoRow]
    /\ saved = 0
    /\ cursor = 0
    /\ seen = {}
    /\ pc = "down"
    /\ targets = {} /\ batch = {} /\ answer = 0 /\ found = NoRow
    /\ syncs = [r \in Requests |-> "none"]
    /\ excused = {}
    /\ failures = 0 /\ crashes = 0

Next ==
    \/ CloseLedger
    \/ \E o \in Orders :
          \/ Deploy(o)
          \/ CreateRows(o)
    \/ \E r \in Requests : SyncTransaction(r[1], r[2])
    \/ ReadTargets
    \/ QueryAnswered
    \/ QueryFails
    \/ SkipEvent
    \/ DropEvent
    \/ RejectEvent
    \/ AcceptEvent
    \/ CommitEvent
    \/ FailEvent
    \/ EndPoll
    \/ Crash
    \/ Restart

Spec == Init /\ [][Next]_vars

\* The timer of scheduleNextPoll always fires and a started poll always goes on; the
\* database answers the target query, and the RPC answers, infinitely often; a stopped
\* process is started again.
Fairness ==
    /\ WF_vars(ReadTargets /\ targets' # {})
    /\ SF_vars(QueryAnswered)
    /\ WF_vars(SkipEvent \/ DropEvent \/ RejectEvent \/ AcceptEvent)
    /\ WF_vars(CommitEvent)
    /\ WF_vars(EndPoll)
    /\ WF_vars(Restart)

FairSpec == Spec /\ Fairness

---------------------------------------------------------------------------------
(* Properties *)

\* How far an escrow status is in the life of an escrow.
Progress ==
    [s \in EscrowRowStatus |->
        CASE s = "pending"     -> 0
          [] s = "initialized" -> 1
          [] s = "funded"      -> 2
          [] s = "fiat_sent"   -> 3
          [] s = "disputed"    -> 4
          [] s \in {"released", "resolved"} -> 5]

\* A row with status s accounts for the event e.
Accounts(s, e) ==
    CASE e = "ESCROW_CREATED"  -> s # "pending"
      [] e = "ESCROW_FUNDED"   -> s \notin {"pending", "initialized"}
      [] e = "ESCROW_DISPUTED" -> s \in {"disputed", "resolved"}
      [] e = "ESCROW_RELEASED" -> s = "released"
      [] e \in {"ESCROW_REFUNDED", "ESCROW_CANCELLED"} -> s = "resolved"
      [] e = "MILESTONE_CHANGED" -> TRUE

Reflects(o, e) == Accounts(escrows[o], e)

\* The events of the chain that the transaction of processEvent takes back: the row no
\* longer accounts for them.
TakenBack ==
    {i \in DOMAIN log :
        LET o == log[i].order IN Reflects(o, log[i].event) /\ ~Reflects(o, log[i].event)'}

\* The loop is still to come to the i-th event, in this poll or a later one, and will not
\* take it for a duplicate.
Ahead(i) == (i \in batch \/ log[i].ledger > answer) /\ i \notin seen

\* An event the listener applies moves the escrow forward, although a restart forgets
\* which events were processed and replays them: processEvent is idempotent.  Its
\* transaction puts the row back only if a sync has stored a status since processEvent
\* read the row, and what it then takes back are events it is still to come to.
EventsOnlyAdvance ==
    [][\A o \in Orders : CommitEvent /\ escrows'[o] # escrows[o] =>
          \/ Progress[escrows'[o]] > Progress[escrows[o]]
          \/ escrows[o] # found /\ \A i \in TakenBack : Ahead(i)']_vars

\* An event the listener applies always moves the escrow forward.
EventsAlwaysAdvance ==
    [][\A o \in Orders : CommitEvent /\ escrows'[o] # escrows[o] =>
          Progress[escrows'[o]] > Progress[escrows[o]]]_vars

\* The cursor never passes an event that the rows do not account for, in the middle of a
\* poll, between polls or right after a restart, unless fetchAndProcessNewEvents failed at
\* an event of that order, read a page that was full, or had read its targets before the
\* row was there, or a syncTransaction that had waited for the network replaced a status
\* the listener had stored meanwhile.
NothingSkipped ==
    \A i \in DOMAIN log :
        log[i].ledger < cursor /\ escrows[log[i].order] # NoRow =>
            Reflects(log[i].order, log[i].event) \/ log[i].order \in excused

\* The row accounts for everything the contract has reported so far.
Synced(o) == \A e \in Emitted(o) : Reflects(o, e)

\* With the same four exceptions the row of every known escrow catches up with its
\* contract again and again, across crashes, RPC errors, replayed events, events the
\* parser does not recognise and client syncs.
EventuallySynced ==
    \A o \in Orders : escrows[o] # NoRow ~> Synced(o) \/ o \in excused

\* "keep backend database records synchronized with on-chain Stellar/Soroban escrow
\* events", without exceptions.
AlwaysSynced ==
    \A o \in Orders : escrows[o] # NoRow ~> Synced(o)

=================================================================================
