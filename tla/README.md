# iKash backend: TLA+ specification

iKash is a NestJS backend for peer-to-peer trades of digital dollars against local
currency. A seller's funds sit in a Trustless Work escrow contract on Stellar; the
backend keeps orders and escrows in PostgreSQL (Prisma), builds transactions for
wallets, follows the chain, and runs authentication, identity verification, chat and
payment methods beside it. This directory models the parts that keep state, checks them
with TLC on small instances and proves the most important results with TLAPS for
instances of any size. Paths below are relative to the repository.

Run from this directory:

    tlc -workers 2 -config EscrowTrade.cfg MCEscrowTrade
    tlapm EscrowTradeProofs.tla

## 1. Inventory

The process is one Node.js event loop over one database. Handlers are interleaved at
every `await`; almost no handler opens a transaction, and only the login's consumption
of a challenge writes conditionally. That, and the fact that the chain moves on its own,
is where the difficulty lies.

| Component (code) | State | Operations that change it | Talks to |
|---|---|---|---|
| Order service (`src/modules/order`) | `order` rows, `expiresAt` | create, update, remove, cancel, expireOrders (cron) | Trustless Work (deploy), balance query, escrow rows |
| Escrow service (`src/modules/escrow`) | `escrowonchain` rows, contract ids | open, initialize, fund, markFiatSent, release, syncTransaction, uploadEvidence, legacy create/update/remove | Trustless Work API, wallets (unsigned XDRs), audit log |
| Stellar listener (`src/modules/stellar/stellar-listener.service.ts`) | cursor, set of processed ids (memory), escrow and order rows | poll, processEvent, restart | Soroban RPC, audit rows as its saved cursor |
| Event parser (`stellar-event-parser.service.ts`) | none | none | listener |
| Wallet authentication (`src/modules/auth`) | `auth_challenge` rows, users | createChallenge, login, purge (cron) | JWT library, audit log |
| Authentication rate limit (`auth-rate-limit.guard.ts`) | windows per caller (memory) | canActivate, pruneExpired | clock |
| KYC (`src/modules/kyc`) | `kycStatus`, audit rows | processWebhookEvent | Didit, audit log |
| Users (`src/modules/users`) | profile, waitlist | sign-up, set-up, update, picture, early registration, erasure | payment methods, messages, audit log, storage |
| Payment methods (`src/modules/payment-methods`) | `paymentmethod` rows | create, update, remove | validator, providers |
| Chat (`src/modules/chat-message`) | messages, rooms and presence (memory) | connect, join, leave, send, disconnect, REST create/remove | orders (access check) |
| Offers (`src/modules/offer`) | offers | CRUD | orders |
| Send (`src/modules/send`) and Stellar payments (`stellar.service.ts`) | none of their own; sequence numbers and ledgers are the network's | resolve, prepare, submit, pay | Horizon, users (aliases) |
| Storage, statistics, health, guards | none of their own | none | buckets |

Hard behaviours, in the order in which they matter (every one, with its line and the
property that watches it, is under `hazards` in `PROJECT.json`):

* a row read before an await and overwritten after it without a condition: cancel, the
  expiration cron, open, syncTransaction, processEvent, the KYC webhook, payment-method
  updates;
* chain and database updated in separate steps, with crashes, lost answers and failed
  writes between them;
* events delivered in pages, twice, after a restart, or while the row they belong to is
  being created;
* single use and expiry of challenges under concurrent logins, re-issue and purge;
* erasure of an account while requests of the same user are under way;
* a payment whose answer never comes, while its sequence number, its time bound and a
  second try decide whether it is made once, twice or not at all;
* rooms checked on entry only, while orders change hands and connections drop;
* decisions by text: event types found by keywords that contain each other, an asset code
  that two functions read differently when it is left out;
* arithmetic at edges: amounts turned from text to stroops and back, checksums computed in
  slices, prefixes that are also the beginning of a number, windows that meet.

What makes each component correct:

* trade: the database never claims what did not happen on chain; no release before the
  buyer marked the fiat payment as sent; money goes only into trades that were recorded,
  and comes out once; expiration and cancellation respect the state of the escrow;
* opening: one contract per escrow row, real, for USDC and not shared; the seller funds
  the contract the row names;
* listener: nothing skipped, nothing applied twice or backwards, everything eventually
  reflected;
* authentication: a challenge gives at most one token, before its expiry, and nobody
  else can take it away;
* KYC: no decision lost without a trace, no false success in the audit trail;
* accounts: unique keys and aliases, valid payment methods, a clean erasure;
* chat: only parties and support see messages, what is seen is stored, presence is right;
* transfers: a payment is made at most once, and is the one the client was shown;
* rate limit: a bound on attempts in any stretch of time.

## 2. Plan

Order of work, the most important behaviour first. Done in this version:

1. `EscrowStatus` (tables), `EscrowTrade` (orders, escrows, chain, cron, listener
   together), proofs;
2. `AuthChallenge`, proofs;
3. `StellarListener` (delivery of events, liveness), reusing `EscrowStatus`;
4. `EscrowOpening` (how a contract comes into being);
5. `KycWebhook`, `UserAccount`, `ChatRooms`, `PaymentMethodValidator`, `AuthRateLimit`;
6. `EscrowPromise`, the abstract specification of a trade, which `EscrowTrade` is shown to
   implement, by TLC and by proof;
7. `EventParser` below `StellarListener` and `EscrowAssets` below `EscrowOpening`;
8. `SendPayment` over `TransferAmounts`;
9. proofs of every safety property of every module.

Left, in this order:

* the executed flag of offers as part of `CreatePersist`;
* the envelope bytes of `signAndBroadcast` as a pure module, if it ever signs an envelope
  that already has signatures.

`PROJECT.json` maps every definition that models code to its lines.

## 3. Modules

Conventions. A module has one record per in-flight request (`req[r]`), whose `pc` names
the await the handler is suspended in and whose other fields are exactly what the handler
still remembers. `Idle` is no request. An early return or a rejected check that changes
nothing is a disabled action when it happens at the first step (the request might as well
not have come) and the `RequestFails` action later. `Crash` ends every in-flight request
and keeps the database and the chain. Definitions named like an action with a suffix
(`SyncSendIgnoresResult`) are deliberately wrong variants, used to confirm that a property
notices the mistake; no specification uses them.

### EscrowStatus
The enumerations of `schema.prisma` and the four tables shared by escrow service and
listener: `ValidTransitions` (`validateStatusTransition`), `SyncedStatus`,
`AlreadyProcessed`, `EscrowStatusOf`/`OrderStatusOf` (`mapEventToStatuses`).

### EscrowTrade
Orders made by `OrderService.create`. `orders` and `escrows` are the rows, `due` whether
`expiresAt` has passed, `chain[o]` the facts of the contract, `xdrs[o]` the unsigned
transactions clients hold, `jobs` the decisions of cron runs that are not written yet,
`listener` the event whose transaction is about to run. Such an order has one contract
from the start, so both share the index. `create` deploys first and then writes both rows
in one transaction. `ProcessExpiredOrder` writes what was decided on the snapshot of
`ExpireOrdersRead`. The contract (`Accepts`) is external: it is modelled from what the
code relies on. Wallets may broadcast without the API and the dispute resolver acts
outside the backend. Any emitted event may reach `processEvent` at any time and repeatedly;
which ones do is the subject of `StellarListener`. Assumed: a client that reports an
action submits the transaction the service built for it. Addresses, amounts and evidence
files are left out.

### EscrowPromise
The trade without handlers, transactions, cron or listener: whether an order was offered,
where the seller's money is, whether the fiat payment was confirmed, and what the platform
claims. A claim may lag behind or fall silent, but is made only when what it says has
happened. `EscrowTrade` ends with the mapping: an order is offered when a fund transaction
was handed out, money is where the contract's facts put it, and the claim is the status of
the escrow row. That create hands the fund transaction out only after its database
transaction is what makes `Deposit` map to a step: a contract whose rows were not stored
gets no money (`CreateDeployAnswersEarly` is the variant that breaks it).

### EscrowAssets
The three places that look at the asset code: `validateAssetCode`, `resolveTrustline`, and
the check in `TrustlessWorkService.initializeEscrow`. An omitted code is USDC to the first
and XLM to the second, so the third refuses it, although the comments of
`src/modules/escrow/dto/open-escrow.dto.ts:32` and `initialize-escrow.dto.ts:43` say
"Defaults to USDC if omitted". No contract for another asset comes of it (`OnlyUsdc`).

### EscrowOpening
Orders without an escrow: `open` (read, deploy, insert, store the contract, answer),
`initialize` (read, build, read again, insert or amend) with its sync, the legacy
`create`/`update`/`remove`, up to funding. `orderId` is unique (the schema). The listener
and wallets are single steps. A deploy transaction is drawn for the trustline of the
request's asset code. The history variable `contested` collects the rows for which two
requests that will store a contract in that row were in flight at once; properties that
such an overlap breaks except these rows and no others. Deleted rows are outside them too:
`remove` may delete a row while its fund transaction is in the seller's hands.

### StellarListener
The polling loop step by step: `ReadTargets`, `QueryAnswered`/`QueryFails`, for every
event `SkipEvent` (the parser makes nothing of it), `DropEvent`, `RejectEvent` or
`AcceptEvent` followed by `CommitEvent` or `FailEvent`, `EndPoll`; `Crash` and `Restart`
(`onModuleInit`, whose cursor is the `ledgerSequence` of the latest escrow audit row,
which client syncs overwrite with nothing). `EscrowService.syncTransaction` has its steps
as in `EscrowTrade`: `SyncRead`, `SyncSend` or `SyncFails`, `SyncWrite`, which updates the
row whatever it holds by then, and `SyncAudit`; `found` is what `processEvent` read of the
row before its transaction, which updates it as unconditionally. `OrderService.create` is
taken as a whole, rows are not deleted, no `TRUSTLESS_WORK_CONTRACT_ID` is configured, and an RPC request without `startLedger` is
taken to be served from the first ledger (external). `log` is what the chain has reported,
in order; a poll's answer is the set of places in it that it covers (`Page`), which the
loop takes in turn. The history variable `excused` collects the orders one of whose events
met one of the four ways of getting lost: its transaction failed, it did not fit on the
page, its row was created during a poll, or a sync that had waited for the network replaced
a status the listener had stored meanwhile. The reverse, a transaction of the listener that
replaces what a sync stored since `processEvent` read the row, loses nothing for good: the
events it takes back are still ahead of the loop, which is what `EventsOnlyAdvance` says.

### EventParser
`parseEvent` and `resolveEventType`: type and topics are joined to one text, and the first
keyword of a fixed list that occurs in it decides. A text is the set of its words;
`Substrings` adds the words inside others, so that a refund also reads as a fund and the
order of the list matters. Topics are taken to arrive readable, as in the parser's tests
(external: `WordsOf`). A change of a milestone's status is an event the parser does not
know.

### SendPayment and TransferAmounts
Wishes are payments somebody wants made once: through `prepare` and `submit`, where the
client signs, or through `POST /stellar/pay`, where the backend does. `prepare` looks the
recipient up and loads the sequence number in separate steps, and users may give an alias
up or take it between them. The network is external and known only by what the code relies
on: a transaction executes at most once, in sequence, before its deadline; a pending one
may be placed later or forgotten; Horizon recognises a transaction it has seen.
`DescribeHorizonError` is what the client learns. Assumed of clients: one wish at a time,
and a new `prepare` only after an answer in `Retried`, which in the run are the definite
failures; they may submit what they signed as often as they like. When an answer is lost,
what was sent has reached Horizon by then or never will. A payment signed by the
backend is not repeated by its caller. `TransferAmounts` has the texts (an integer part
and up to seven digits), stroops and the fee; whatever the pattern refuses is one text with
too many digits. Whether the recipient has a trustline is the network's business, memo and
asset of `pay` are left out.

### AuthChallenge
`createChallenge` (delete expired rows, upsert), `login` (read, verify, conditional
`updateMany`, issue), the purge, and a clock. Dates in queries are computed before the
database runs them, and every `new Date()` is one of its own: a login carries the instant
of its check, the condition of `updateMany` compares a later one, and `usedAt` is stamped
with one later still. `RedeemedInTime` is about the date the condition compared, measured
against when the challenge was drawn and seen from the token: whatever was replaced, purged
or delayed in between, no token is issued on a comparison made a lifetime after that. The
stamp, and the instant at which the database runs the update, may come later. `randomBytes`
never repeats.
A signature is right or the request fails.

### AuthRateLimit
`canActivate` has no await and is one step. The clock does not go back; `reset` has no
caller; a restart forgets windows and the history. The names (`clock`, `Callers`,
`GuardSpec`) differ from those of `AuthChallenge`, so that `AuthProofs` can extend both.
`admitted[k]` is the history: when the
attempts that went through did so. `SlidingBound` compares attempts that many others lie
between, which says the same as counting those in a stretch of time.

### KycWebhook
The webhook from its arrival to its answer: read, update, audit, each of which may fail,
with Didit repeating what was not answered with 200 and possibly more. Webhooks with a bad
signature, or a timestamp more than five minutes off, change nothing and are left out; so a
repetition counts here only if Didit stamps it anew, which the fairness below assumes. Users are never deleted from the table, but a
webhook may name one that does not exist.

### UserAccount
Profiles, payment methods, messages and picture (`kept`), audit rows with an address,
waitlist. `remove` is one transaction; a login is one step; other profile columns behave
like `email`. `Accepted` is the relation `PaymentMethodValidator` computes. Requests are
about an account, and who makes them is not recorded: `POST /users/:id/setup` does not
compare the account with the caller, `POST /payment-methods` and `POST /chat-messages` take
the user from the body and ask for no login
(`payment-methods.controller.ts:25-28`, `chat-message.controller.ts:23-26`). So what an
erasure promises can be undone by anybody, and the property is about which requests do it:
the history variable `back` holds the accounts about which a request to set up, update, or
add a payment method, a message or a picture was under way at the erasure, or began since.
`ErasedClean` says that nothing is left of any other erased account and that nothing else
brings anything back: no login or sign-up with its key, no update of a payment method that
had been read before the erasure, no request about somebody else.

### PaymentMethodValidator
Every rule and the look-up by type, country and code, as operators; one call of
`validate` is the only action. Characters are numbers (digits, letters with their IBAN
values, separators). `Documented` is what the comments of the phone rules describe, on the
string as it was typed: spaces, dashes and parentheses anywhere, a plus sign where a form
has one, and nothing else. `stripNonDigits` removes every other character as well, so the
code accepts more (`OnlyDocumentedPhonesAccepted`, section 4), and `PhonesAsDocumented` says
what does hold: what is described is accepted, but for Brazilian area code 55, and what a
mobile rule accepts has the digits of a described form. Names that differ in case or blanks only are one value. Loops over
characters (`Number`, `Mod97`, `Numeric`, `WeightedSum`) are recursive functions on the
number of steps taken, and `Keep`, what a `replace` that removes characters leaves, is
defined by positions: both forms can be proved about. Its specification is `ValidateSpec`.

### ChatRooms
Connections, rooms, `joinOrder` and `sendMessage` around their queries, REST operations,
orders that change hands or go. `seen` is what clients received, `told` whom they take to
be present. With the in-memory adapter join/leave and the emit that follows are one step;
a join after a disconnect joins nothing but is announced all the same. A connection slot
is reused only when no call of it waits. Invalid order ids and empty messages change
nothing. Histories: `been` (who has been a party), `late` (connections that ended while a
join waited).

## 4. Runs

All passing runs explore the whole state space of their instance. Deadlock is checked
everywhere except for the validator, whose single call ends, and the transfers, which may
all have been made.

| Run | Instance | Distinct states | What it shows |
|---|---|---|---|
| `escrow_trade` | 1 order, 2 requests, 1 cron run, clients may write `cancelled` | 185 k | `EscrowWitnessed`, `OrderWitnessed`: rows never run ahead of the chain. `ReleaseNeedsFiatSent`: funds leave towards the buyer only after the milestone was marked. `KeepsPromise`: the trade implements `EscrowPromise`. |
| `escrow_expiration_race` | the same | violated | `FiatSentBlocksExpiration` fails: see below. |
| `listener` | 2 orders; funded events, a disputed and a refunded one, and syncs of `fund` and `fiat_sent` for one of the orders; pages of 3, 4 ledgers, 1 failure, 1 crash | 605 k | `NothingSkipped`, `EventsOnlyAdvance`, `EventuallySynced`. |
| `auth_challenge` | 2 wallets, 3 challenges, 3 requests, lifetime 2, retention 1, 4 instants | 938 k | `SingleUse`, `RedeemedInTime`, `ValidChallengeKept`. |
| `opening` | 2 orders, 2 rows, 3 contracts, 2 requests, 7 ways to write an asset code | 897 k | `ContractsReal` and `OnlyUsdc` always; `FundedWitnessed`, `NoStrandedFunds`, `ContractKept` but for rows for which two openings overlapped. |
| `opening_race` | 1 order, 1 row, 2 contracts, 2 requests | violated | `OneContractPerRow` fails: see below. |
| `kyc_webhook` | 1 user, 2 webhooks, 2 requests, 2 failures, 1 crash | 78 k | `AckedAudited`, `SuccessApplied`, `DecisionSettled`. |
| `user_account` | 2 users, 2 keys, 1 alias, 1 e-mail address, 2 providers, 2 identifiers, 1 method, messages, 2 requests | 1 268 k | Unique keys and aliases (in `TypeOK`), `MethodsMatch`, `ErasedClean`. |
| `chat_rooms` | 2 connections, 3 users, 1 order, 1 message, 2 waiting calls | 259 k | `SeenByParties`, `SeenWasStored`, `MutualPresence`, `NoGhosts`. |
| `payment_validator` | some 24 000 calls | 47 k | Phone forms, IBAN typing errors, CPF digits, the look-up. |
| `auth_rate_limit` | 2 callers, window 2, limit 2, 6 instants, counts to 4 | 77 k | `SlidingBound`. |
| `send_payment` | 3 accounts, 1 alias, a transfer and a payment of one account, 3 instants, 2 sequence numbers | 676 k | `PaidOnce`, `ShownIsPaid`. |

Why the bounds are enough. Orders, wallets and users do not interact except through
shared tables, so one or two of each meet every conflict the code can have; two requests
give every pair of handlers, and where three matter (a create, an upsert and a login on
one challenge) there are three. The clocks run past one lifetime plus the retention, and
past two windows. The listener's page of three is shorter than the up to seven events the
two orders can have, so pages are full in some behaviours and not in others. Failures and
crashes are bounded only where liveness or the state space needs it; one or two of them
already separate every pair of steps. `MaxCount` is two above the limit: a larger count
behaves the same. Two wishes of one account compete for a sequence number; three instants
let a transaction expire, another be prepared and the first answer arrive after it; the
amount is chosen so that it and its fee have zeros behind the point.

Two properties the documentation states are violated by the code:

* `FiatSentBlocksExpiration`. The comment of `processExpiredOrder`
  (`src/modules/order/order.service.ts:362-363`) says that automatic expiration is blocked
  once the buyer marked the payment as sent. The cron decides on the rows `findMany`
  returned; while it awaits the balance query a sync stores `fiat_sent`, and the order is
  cancelled or expired nevertheless (`:440`).
* `OneContractPerRow`. `open` refuses an order that has a contract
  (`src/modules/escrow/escrow.service.ts:251`), but two overlapping calls both pass the
  check and the second replaces the contract of the first (`:269`), whose fund
  transaction the seller may already hold.

### Further configurations

These are not part of the regular runs. Each states something without the exceptions the
properties above make, and TLC answers with a short counterexample:

| Configuration | Property | Counterexample, and what it is measured against |
|---|---|---|
| `EscrowTradeCancelRace` | `CancelOnlyBeforeFunding` | cancel reads `initialized`, a sync stores `funded`, cancel writes. `src/modules/order/order.service.ts:228`: "cancellation is only allowed while the escrow is still pending or initialized". |
| `EscrowTradeLostUpdate` | `EscrowFollowsTransitions` | a sync of `fund` awaits its answer while the listener applies funded and a dispute or refund, then writes `funded` over it. `.cursor/rules/data/03-database-concurrency.mdc:22` asks for a guard against exactly this. |
| `StellarListenerFailedEvent` | `AlwaysSynced` | the transaction of an event fails once; the end of the poll moves the cursor past it. `scratch/pr_body_38.md:2,5`: "keep backend database records synchronized", "fault-tolerant event processing". |
| `StellarListenerShortPage` | `AlwaysSynced` | the page is full; the cursor moves to the latest ledger all the same. |
| `StellarListenerLateRow` | `AlwaysSynced` | an order is created and funded between the target query and the RPC's answer. |
| `StellarListenerLateSync` | `AlwaysSynced` | a dispute is applied while the sync of `fund` waits for its answer; the sync then writes `funded` over `disputed`, and no event brings that back. |
| `StellarListenerLateCommit` | `EventsAlwaysAdvance` | the listener accepts the funded event on `initialized`, syncs store `funded` and `fiat_sent`, and its transaction writes `funded` over that (`src/modules/escrow/stellar-listener.service.ts:306`). The same rule asks for a guard. |
| `KycWebhookLostDecision` | `DecisionApplied` | the update fails, its failure is audited, the webhook is answered with 200 and never comes again. `docs/architecture.md:192-193` draws the status update after the webhook. |
| `KycWebhookStaleAudit` | `AuditShowsTransition` | two webhooks read the same previous status. `src/modules/kyc/kyc.service.ts:262-263`: "so the audit record shows the actual transition". |
| `KycWebhookNoRollback` | `FailureRolledBack` | the audit of a success fails; the stored status stays and a failure is recorded. `src/modules/audit-log/audit-log.service.ts:63-64`: "expected to abort/roll back". |
| `UserAccountAddresses` | `AddressesErased` | a login is audited with address and public key but without `userId` (`src/modules/auth/auth.service.ts:168-176`), so erasure by `userId` misses it. `src/modules/users/users.service.ts:275-276`: "audit log entries lose their IP/user-agent". |
| `SendPaymentRetry` | `PaidOnce` | Horizon times out on a transaction it passed on, the client is told "could not be submitted" and prepares again after the first transaction has executed, with the next sequence number. Whether a client may do so the repository does not say; the message (`src/lib/utils/stellar-error.util.ts:15-16`) reads as if it might. |
| `PaymentMethodValidatorPhones` | `AllDocumentedPhonesAccepted` | a national number of area code 55 loses its first two digits and is refused. `src/modules/payment-methods/payment-method-validator.service.ts:212-213` documents the national form. |
| the same (`-continue`) | `OnlyDocumentedPhonesAccepted` | a number with a letter, a dot or a second plus sign among its digits is accepted: `stripNonDigits` (`:49-51`) removes whatever is no digit. The comments (`:55-56`, `:67`) name spaces, dashes and parentheses. |

### Fairness

Only two runs use it.

* `StellarListener`: the timer of `scheduleNextPoll` is set again at the end of every
  poll, whatever happened, so a poll is always started (weak fairness of reading
  non-empty targets, which also says the database does not fail for ever); the RPC
  answers infinitely often (strong fairness, since failures alternate with attempts);
  event steps are taken by the running loop; the process is restarted by its host.
  Nothing is assumed of the chain, of clients or of failures.
* `KycWebhook`: a delivery under way goes on (weak), and Didit repeats a webhook until it
  is answered with 200 (strong: deliveries may die with the process).

## 5. Proofs

Proved with TLAPS for every value of the constants, from the named assumptions of the
modules only, which TLC evaluates in the runs. They say that sets of statuses, events and
messages are subsets of those of the code (`ClientStatusesAssumption`,
`ChainEventsAssumption`, `ClientSyncsAssumption`, `RetriedAssumption`), that durations,
limits and bounds are numbers (`LifetimeAssumption`, `RetentionAssumption`,
`MaxTimeAssumption`, `WindowAssumption`, `AttemptsAssumption`, `FeeAssumption`, the
`BoundsAssumption`s), that a marker is not a value (`ContractsAssumption`,
`AliasesAssumption`), that functions have the domains they are given for
(`AcceptedAssumption`, `UserOfAssumption`, `AccountsAssumption`, `WishAssumption`,
`PayAssumption`), and that identifiers are sequences of characters (`CallsAssumption`).
Each proof about a state machine follows the same plan: an inductive invariant,
`Init => IInv`, one step per action for `IInv /\ [Next]_vars => IInv'`, and the listed
theorems as consequences. TLC checked the invariants before they were proved.

* `EscrowTradeProofs`: `TypeCorrect`, `EscrowNeverAhead`, `OrderNeverAhead`,
  `NoReleaseWithoutFiat`. A row is written by a handler that saw the chain earlier, so the
  invariant must also say what a suspended handler already knows (`RequestsWitnessed`,
  `ListenerWitnessed`) and in which order a contract collects its facts (`ChainOrdered`).
  It works because facts are never taken back.
  `PromiseKept` is `Spec => KeepsPromise`: initial states map to initial states and every
  step to a step of `EscrowPromise` or to none. The invariant `PInv` adds to the one above
  that a contract ends in one way only (`EndsOnce`), that rows and funds come after the fund
  transaction was handed out (`RowsOffered`), that whoever else works on an order does so
  after that too (`HandlersOffered`), and that the create which has deployed a contract is
  alone in storing its rows (`OfferPending`). Without the last, a second create could make
  an offer that has already been made.
* `StellarListenerProofs`: `TypeCorrect`, `NothingSkippedHolds`, and the action property
  `AdvanceHolds`. The end of a poll moves the cursor past every event of the answer, also
  those `processEvent` dropped or rejected, so the proof has to say why nothing is lost with
  them: a row that refuses an event is already past it or has missed an earlier one
  (`NotAppliedAccounted`), and a row that is no longer asked for accounts for everything its
  contract reported (`EndedAccounted`). This rests on the order in which a contract reports
  (`LogOrdered`, `ReportsExclude`) and on rows not being ahead of it (`RowsReported`).
  `PassedAccounted` carries the result over restarts, `TargetsComplete` and `BatchComplete`
  over a poll under way. The transaction writes the row unconditionally, so `CommitChecked`
  says why nothing the loop has been past is lost by it: the status it will write accounts
  for all of that, although it may take back what a sync has stored since the check. A sync
  that waits for the network knows that what it sent has been reported (`SyncsReported`),
  and when its write takes back what the listener stored the order is in `excused`.
  `AdvanceHolds` needs a second invariant, `Between`, about the time between check and
  transaction: only syncs write the row then (`RowWithin`), and one that stores a release
  which the check did not allow for was reported after the poll's answer (`ReleaseLater`),
  so what the transaction takes back is still to come (`TakenBackAhead`). `ParsedRight` shows that
  the order of the keyword list tells all known events apart.
* `EscrowOpeningProofs`: `TypeCorrect`, `ContractsAreReal`, `UsdcOnly`, `FundsWitnessed`,
  `FundsNotStranded`, and the action property `ContractsKept`. No handler holds a lock; the
  invariant says who may still store which contract where. A contract is drawn by one
  request, which has it for itself until it has a row (`LooseAlone`); from then on every
  row, transaction and request that holds it holds it for that row (`OneRow`). While no
  openings for a row have overlapped it has one opener (`OneOpener`), which finds it as it
  read it (`RequestsSound`).
* `KycWebhookProofs`: `TypeCorrect`, `AckedAuditedHolds`, `SuccessAppliedHolds`, for any
  number of overlapping and repeated deliveries, failures and crashes. Needed: a delivery
  under way is that of a webhook sent about a user (`InFlightNamed`), and one that is about
  to record a success has stored the status (`SuccessStored`).
* `SendPaymentProofs`: `NeverPaidTwice`, that is `Spec => []PaidOnce` under `ClientsWait`
  (clients do not prepare again after "could not be submitted"). A client that prepares
  again must have been told something that rules the earlier transaction out, so the
  invariant says of every pending transaction that it is dead (late, or its sequence number
  is used up) or the one its client still waits for (`Alive`), and of every executed one
  that it is the latter or reported as paid (`Settled`). `TypeCorrect` and
  `ShownIsPaidHolds` follow from a second invariant, `SInv`: what prepare checked of the
  recipient and the amount holds while it waits for the sequence number (`ResolvedSound`).
  Below them, `ToStroopsRight` and `RoundTrip` show for every amount that `toStroops` reads
  a text as the number it stands for and that `fromStroops` writes one that stands for the
  number it was given.
* `AuthProofs`: `TypeCorrect`, `OneTokenPerChallenge`, `NoLateUse`, `NoReuse`, and the
  action property `ValidKept` of the challenges. The number of tokens alone is not
  inductive; what carries it is where a challenge can be: drawn by one request
  (`PendingFresh`), in one row (`StoredOnce`), and, once consumed, in no unused row and in
  no request that will store it (`Spent`, `IssuersAlone`, `TokensSpent`). `NoLateUse` is
  `Spec => []RedeemedInTime`; every expiry, stored or on its way to the table, is the drawing
  plus the lifetime (`ExpiryFromDrawing`), so a row renewed by another request cannot
  lengthen the life of a challenge.
  `GuardTypeCorrect` and `GuardBound` are about the guard in front of them: its types and
  `SlidingBound`. Needed: attempts of earlier windows lie before the present one, all but
  the last `MAX_ATTEMPTS` of them by a whole window (`EarlierWindows`), and a caller whose
  window was cleaned up has no more than that many recent ones (`FewRecent`).
* `UserAccountProofs`: `TypeCorrect`, `MethodsMatchHolds`, `ErasedCleanHolds`. Payment
  methods need `PendingSound` (a request past its check holds an identifier its provider
  accepts). Erasure needs a second invariant, `Gone`: a deleted user outside `back` is
  clean, and nobody has a request under way that will store something about the account.
  The same module has the theorems about the validator, for identifiers of any length and
  any table of IBAN lengths: `PhonesAsDocumentedHolds`, `CpfOfficialHolds`,
  `BanksValidatedHolds`, `IbanDetectsTyposHolds`. The state machine is small
  (`VerdictRight`); the work is in the operators. The library's induction takes a predicate
  as a parameter, so `UpTo` does it for the set of the steps after which a fact holds, and
  `LoopDefined` shows that a recursive function on `0..n` exists. `RankFacts` to
  `KeepFacts` say what removing characters leaves: the character at a position goes to the
  number of kept positions up to it. A described phone number has digits of the same form
  whatever separators it is written with (`DocumentedDigits`), since a form's prefix and the
  national number are all digits. For the CPF `ElevenMinus` compares the two formulas
  for any sum. For IBANs:
  `Mod97Numeric` shows that `mod97`, with its slices of seven, is the remainder of the
  whole number, one character at a time (`RemStep`); a step is injective in the remainder
  (`RemStepInjective`), so a difference stays (`Diverge`), and a wrong character or two
  swapped neighbours make one (`RemStepTypo`, `RemStepSwap`). The fourth and fifth
  character are read last and first, with up to 32 others between them: their difference
  is multiplied by a power of ten with an exponent of at most 65 and subtracted again
  (`DifferenceGrows`), and no such power is 1 modulo 97 (`PowersNotOne`), so the limit of
  34 characters matters. `CompactTypo` and `CompactSwapped` carry this back to the string
  with its spaces.
  `StoredBankMethods` joins the two: where `Accepted` is what the rules accept, every bank
  account that is stored is one the rules call real.
* `ChatRoomsProofs`: `TypeCorrect`, `SeenByPartiesHolds`, `SeenWasStoredHolds`,
  `NoGhostsHolds`, `MutualPresenceHolds`. The check
  is made before the wait and the effect comes after it, so the invariant follows a right
  of access from parties (`PartiesBeen`) through waiting calls (`TasksBeen`), rooms
  (`RoomsBeen`) and stored messages (`GatewayBeen`, `BroadcastStored`) to what was seen
  (`SeenBeen`). Presence needs `ToldHere`: a client knows of nobody in a room that it is
  not in itself.

Only model-checked: the liveness properties `EventuallySynced` and `DecisionSettled`, since
fairness and ENABLED are beyond the prover. The two violated properties and the further
configurations are counterexamples and have nothing to prove.

## 6. Not modelled

* Offers. Creating an order marks its offer as executed, but no code reads that flag: two
  orders can take one offer, and `OfferService.list` still shows it, although
  `src/modules/order/order.repository.ts:82` says "so it no longer appears in the active
  market". There is no state to get wrong beyond that.
* `uploadEvidence` (a file and its URL), `EscrowService.getStatus` and the other queries,
  and both `updateStatusFromOnChain`, which nothing calls.
* The bytes of `signAndBroadcast` (`src/modules/escrow/trustless-work.service.ts:190-262`).
  Envelopes the API returns have no signatures, and for these the cut is right. The branch
  for signed ones reads the count from the last four bytes, where an XDR envelope has the
  end of the last signature; no caller reaches it.
* Ownership and role guards, JWT and CSRF checks and request throttling: stateless
  comparisons, partly by libraries. A model would restate them.
* Queries of the Stellar account service, payment providers, statistics, health; file
  storage (I/O); configuration and bootstrap (wiring).
* The JWT's own expiry, signature arithmetic and the text of messages, which no property
  here tells apart.
