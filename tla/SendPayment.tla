------------------------------- MODULE SendPayment -------------------------------
(***************************************************************************)
(* USDC transfers: GET /send/resolve, POST /send/prepare and /send/submit  *)
(* (SendService over StellarService), and POST /stellar/pay, which the     *)
(* backend signs itself.                                                   *)
(*                                                                         *)
(* prepare looks the recipient up, then loads the sender's account for its *)
(* sequence number, and hands out an unsigned transaction; the client      *)
(* signs what it was shown and submits it.  The server keeps nothing       *)
(* between these calls: that a wish is paid once rests on the sequence     *)
(* number, on the time bound of the transaction and on what the answers    *)
(* of submit let the client conclude.                                      *)
(*                                                                         *)
(* A client works on one wish at a time and prepares it again only after   *)
(* an answer in Retried.  It may submit a signed transaction repeatedly.   *)
(***************************************************************************)
EXTENDS TransferAmounts

CONSTANTS
    Accounts,      \* Stellar accounts, by public key
    Aliases,       \* aliases of users
    Nobody,        \* the owner of an alias no user has
    Treasury,      \* IKASH_TREASURY_ADDRESS
    Signer,        \* the account of STELLAR_SIGNER_SECRET
    FeePercent,    \* SEND_CRYPTO_FEE_PERCENT, in hundredths
    Wishes,        \* payments that people want made, once each
    Wish,          \* Wish[w]: how it is made, who pays, who is paid, and how much
    Lifetime,      \* Lifetime[via]: the argument of setTimeout
    Retried,       \* the messages after which clients prepare again
    MaxTime,       \* bound: time
    MaxSequence    \* bound: transactions of an account

ASSUME AliasesAssumption == Aliases \cap Accounts = {} /\ Nobody \notin Accounts
ASSUME AccountsAssumption == {Treasury, Signer} \subseteq Accounts
ASSUME WishAssumption ==
    Wish \in [Wishes -> [via: {"send", "pay"}, source: Accounts,
                         to: Accounts \cup Aliases, amount: Text]]
ASSUME PayAssumption ==
    \A w \in Wishes : Wish[w].via = "pay" => Wish[w].source = Signer /\ Wish[w].to \in Accounts
ASSUME FeeAssumption == FeePercent \in Int
ASSUME LifetimeAssumption == Lifetime \in [{"send", "pay"} -> Nat]
ASSUME BoundsAssumption == MaxTime \in Nat /\ MaxSequence \in Nat

VARIABLES
    owner,      \* owner[a]: the account of the user with alias a
    sequence,   \* sequence[x]: the sequence number of account x on the network
    now,        \* the time, for server and network
    step,       \* step[w]: how far the client is with a wish: a call, or the last answer
    address,    \* address[w]: the recipient prepare has resolved
    shown,      \* shown[w]: the answer of prepare the client works on
    pending,    \* transactions the network knows and has not put in a ledger
    executed,   \* transactions that succeeded
    failed      \* transactions that failed in a ledger; their sequence number is used up

networkVars == <<sequence, pending, executed, failed>>
vars == <<owner, sequence, now, step, address, shown, pending, executed, failed>>

---------------------------------------------------------------------------------
(* Types *)

Transaction ==
    [wish: Wishes, source: Accounts, sequence: Nat, deadline: Nat,
     payments: Seq([to: Accounts, amount: Text])]

\* PreparedSend.  POST /stellar/pay shows nothing and submits at once.
Prepared ==
    [address: Accounts, amount: Text, fee: Text, total: Text, tx: Transaction]

Nothing == [tx |-> "none"]

\* What describeHorizonError makes of a definite failure.
Failures == {"no trustline", "underfunded", "bad signature", "expired", "rejected"}

Answers == Failures \cup {"paid", "could not be submitted", "error", "no answer"}

ASSUME RetriedAssumption == Retried \subseteq Failures \cup {"could not be submitted"}

\* Every variable holds a value of its type.
TypeOK ==
    /\ owner \in [Aliases -> Accounts \cup {Nobody}]
    /\ sequence \in [Accounts -> Nat]
    /\ now \in Nat
    /\ step \in [Wishes -> {"start", "resolved", "prepared", "waiting"} \cup Answers]
    /\ address \in [Wishes -> Accounts \cup {Nobody}]
    /\ shown \in [Wishes -> Prepared \cup {Nothing}]
    /\ pending \in SUBSET Transaction
    /\ executed \in SUBSET Transaction
    /\ failed \in SUBSET Transaction

---------------------------------------------------------------------------------
(* Aliases, as UsersService.update changes them *)

\* A user drops the alias, or takes one that is free and gives up the one they had.
Rename(a, x) ==
    /\ owner[a] # x
    /\ x # Nobody => owner[a] = Nobody
    /\ owner' = [b \in Aliases |->
                    IF b = a THEN x ELSE IF owner[b] = x THEN Nobody ELSE owner[b]]
    /\ UNCHANGED <<networkVars, now, step, address, shown>>

\* resolve: an address stands for itself, an alias for the account of its user.
Resolve(recipient) == IF recipient \in Accounts THEN recipient ELSE owner[recipient]

---------------------------------------------------------------------------------
(* prepare *)

Amount(w) == ToStroops(Wish[w].amount)
FeeOf(w) == Fee(Amount(w), FeeBps(FeePercent))

\* The client has not signed anything that may still be paid.
MayPrepare(w) == step[w] \in {"start", "prepared"} \cup Retried

\* A prepare that goes on when no user has the alias.
PrepareResolveUnchecked(w) ==
    /\ Wish[w].via = "send"
    /\ MayPrepare(w)
    /\ Matches(Wish[w].amount) /\ Amount(w) > 0 /\ FeeOf(w) > 0
    /\ step' = [step EXCEPT ![w] = "resolved"]
    /\ address' = [address EXCEPT ![w] = Resolve(Wish[w].to)]
    /\ shown' = [shown EXCEPT ![w] = Nothing]
    /\ UNCHANGED <<owner, networkVars, now>>

PrepareResolve(w) ==
    LET x == Resolve(Wish[w].to) IN
    /\ Wish[w].via = "send"
    /\ MayPrepare(w)
    /\ x \notin {Nobody, Wish[w].source}
    /\ Matches(Wish[w].amount) /\ Amount(w) > 0 /\ FeeOf(w) > 0
    /\ step' = [step EXCEPT ![w] = "resolved"]
    /\ address' = [address EXCEPT ![w] = x]
    /\ shown' = [shown EXCEPT ![w] = Nothing]
    /\ UNCHANGED <<owner, networkVars, now>>

\* buildUnsignedUsdcSend with the sequence number loadAccount just returned: the
\* recipient's payment, then the fee.
SendTransaction(w, to) ==
    [wish |-> w, source |-> Wish[w].source,
     sequence |-> sequence[Wish[w].source] + 1,
     deadline |-> now + Lifetime["send"],
     payments |-> <<[to |-> to, amount |-> FromStroops(Amount(w))],
                    [to |-> Treasury, amount |-> FromStroops(FeeOf(w))]>>]

\* A prepare that looks the alias up a second time for the transaction.
PrepareBuildResolvesAgain(w) ==
    /\ step[w] = "resolved"
    /\ sequence[Wish[w].source] < MaxSequence
    /\ Resolve(Wish[w].to) # Nobody
    /\ step' = [step EXCEPT ![w] = "prepared"]
    /\ shown' = [shown EXCEPT ![w] =
                    [address |-> address[w],
                     amount |-> FromStroops(Amount(w)),
                     fee |-> FromStroops(FeeOf(w)),
                     total |-> FromStroops(Amount(w) + FeeOf(w)),
                     tx |-> SendTransaction(w, Resolve(Wish[w].to))]]
    /\ address' = [address EXCEPT ![w] = Nobody]
    /\ UNCHANGED <<owner, networkVars, now>>

PrepareBuild(w) ==
    /\ step[w] = "resolved"
    /\ sequence[Wish[w].source] < MaxSequence
    /\ AcceptedAmount(FromStroops(Amount(w))) /\ AcceptedAmount(FromStroops(FeeOf(w)))
    /\ step' = [step EXCEPT ![w] = "prepared"]
    /\ shown' = [shown EXCEPT ![w] =
                    [address |-> address[w],
                     amount |-> FromStroops(Amount(w)),
                     fee |-> FromStroops(FeeOf(w)),
                     total |-> FromStroops(Amount(w) + FeeOf(w)),
                     tx |-> SendTransaction(w, address[w])]]
    /\ address' = [address EXCEPT ![w] = Nobody]
    /\ UNCHANGED <<owner, networkVars, now>>

\* loadAccount throws, or the server stops.
PrepareFails(w) ==
    /\ step[w] = "resolved"
    /\ step' = [step EXCEPT ![w] = "start"]
    /\ address' = [address EXCEPT ![w] = Nobody]
    /\ UNCHANGED <<owner, networkVars, now, shown>>

---------------------------------------------------------------------------------
(* submit and sendPayment *)

\* The client sends the transaction it signed, for the first time or once more.
Submit(w) ==
    /\ Wish[w].via = "send"
    /\ step[w] \in ({"prepared"} \cup Answers) \ {"paid"}
    /\ step' = [step EXCEPT ![w] = "waiting"]
    /\ UNCHANGED <<owner, networkVars, now, address, shown>>

\* sendPayment: the signer's account is loaded and a transaction with one payment is
\* built, signed and sent, all in one call of the client.
SendPaymentLoad(w) ==
    /\ Wish[w].via = "pay"
    /\ step[w] = "start"
    /\ AcceptedAmount(Wish[w].amount)
    /\ sequence[Signer] < MaxSequence
    /\ step' = [step EXCEPT ![w] = "waiting"]
    /\ shown' = [shown EXCEPT ![w] =
                    [address |-> Wish[w].to, amount |-> Wish[w].amount,
                     fee |-> FromStroops(0), total |-> Wish[w].amount,
                     tx |-> [wish |-> w, source |-> Signer,
                             sequence |-> sequence[Signer] + 1,
                             deadline |-> now + Lifetime["pay"],
                             payments |-> <<[to |-> Wish[w].to, amount |-> Wish[w].amount]>>]]]
    /\ UNCHANGED <<owner, networkVars, now, address>>

---------------------------------------------------------------------------------
(* The Stellar network and Horizon (external) *)

Tx(w) == shown[w].tx
Late(t) == now > t.deadline
InSequence(t) == t.sequence = sequence[t.source] + 1

\* A ledger takes a transaction whose time and turn are right; it succeeds or fails as
\* a whole, and uses up its sequence number either way.
Include(t) ==
    /\ t \in pending
    /\ ~Late(t) /\ InSequence(t)
    /\ sequence' = [sequence EXCEPT ![t.source] = @ + 1]
    /\ pending' = pending \ {t}
    /\ \/ executed' = executed \cup {t} /\ UNCHANGED failed
       \/ failed' = failed \cup {t} /\ UNCHANGED executed
    /\ UNCHANGED <<owner, now, step, address, shown>>

\* The network forgets a transaction it could not place.
Forget(t) ==
    /\ t \in pending
    /\ pending' = pending \ {t}
    /\ UNCHANGED <<owner, sequence, now, step, address, shown, executed, failed>>

\* Horizon passes the transaction on and waits for a ledger.
HorizonQueues(w) ==
    /\ step[w] = "waiting"
    /\ Tx(w) \notin pending \cup executed \cup failed
    /\ ~Late(Tx(w)) /\ InSequence(Tx(w))
    /\ pending' = pending \cup {Tx(w)}
    /\ UNCHANGED <<owner, sequence, now, step, address, shown, executed, failed>>

\* Result codes: of the transaction ("none" when Horizon gives none) and its operations.
Code(tx, ops) == [transaction |-> tx, operations |-> ops]

OperationFailures ==
    {Code("tx_failed", <<"op_success", "op_no_trust">>),
     Code("tx_failed", <<"op_underfunded", "op_success">>),
     Code("tx_failed", <<"op_line_full", "op_success">>)}

\* What Horizon can say of a transaction that did not succeed.  It looks a transaction
\* up by its hash before it complains about the time or the sequence number.
Codes(t) ==
    IF t \in failed THEN OperationFailures
    ELSE (IF Late(t) THEN {Code("tx_too_late", <<>>)} ELSE {})
         \cup (IF InSequence(t) THEN {} ELSE {Code("tx_bad_seq", <<>>)})
         \cup (IF t \in pending THEN {}
               ELSE {Code(c, <<>>) : c \in {"tx_insufficient_balance", "tx_bad_auth"}})

---------------------------------------------------------------------------------
(* What the client is told *)

OperationErrorMessages == [op_no_trust |-> "no trustline", op_underfunded |-> "underfunded"]

TransactionErrorMessages ==
    [tx_insufficient_balance |-> "underfunded", tx_bad_auth |-> "bad signature",
     tx_bad_auth_extra |-> "bad signature", tx_too_late |-> "expired", tx_too_early |-> "expired"]

\* The operation codes with a message of their own; the first of them decides.
Known(code) == {i \in DOMAIN code.operations :
                    code.operations[i] \in DOMAIN OperationErrorMessages}
FirstKnown(code) == CHOOSE i \in Known(code) : \A j \in Known(code) : i <= j

\* An error helper that takes an error without codes for a rejection.
DescribeHorizonErrorRejected(code) ==
    IF Known(code) # {} THEN OperationErrorMessages[code.operations[FirstKnown(code)]]
    ELSE IF code.transaction \in DOMAIN TransactionErrorMessages
         THEN TransactionErrorMessages[code.transaction]
         ELSE "rejected"

DescribeHorizonError(code) ==
    IF Known(code) # {} THEN OperationErrorMessages[code.operations[FirstKnown(code)]]
    ELSE IF code.transaction = "none" THEN "could not be submitted"
    ELSE IF code.transaction \in DOMAIN TransactionErrorMessages
         THEN TransactionErrorMessages[code.transaction]
         ELSE "rejected"

\* submitSignedXdr translates Horizon's error; sendPayment lets it through.
Told(w, code) == IF Wish[w].via = "send" THEN DescribeHorizonError(code) ELSE "error"

SubmitSucceeds(w) ==
    /\ step[w] = "waiting"
    /\ Tx(w) \in executed
    /\ step' = [step EXCEPT ![w] = "paid"]
    /\ UNCHANGED <<owner, networkVars, now, address, shown>>

SubmitFails(w) ==
    /\ step[w] = "waiting"
    /\ Tx(w) \notin executed
    /\ \E code \in Codes(Tx(w)) : step' = [step EXCEPT ![w] = Told(w, code)]
    /\ UNCHANGED <<owner, networkVars, now, address, shown>>

\* Horizon does not answer in time, or with an error that holds no result codes; it may
\* or may not have passed the transaction on, and will not take it back.
SubmitTimesOut(w) ==
    /\ step[w] = "waiting"
    /\ step' = [step EXCEPT ![w] = Told(w, Code("none", <<>>))]
    /\ pending' \in {pending, pending \cup {Tx(w)}}
    /\ UNCHANGED <<owner, sequence, now, address, shown, executed, failed>>

\* The server stops, or its answer is lost.
AnswerLost(w) ==
    /\ step[w] = "waiting"
    /\ step' = [step EXCEPT ![w] = "no answer"]
    /\ UNCHANGED <<owner, networkVars, now, address, shown>>

---------------------------------------------------------------------------------

Tick ==
    /\ now < MaxTime
    /\ now' = now + 1
    /\ UNCHANGED <<owner, networkVars, step, address, shown>>

Init ==
    /\ owner \in [Aliases -> Accounts \cup {Nobody}]
    /\ \A a, b \in Aliases : owner[a] = owner[b] /\ owner[a] # Nobody => a = b
    /\ sequence = [x \in Accounts |-> 0]
    /\ now = 0
    /\ step = [w \in Wishes |-> "start"]
    /\ address = [w \in Wishes |-> Nobody]
    /\ shown = [w \in Wishes |-> Nothing]
    /\ pending = {} /\ executed = {} /\ failed = {}

WishStep(w) ==
    \/ PrepareResolve(w) \/ PrepareBuild(w) \/ PrepareFails(w)
    \/ Submit(w) \/ SendPaymentLoad(w)
    \/ HorizonQueues(w)
    \/ SubmitSucceeds(w) \/ SubmitFails(w) \/ SubmitTimesOut(w) \/ AnswerLost(w)

Next ==
    \/ \E w \in Wishes : WishStep(w)
    \/ \E t \in pending : Include(t) \/ Forget(t)
    \/ \E a \in Aliases, x \in Accounts \cup {Nobody} : Rename(a, x)
    \/ Tick

Spec == Init /\ [][Next]_vars

---------------------------------------------------------------------------------
(* Properties *)

\* A wish is paid at most once, whatever answers are lost, submissions repeated or
\* transactions of other wishes of the same account come between: prepare, submit and
\* describeHorizonError never lead a client to sign a second payment that can execute
\* beside the first, as long as it does not prepare again after "could not be submitted".
PaidOnce ==
    \A t, u \in executed : t.wish = u.wish => t = u

\* The number of stroops a text with at most seven decimals stands for, digit by digit from
\* the left.
Value(text) ==
    LET ReadOn(n, i) == 10 * n + (IF i <= Len(text.dec) THEN text.dec[i] ELSE 0)
    IN ReadOn(ReadOn(ReadOn(ReadOn(ReadOn(ReadOn(ReadOn(text.int, 1), 2), 3), 4), 5), 6), 7)

\* What a client of prepare signs is what it was shown: the first payment goes to the
\* recipient of the answer and is the amount asked for to the stroop, the second is the
\* fee to the treasury, and the total is what leaves the account; also when the alias
\* changes hands while prepare runs.
ShownIsPaid ==
    \A w \in Wishes :
        Wish[w].via = "send" /\ shown[w] # Nothing =>
            LET p == shown[w]
                pays == Tx(w).payments
            IN /\ Matches(Wish[w].amount)
               /\ Len(pays) = 2
               /\ pays[1].to = p.address /\ pays[2].to = Treasury
               /\ p.address # Wish[w].source
               /\ Value(pays[1].amount) = Value(Wish[w].amount)
               /\ Value(pays[1].amount) = Value(p.amount)
               /\ Value(pays[2].amount) = Value(p.fee)
               /\ Value(p.total) = Value(pays[1].amount) + Value(pays[2].amount)

=================================================================================
