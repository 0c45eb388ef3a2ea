---------------------------- MODULE SendPaymentProofs ----------------------------
(***************************************************************************)
(* Proof that a wish is paid once and that what is signed is what was      *)
(* shown, for any number of accounts, wishes, amounts and time.            *)
(*                                                                         *)
(* PaidOnce alone is not inductive: a client that prepares again must have *)
(* been told something that rules the earlier transaction out.  The        *)
(* invariant below says for every transaction the network knows that it is *)
(* dead (expired, or its sequence number is used up) or the one its client *)
(* is still waiting for, and that an executed one is the latter.           *)
(***************************************************************************)
EXTENDS SendPayment, TLAPS

\* Clients leave a transaction alone that "could not be submitted".
ClientsWait == "could not be submitted" \notin Retried

HasTx(w) == step[w] \notin {"start", "resolved"}

\* The client may be ignorant of what becomes of the transaction it signed.
Open(w) == step[w] \in {"waiting", "could not be submitted", "no answer", "error"}

Dead(t) == now > t.deadline \/ t.sequence <= sequence[t.source]

Types ==
    /\ sequence \in [Accounts -> Nat]
    /\ now \in Nat
    /\ step = [w \in Wishes |-> step[w]]
    /\ shown = [w \in Wishes |-> shown[w]]

\* The transaction a client holds is its own, and was built on a sequence number the
\* account has or had.
Held ==
    \A w \in Wishes : HasTx(w) =>
        /\ Tx(w).wish = w
        /\ Tx(w).source = Wish[w].source
        /\ Tx(w).sequence \in Nat /\ Tx(w).deadline \in Nat
        /\ Tx(w).sequence <= sequence[Wish[w].source] + 1

Sent ==
    \A t \in pending \cup executed \cup failed :
        /\ t.wish \in Wishes
        /\ t.source = Wish[t.wish].source
        /\ t.sequence \in Nat /\ t.deadline \in Nat

Used == \A t \in executed \cup failed : t.sequence <= sequence[t.source]

Alive == \A t \in pending : Dead(t) \/ (t = Tx(t.wish) /\ Open(t.wish))

Settled == \A t \in executed : t = Tx(t.wish) /\ (Open(t.wish) \/ step[t.wish] = "paid")

IInv == Types /\ Held /\ Sent /\ Used /\ Alive /\ Settled

\* The accounts of wishes are accounts.
LEMMA SourceType == \A w \in Wishes : Wish[w].source \in Accounts
BY WishAssumption

LEMMA InitIInv == Init => IInv
BY DEF Init, IInv, Types, Held, Sent, Used, Alive, Settled, HasTx

\* An error without result codes leaves the client ignorant.
LEMMA ToldNothing ==
    \A w : Told(w, Code("none", <<>>)) \in {"could not be submitted", "error"}
<1>1. Known(Code("none", <<>>)) = {}
    BY DEF Known, Code
<1>. QED
    BY <1>1 DEF Told, DescribeHorizonError, Code

\* What Horizon can report of a transaction in the network rules it out.
LEMMA CodesDead ==
    ASSUME IInv, NEW w \in Wishes, step[w] = "waiting",
           NEW code \in Codes(Tx(w)), Tx(w) \in pending
    PROVE  Dead(Tx(w))
<1>1. HasTx(w)
    BY DEF HasTx
<1>2. Tx(w) \in failed \/ Late(Tx(w)) \/ ~InSequence(Tx(w))
    BY DEF Codes
<1>3. CASE Tx(w) \in failed
    BY <1>3 DEF IInv, Used, Dead
<1>4. CASE Late(Tx(w))
    BY <1>4 DEF Late, Dead
<1>5. CASE ~InSequence(Tx(w))
    BY <1>1, <1>5, SourceType DEF IInv, Held, Types, InSequence, Dead
<1>. QED
    BY <1>2, <1>3, <1>4, <1>5

LEMMA PrepareStep ==
    ASSUME IInv, ClientsWait, NEW w \in Wishes,
           PrepareResolve(w) \/ PrepareBuild(w) \/ PrepareFails(w)
    PROVE  IInv'
<1>1. CASE PrepareResolve(w)
    <2>1. ~Open(w) /\ step[w] # "paid"
        BY <1>1, RetriedAssumption DEF PrepareResolve, MayPrepare, ClientsWait, Open, Failures
    <2>2. /\ \A v \in Wishes \ {w} : step'[v] = step[v] /\ shown'[v] = shown[v]
          /\ step'[w] = "resolved"
          /\ UNCHANGED <<sequence, pending, executed, failed, now>>
        BY <1>1 DEF PrepareResolve, IInv, Types, networkVars
    <2>3. Types'
        BY <1>1, <2>2 DEF PrepareResolve, IInv, Types
    <2>4. Held'
        BY <2>2 DEF IInv, Held, HasTx, Tx
    <2>5. Sent' /\ Used'
        BY <2>2 DEF IInv, Sent, Used
    <2>6. Alive' /\ Settled'
        BY <2>1, <2>2 DEF IInv, Sent, Alive, Settled, Dead, Open, Tx
    <2>. QED
        BY <2>3, <2>4, <2>5, <2>6 DEF IInv
<1>2. CASE PrepareBuild(w)
    <2>1. ~Open(w) /\ step[w] # "paid"
        BY <1>2 DEF PrepareBuild, Open
    <2>2. /\ \A v \in Wishes \ {w} : step'[v] = step[v] /\ shown'[v] = shown[v]
          /\ step'[w] = "prepared"
          /\ shown'[w].tx = SendTransaction(w, address[w])
          /\ UNCHANGED <<sequence, pending, executed, failed, now>>
        BY <1>2 DEF PrepareBuild, IInv, Types, networkVars
    <2>3. Types'
        BY <1>2, <2>2 DEF PrepareBuild, IInv, Types
    <2>4. /\ SendTransaction(w, address[w]).wish = w
          /\ SendTransaction(w, address[w]).source = Wish[w].source
          /\ SendTransaction(w, address[w]).sequence = sequence[Wish[w].source] + 1
          /\ SendTransaction(w, address[w]).deadline = now + Lifetime["send"]
        BY DEF SendTransaction
    <2>5. Held'
        <3>1. Lifetime["send"] \in Nat
            BY LifetimeAssumption
        <3>. QED
            BY <2>2, <2>4, <3>1, SourceType DEF IInv, Types, Held, HasTx, Tx
    <2>6. Sent' /\ Used'
        BY <2>2 DEF IInv, Sent, Used
    <2>7. Alive' /\ Settled'
        BY <2>1, <2>2 DEF IInv, Sent, Alive, Settled, Dead, Open, Tx
    <2>. QED
        BY <2>3, <2>5, <2>6, <2>7 DEF IInv
<1>3. CASE PrepareFails(w)
    <2>1. ~Open(w) /\ step[w] # "paid"
        BY <1>3 DEF PrepareFails, Open
    <2>2. /\ \A v \in Wishes \ {w} : step'[v] = step[v]
          /\ step'[w] = "start"
          /\ UNCHANGED <<shown, sequence, pending, executed, failed, now>>
        BY <1>3 DEF PrepareFails, IInv, Types, networkVars
    <2>3. Types'
        BY <1>3, <2>2 DEF PrepareFails, IInv, Types
    <2>4. Held'
        BY <2>2 DEF IInv, Held, HasTx, Tx
    <2>5. Sent' /\ Used'
        BY <2>2 DEF IInv, Sent, Used
    <2>6. Alive' /\ Settled'
        BY <2>1, <2>2 DEF IInv, Sent, Alive, Settled, Dead, Open, Tx
    <2>. QED
        BY <2>3, <2>4, <2>5, <2>6 DEF IInv
<1>. QED
    BY <1>1, <1>2, <1>3

\* The client or an answer moves a wish on; the transaction it holds stays.
LEMMA AnswerStep ==
    ASSUME IInv, NEW w \in Wishes,
           Submit(w) \/ SubmitSucceeds(w) \/ SubmitFails(w) \/ AnswerLost(w)
    PROVE  IInv'
<1>1. /\ \A v \in Wishes \ {w} : step'[v] = step[v]
      /\ UNCHANGED <<shown, sequence, pending, executed, failed, now>>
    BY DEF Submit, SubmitSucceeds, SubmitFails, AnswerLost, IInv, Types, networkVars
<1>2. Types'
    BY <1>1 DEF Submit, SubmitSucceeds, SubmitFails, AnswerLost, IInv, Types
<1>3. HasTx(w)
    BY DEF Submit, SubmitSucceeds, SubmitFails, AnswerLost, HasTx, Answers, Failures
<1>4. Held'
    BY <1>1, <1>3 DEF IInv, Held, HasTx, Tx
<1>5. Sent' /\ Used'
    BY <1>1 DEF IInv, Sent, Used
<1>6. /\ \A t \in pending : t.wish = w => Dead(t) \/ (t = Tx(w) /\ Open(w)')
      /\ \A t \in executed : t.wish = w => t = Tx(w) /\ (Open(w)' \/ step'[w] = "paid")
    <2>1. CASE Submit(w) \/ AnswerLost(w)
        BY <2>1 DEF Submit, AnswerLost, IInv, Types, Alive, Settled, Open
    <2>2. CASE SubmitSucceeds(w)
        <3>1. Dead(Tx(w))
            BY <2>2 DEF SubmitSucceeds, IInv, Used, Dead
        <3>. QED
            BY <2>2, <3>1 DEF SubmitSucceeds, IInv, Types, Alive, Settled
    <2>3. CASE SubmitFails(w)
        <3>1. PICK code \in Codes(Tx(w)) : TRUE
            BY <2>3 DEF SubmitFails
        <3>2. Tx(w) \in pending => Dead(Tx(w))
            BY <2>3, <3>1, CodesDead DEF SubmitFails
        <3>. QED
            BY <2>3, <3>2 DEF SubmitFails, IInv, Alive, Settled
    <2>. QED
        BY <2>1, <2>2, <2>3
<1>7. Alive' /\ Settled'
    BY <1>1, <1>6 DEF IInv, Sent, Alive, Settled, Dead, Open, Tx
<1>. QED
    BY <1>2, <1>4, <1>5, <1>7 DEF IInv

LEMMA PayStep ==
    ASSUME IInv, NEW w \in Wishes, SendPaymentLoad(w)
    PROVE  IInv'
<1>1. ~Open(w) /\ step[w] # "paid"
    BY DEF SendPaymentLoad, Open
<1>2. /\ \A v \in Wishes \ {w} : step'[v] = step[v] /\ shown'[v] = shown[v]
      /\ step'[w] = "waiting"
      /\ shown'[w].tx.wish = w
      /\ shown'[w].tx.source = Signer
      /\ shown'[w].tx.sequence = sequence[Signer] + 1
      /\ shown'[w].tx.deadline = now + Lifetime["pay"]
      /\ UNCHANGED <<sequence, pending, executed, failed, now>>
    BY DEF SendPaymentLoad, IInv, Types, networkVars
<1>3. Types'
    BY <1>2 DEF SendPaymentLoad, IInv, Types
<1>4. Held'
    <2>1. Lifetime["pay"] \in Nat /\ Wish[w].source = Signer /\ Signer \in Accounts
        BY LifetimeAssumption, PayAssumption, AccountsAssumption DEF SendPaymentLoad
    <2>. QED
        BY <1>2, <2>1 DEF IInv, Types, Held, HasTx, Tx
<1>5. Sent' /\ Used'
    BY <1>2 DEF IInv, Sent, Used
<1>6. Alive' /\ Settled'
    BY <1>1, <1>2 DEF IInv, Sent, Alive, Settled, Dead, Open, Tx
<1>. QED
    BY <1>3, <1>4, <1>5, <1>6 DEF IInv

\* Horizon passes a transaction on, at once or while the client is told nothing.
LEMMA QueueStep ==
    ASSUME IInv, NEW w \in Wishes, HorizonQueues(w) \/ SubmitTimesOut(w)
    PROVE  IInv'
<1>1. /\ \A v \in Wishes \ {w} : step'[v] = step[v]
      /\ Open(w) /\ Open(w)'
      /\ pending' \subseteq pending \cup {Tx(w)}
      /\ UNCHANGED <<shown, sequence, executed, failed, now>>
    BY ToldNothing DEF HorizonQueues, SubmitTimesOut, IInv, Types, Open
<1>2. Types'
    BY <1>1 DEF HorizonQueues, SubmitTimesOut, IInv, Types
<1>3. HasTx(w)
    BY <1>1 DEF HasTx, Open
<1>4. Held'
    BY <1>1, <1>3 DEF IInv, Held, HasTx, Tx
<1>5. Sent' /\ Used'
    BY <1>1, <1>3 DEF IInv, Held, Sent, Used
<1>6. Alive' /\ Settled'
    BY <1>1, <1>3 DEF IInv, Held, Sent, Alive, Settled, Dead, Open, Tx
<1>. QED
    BY <1>2, <1>4, <1>5, <1>6 DEF IInv

LEMMA IncludeStep ==
    ASSUME IInv, NEW t \in pending, Include(t)
    PROVE  IInv'
<1>1. t.source \in Accounts /\ t.wish \in Wishes /\ t.sequence \in Nat
    BY SourceType DEF IInv, Sent
<1>2. /\ sequence' \in [Accounts -> Nat]
      /\ \A x \in Accounts : sequence[x] <= sequence'[x]
      /\ t.sequence <= sequence'[t.source]
    BY <1>1 DEF Include, IInv, Types, InSequence
<1>3. /\ UNCHANGED <<shown, step, now>>
      /\ pending' = pending \ {t}
      /\ executed' \in {executed, executed \cup {t}}
      /\ failed' \in {failed, failed \cup {t}}
    BY DEF Include
<1>4. t = Tx(t.wish) /\ Open(t.wish)
    BY <1>1, SourceType DEF Include, Late, InSequence, IInv, Types, Sent, Alive, Dead
<1>5. Types'
    BY <1>2, <1>3 DEF IInv, Types
<1>6. Held'
    BY <1>2, <1>3, SourceType DEF IInv, Types, Held, HasTx, Tx
<1>7. Sent'
    BY <1>3 DEF IInv, Sent
<1>8. Used'
    BY <1>1, <1>2, <1>3, SourceType DEF IInv, Types, Sent, Used
<1>9. Alive'
    <2> SUFFICES ASSUME NEW u \in pending'
                 PROVE  Dead(u)' \/ (u = Tx(u.wish)' /\ Open(u.wish)')
        BY DEF Alive
    <2>1. u \in pending /\ u.source \in Accounts /\ u.sequence \in Nat
        BY <1>3, SourceType DEF IInv, Sent
    <2>2. CASE Dead(u)
        BY <1>2, <1>3, <2>1, <2>2, SMT DEF IInv, Types, Dead
    <2>3. CASE u = Tx(u.wish) /\ Open(u.wish)
        BY <1>3, <2>3 DEF Open, Tx
    <2>. QED
        BY <2>1, <2>2, <2>3 DEF IInv, Alive
<1>10. Settled'
    BY <1>3, <1>4 DEF IInv, Settled, Open, Tx
<1>. QED
    BY <1>5, <1>6, <1>7, <1>8, <1>9, <1>10 DEF IInv

\* Forgotten transactions, aliases, time and stuttering disturb nothing.
LEMMA QuietStep ==
    ASSUME IInv,
           \/ \E t \in pending : Forget(t)
           \/ \E a \in Aliases, x \in Accounts \cup {Nobody} : Rename(a, x)
           \/ Tick
           \/ UNCHANGED vars
    PROVE  IInv'
<1>1. /\ UNCHANGED <<shown, step, sequence, executed, failed>>
      /\ pending' \subseteq pending
      /\ now' \in Nat /\ now <= now'
    BY DEF Forget, Rename, Tick, vars, networkVars, IInv, Types
<1>2. Types' /\ Held'
    BY <1>1 DEF IInv, Types, Held, HasTx, Tx
<1>3. Sent' /\ Used'
    BY <1>1 DEF IInv, Sent, Used
<1>4. Alive'
    <2> SUFFICES ASSUME NEW u \in pending'
                 PROVE  Dead(u)' \/ (u = Tx(u.wish)' /\ Open(u.wish)')
        BY DEF Alive
    <2>1. u \in pending /\ u.deadline \in Nat
        BY <1>1 DEF IInv, Sent
    <2>2. CASE Dead(u)
        BY <1>1, <2>1, <2>2, SMT DEF IInv, Types, Dead
    <2>3. CASE u = Tx(u.wish) /\ Open(u.wish)
        BY <1>1, <2>3 DEF Open, Tx
    <2>. QED
        BY <2>1, <2>2, <2>3 DEF IInv, Alive
<1>5. Settled'
    BY <1>1 DEF IInv, Settled, Open, Tx
<1>. QED
    BY <1>2, <1>3, <1>4, <1>5 DEF IInv

\* The invariant is kept by every step of prepare, submit, sendPayment and the network.
LEMMA NextIInv == ClientsWait /\ IInv /\ [Next]_vars => IInv'
<1> SUFFICES ASSUME ClientsWait, IInv, [Next]_vars PROVE IInv'
    OBVIOUS
<1>1. CASE \E w \in Wishes : WishStep(w)
    BY <1>1, PrepareStep, AnswerStep, PayStep, QueueStep DEF WishStep
<1>2. CASE \E t \in pending : Include(t)
    BY <1>2, IncludeStep
<1>3. CASE ~(\E w \in Wishes : WishStep(w)) /\ ~(\E t \in pending : Include(t))
    BY <1>3, QuietStep DEF Next
<1>. QED
    BY <1>1, <1>2, <1>3

\* A wish is never paid twice by prepare, submit and sendPayment, for any number of wishes
\* and accounts, when clients do not prepare again after "could not be submitted".
THEOREM NeverPaidTwice == ClientsWait => (Spec => []PaidOnce)
<1> SUFFICES ASSUME ClientsWait PROVE Spec => []PaidOnce
    OBVIOUS
<1>1. IInv /\ [Next]_vars => IInv'
    BY NextIInv
<1>2. IInv => PaidOnce
    BY DEF IInv, Settled, PaidOnce
<1>. QED
    BY <1>1, <1>2, InitIInv, PTL DEF Spec

---------------------------------------------------------------------------------
(***************************************************************************)
(* What was signed is what was shown.  This rests on the conversions being *)
(* inverse to each other for every amount, and on the check of the amount  *)
(* and of the recipient outliving the wait for loadAccount.                *)
(***************************************************************************)

\* The i-th digit behind the point, as Value reads it.
DigitIn(text, i) == IF i <= Len(text.dec) THEN text.dec[i] ELSE 0

LEMMA ValueByDigits ==
    ASSUME NEW text
    PROVE  Value(text) =
             10 * (10 * (10 * (10 * (10 * (10 * (10 * text.int + DigitIn(text, 1))
                 + DigitIn(text, 2)) + DigitIn(text, 3)) + DigitIn(text, 4))
                 + DigitIn(text, 5)) + DigitIn(text, 6)) + DigitIn(text, 7)
  BY DEF Value, DigitIn

LEMMA DigitsTyped ==
    ASSUME NEW text \in Text, NEW i \in 1..7
    PROVE  DigitIn(text, i) \in 0..9 /\ DigitIn(text, i) \in Nat
  BY DEF Text, Digit, DigitIn

\* toStroops gives the number the text stands for.
LEMMA ToStroopsRight ==
    ASSUME NEW text \in Text
    PROVE  ToStroops(text) = Value(text) /\ Value(text) \in Nat
  <1> DEFINE n == text.int
             a == DigitIn(text, 1)
             b == DigitIn(text, 2)
             c == DigitIn(text, 3)
             d == DigitIn(text, 4)
             e == DigitIn(text, 5)
             f == DigitIn(text, 6)
             g == DigitIn(text, 7)
  <1>1. \A i \in 1..7 : Padded(text)[i] = DigitIn(text, i)
    BY DEF Padded, DigitIn, Decimals
  <1>2. /\ Padded(text)[1] = a /\ Padded(text)[2] = b /\ Padded(text)[3] = c
        /\ Padded(text)[4] = d /\ Padded(text)[5] = e /\ Padded(text)[6] = f
        /\ Padded(text)[7] = g
    BY <1>1
  <1>3. /\ n \in Nat /\ a \in Nat /\ b \in Nat /\ c \in Nat
        /\ d \in Nat /\ e \in Nat /\ f \in Nat /\ g \in Nat
    BY DigitsTyped DEF Text
  <1>4. ToStroops(text) = n * StroopsPerUnit + a * Worth[1] + b * Worth[2] + c * Worth[3]
            + d * Worth[4] + e * Worth[5] + f * Worth[6] + g * Worth[7]
    BY <1>2, Zenon DEF ToStroops
  <1>5. Value(text) = 10 * (10 * (10 * (10 * (10 * (10 * (10 * n + a) + b) + c) + d) + e) + f) + g
    BY ValueByDigits, Zenon
  <1> HIDE DEF n, a, b, c, d, e, f, g
  <1>6. /\ Worth[1] = 1000000 /\ Worth[2] = 100000 /\ Worth[3] = 10000 /\ Worth[4] = 1000
        /\ Worth[5] = 100 /\ Worth[6] = 10 /\ Worth[7] = 1
    BY SMT DEF Worth
  <1>7. /\ n * StroopsPerUnit + a * Worth[1] + b * Worth[2] + c * Worth[3]
            + d * Worth[4] + e * Worth[5] + f * Worth[6] + g * Worth[7]
              = 10 * (10 * (10 * (10 * (10 * (10 * (10 * n + a) + b) + c) + d) + e) + f) + g
        /\ 10 * (10 * (10 * (10 * (10 * (10 * (10 * n + a) + b) + c) + d) + e) + f) + g \in Nat
    BY <1>3, <1>6, SMT DEF StroopsPerUnit
  <1>8. QED
    BY <1>4, <1>5, <1>7, Zenon

LEMMA GreatestExists ==
    ASSUME NEW S, S \subseteq 0..7, 0 \in S
    PROVE  Max(S) \in S /\ \A i \in S : i <= Max(S)
  <1>1. \E x \in S : \A i \in S : x >= i
    OBVIOUS
  <1>2. QED
    BY <1>1 DEF Max

LEMMA DivideOnce ==
    ASSUME NEW n \in Nat
    PROVE  n = 10 * (n \div 10) + (n % 10) /\ n \div 10 \in Nat /\ n % 10 \in 0..9
  BY SMT

LEMMA DivideTwice ==
    ASSUME NEW n \in Nat
    PROVE  /\ n \div 100 = (n \div 10) \div 10
           /\ n \div 1000 = (n \div 100) \div 10
           /\ n \div 10000 = (n \div 1000) \div 10
           /\ n \div 100000 = (n \div 10000) \div 10
           /\ n \div 1000000 = (n \div 100000) \div 10
           /\ n \div 10000000 = (n \div 1000000) \div 10
  BY SMT

LEMMA DigitAtTyped ==
    ASSUME NEW n \in Nat, NEW i \in 1..7
    PROVE  DigitAt(n, i) \in Digit
  <1>1. Worth[i] \in Nat \ {0}
    BY SMT DEF Worth
  <1>2. n \div Worth[i] \in Nat
    BY <1>1, SMT
  <1>3. QED
    BY <1>2, SMT DEF DigitAt, Digit

\* fromStroops loses no digit: padStart puts zeros in front and only zeros are cut off.
LEMMA FromStroopsDigits ==
    ASSUME NEW n \in Nat
    PROVE  /\ FromStroops(n) \in Text
           /\ FromStroops(n).int = n \div StroopsPerUnit
           /\ \A i \in 1..7 : DigitIn(FromStroops(n), i) = DigitAt(n, i)
  <1> DEFINE places == {i \in 1..Decimals : DigitAt(n, i) # 0} \cup {0}
             last == Max(places)
             digits == [i \in 1..last |-> DigitAt(n, i)]
  <1>1. places \subseteq 0..7 /\ 0 \in places
    BY DEF Decimals
  <1>2. last \in 0..7 /\ \A i \in places : i <= last
    <2> HIDE DEF places
    <2>1. QED
      BY <1>1, GreatestExists
  <1>3. FromStroops(n) = [int |-> n \div StroopsPerUnit, dec |-> digits]
    BY Zenon DEF FromStroops
  <1>4. n \div StroopsPerUnit \in Nat
    BY SMT DEF StroopsPerUnit
  <1>5. \A i \in 1..7 : i > last => DigitAt(n, i) = 0
    <2> SUFFICES ASSUME NEW i \in 1..7, i > last, DigitAt(n, i) # 0 PROVE FALSE
      OBVIOUS
    <2>1. i \in places
      BY DEF Decimals
    <2> HIDE DEF places, last
    <2>2. QED
      BY <1>2, <2>1
  <1> HIDE DEF last
  <1>6. digits \in Seq(Digit) /\ Len(digits) = last /\ \A i \in 1..last : digits[i] = DigitAt(n, i)
    BY <1>2, DigitAtTyped
  <1> HIDE DEF digits
  <1>7. FromStroops(n).int = n \div StroopsPerUnit /\ FromStroops(n).dec = digits
    BY <1>3
  <1>8. FromStroops(n) \in Text
    BY <1>3, <1>4, <1>6 DEF Text
  <1>9. \A i \in 1..7 : DigitIn(FromStroops(n), i) = DigitAt(n, i)
    BY <1>2, <1>5, <1>6, <1>7 DEF DigitIn
  <1>10. QED
    BY <1>7, <1>8, <1>9

\* fromStroops writes a text that stands for the number it was given.
LEMMA RoundTrip ==
    ASSUME NEW n \in Nat
    PROVE  FromStroops(n) \in Text /\ Value(FromStroops(n)) = n
  <1> DEFINE t == FromStroops(n)
  <1>1. /\ Worth[1] = 1000000 /\ Worth[2] = 100000 /\ Worth[3] = 10000 /\ Worth[4] = 1000
        /\ Worth[5] = 100 /\ Worth[6] = 10 /\ Worth[7] = 1
    BY SMT DEF Worth
  <1>2. \A i \in 1..7 : DigitIn(t, i) = DigitAt(n, i)
    BY FromStroopsDigits
  <1> HIDE DEF t
  <1> DEFINE z == n \div 10000000
             a == n \div 1000000
             b == n \div 100000
             c == n \div 10000
             d == n \div 1000
             e == n \div 100
             f == n \div 10
  <1>3. /\ z \in Nat /\ a \in Nat /\ b \in Nat /\ c \in Nat /\ d \in Nat /\ e \in Nat /\ f \in Nat
    BY SMT
  <1>4. /\ z = a \div 10 /\ a = b \div 10 /\ b = c \div 10 /\ c = d \div 10
        /\ d = e \div 10 /\ e = f \div 10 /\ f = n \div 10
    BY DivideTwice, SMT
  <1>5. /\ DigitAt(n, 1) = a % 10 /\ DigitAt(n, 2) = b % 10 /\ DigitAt(n, 3) = c % 10
        /\ DigitAt(n, 4) = d % 10 /\ DigitAt(n, 5) = e % 10 /\ DigitAt(n, 6) = f % 10
        /\ DigitAt(n, 7) = n % 10
    BY <1>1, SMT DEF DigitAt
  <1>6. t.int = z
    BY FromStroopsDigits, SMT DEF t, StroopsPerUnit
  <1> HIDE DEF z, a, b, c, d, e, f
  <1>7. /\ 10 * z + DigitIn(t, 1) = a /\ 10 * a + DigitIn(t, 2) = b
        /\ 10 * b + DigitIn(t, 3) = c /\ 10 * c + DigitIn(t, 4) = d
        /\ 10 * d + DigitIn(t, 5) = e /\ 10 * e + DigitIn(t, 6) = f
        /\ 10 * f + DigitIn(t, 7) = n
    BY <1>2, <1>3, <1>4, <1>5, DivideOnce, SMT
  <1>8. Value(t) = n
    BY <1>6, <1>7, ValueByDigits, Zenon
  <1>9. QED
    BY <1>8, FromStroopsDigits DEF t

---------------------------------------------------------------------------------

\* Whoever has a transaction to submit was shown it.
ShownTyped == \A w \in Wishes : HasTx(w) => shown[w] \in Prepared

\* What prepare has checked holds while it waits for loadAccount.
ResolvedSound ==
    \A w \in Wishes : step[w] = "resolved" =>
        address[w] \in Accounts /\ address[w] # Wish[w].source /\ Matches(Wish[w].amount)

SInv == TypeOK /\ ShownTyped /\ ResolvedSound /\ ShownIsPaid

\* The part of ShownIsPaid about one wish.
PaysShown(p, w) ==
    LET pays == p.tx.payments
    IN /\ Matches(Wish[w].amount)
       /\ Len(pays) = 2
       /\ pays[1].to = p.address /\ pays[2].to = Treasury
       /\ p.address # Wish[w].source
       /\ Value(pays[1].amount) = Value(Wish[w].amount)
       /\ Value(pays[1].amount) = Value(p.amount)
       /\ Value(pays[2].amount) = Value(p.fee)
       /\ Value(p.total) = Value(pays[1].amount) + Value(pays[2].amount)

LEMMA ShownIsPaidByWish ==
    ShownIsPaid <=>
        \A w \in Wishes : Wish[w].via = "send" /\ shown[w] # Nothing => PaysShown(shown[w], w)
  BY DEF ShownIsPaid, PaysShown, Tx

LEMMA WishTyped ==
    ASSUME NEW w \in Wishes
    PROVE  /\ Wish[w].source \in Accounts
           /\ Wish[w].amount \in Text
           /\ Wish[w].to \in Accounts \cup Aliases
  BY WishAssumption

\* Amount and fee are numbers of stroops, and the amount is the one asked for.
LEMMA AmountsTyped ==
    ASSUME NEW w \in Wishes
    PROVE  /\ Amount(w) \in Nat /\ FeeOf(w) \in Nat
           /\ Amount(w) = Value(Wish[w].amount)
  <1>1. Amount(w) \in Nat /\ Amount(w) = Value(Wish[w].amount)
    BY WishTyped, ToStroopsRight DEF Amount
  <1>2. FeeBps(FeePercent) \in Nat
    BY FeeAssumption DEF FeeBps
  <1>3. \A x, y \in Nat : (x * y) \div 10000 \in Nat
    <2>1. \A x, y \in Nat : x * y \in Nat
      BY SMT
    <2>2. \A z \in Nat : z \div 10000 \in Nat
      BY SMT
    <2>3. QED
      BY <2>1, <2>2
  <1>4. QED
    BY <1>1, <1>2, <1>3 DEF FeeOf, Fee

\* The answer of prepare, and that it names what the transaction pays.
PreparedFor(w) ==
    [address |-> address[w],
     amount |-> FromStroops(Amount(w)),
     fee |-> FromStroops(FeeOf(w)),
     total |-> FromStroops(Amount(w) + FeeOf(w)),
     tx |-> SendTransaction(w, address[w])]

LEMMA PreparedRight ==
    ASSUME TypeOK, NEW w \in Wishes, address[w] \in Accounts, address[w] # Wish[w].source,
           Matches(Wish[w].amount)
    PROVE  PreparedFor(w) \in Prepared /\ PaysShown(PreparedFor(w), w)
  <1> DEFINE x == FromStroops(Amount(w))
             y == FromStroops(FeeOf(w))
             z == FromStroops(Amount(w) + FeeOf(w))
             p == <<[to |-> address[w], amount |-> x], [to |-> Treasury, amount |-> y]>>
  <1>1. /\ Amount(w) \in Nat /\ FeeOf(w) \in Nat /\ Amount(w) + FeeOf(w) \in Nat
        /\ Amount(w) = Value(Wish[w].amount)
    BY AmountsTyped
  <1>2. /\ x \in Text /\ Value(x) = Amount(w)
        /\ y \in Text /\ Value(y) = FeeOf(w)
        /\ z \in Text /\ Value(z) = Amount(w) + FeeOf(w)
    BY <1>1, RoundTrip
  <1>3. Treasury \in Accounts /\ Wish[w].source \in Accounts /\ Lifetime["send"] \in Nat
    BY AccountsAssumption, WishTyped, LifetimeAssumption
  <1> HIDE DEF x, y, z
  <1>4. /\ p \in Seq([to: Accounts, amount: Text]) /\ Len(p) = 2
        /\ p[1].to = address[w] /\ p[1].amount = x
        /\ p[2].to = Treasury /\ p[2].amount = y
    BY <1>2, <1>3
  <1> HIDE DEF p
  <1>5. /\ SendTransaction(w, address[w]) =
              [wish |-> w, source |-> Wish[w].source, sequence |-> sequence[Wish[w].source] + 1,
               deadline |-> now + Lifetime["send"], payments |-> p]
        /\ PreparedFor(w) = [address |-> address[w], amount |-> x, fee |-> y, total |-> z,
                             tx |-> SendTransaction(w, address[w])]
    BY DEF SendTransaction, PreparedFor, p, x, y, z
  <1>6. SendTransaction(w, address[w]) \in Transaction
            /\ SendTransaction(w, address[w]).payments = p
    <2>1. sequence[Wish[w].source] + 1 \in Nat /\ now + Lifetime["send"] \in Nat
      BY <1>3 DEF TypeOK
    <2>2. QED
      BY <1>3, <1>4, <1>5, <2>1 DEF Transaction
  <1>7. PreparedFor(w) \in Prepared
    BY <1>2, <1>5, <1>6 DEF Prepared
  <1>8. /\ PreparedFor(w).tx.payments = p /\ PreparedFor(w).address = address[w]
        /\ PreparedFor(w).amount = x /\ PreparedFor(w).fee = y /\ PreparedFor(w).total = z
    BY <1>5, <1>6
  <1>9. PaysShown(PreparedFor(w), w)
    BY <1>1, <1>2, <1>4, <1>8 DEF PaysShown
  <1>10. QED
    BY <1>7, <1>9

\* Every answer of Horizon becomes a message or an error.
LEMMA ToldTyped ==
    ASSUME NEW w, NEW t, NEW code \in Codes(t) \cup {Code("none", <<>>)}
    PROVE  Told(w, code) \in Answers
  <1>1. Known(code) # {} => \E i \in Known(code) : \A j \in Known(code) : i <= j
    <2>1. Known(code) \subseteq {1, 2}
      <3>1. CASE code \in OperationFailures
        BY <3>1 DEF OperationFailures, Code, Known
      <3>2. CASE code.operations = << >>
        BY <3>2 DEF Known
      <3>3. QED
        BY <3>1, <3>2 DEF Codes, Code
    <2>2. QED
      BY <2>1
  <1>2. Known(code) # {} => FirstKnown(code) \in Known(code)
    BY <1>1 DEF FirstKnown
  <1>3. \A c \in DOMAIN OperationErrorMessages : OperationErrorMessages[c] \in Answers
    <2>1. DOMAIN OperationErrorMessages = {"op_no_trust", "op_underfunded"}
      BY DEF OperationErrorMessages
    <2>2. /\ OperationErrorMessages["op_no_trust"] = "no trustline"
          /\ OperationErrorMessages["op_underfunded"] = "underfunded"
      BY DEF OperationErrorMessages
    <2>3. QED
      BY <2>1, <2>2 DEF Answers, Failures
  <1>4. \A c \in DOMAIN TransactionErrorMessages : TransactionErrorMessages[c] \in Answers
    <2>1. DOMAIN TransactionErrorMessages =
              {"tx_insufficient_balance", "tx_bad_auth", "tx_bad_auth_extra", "tx_too_late",
               "tx_too_early"}
      BY DEF TransactionErrorMessages
    <2>2. /\ TransactionErrorMessages["tx_insufficient_balance"] = "underfunded"
          /\ TransactionErrorMessages["tx_bad_auth"] = "bad signature"
          /\ TransactionErrorMessages["tx_bad_auth_extra"] = "bad signature"
          /\ TransactionErrorMessages["tx_too_late"] = "expired"
          /\ TransactionErrorMessages["tx_too_early"] = "expired"
      BY DEF TransactionErrorMessages
    <2>3. QED
      BY <2>1, <2>2 DEF Answers, Failures
  <1>5. Known(code) # {} =>
            OperationErrorMessages[code.operations[FirstKnown(code)]] \in Answers
    BY <1>2, <1>3 DEF Known
  <1>6. {"could not be submitted", "rejected", "error"} \subseteq Answers
    BY DEF Answers, Failures
  <1>7. QED
    BY <1>4, <1>5, <1>6 DEF Told, DescribeHorizonError

\* The wish moves on and what it was shown stays.
LEMMA MovesOn ==
    ASSUME SInv, NEW w \in Wishes, NEW s \in Answers \cup {"waiting"}, HasTx(w),
           step' = [step EXCEPT ![w] = s], UNCHANGED <<owner, sequence, now, address, shown>>,
           pending' \in SUBSET Transaction, UNCHANGED <<executed, failed>>
    PROVE  SInv'
  <1>1. /\ step \in [Wishes -> {"start", "resolved", "prepared", "waiting"} \cup Answers]
        /\ step' = [step EXCEPT ![w] = s] /\ s \notin {"start", "resolved"}
    BY DEF SInv, TypeOK, Answers, Failures
  <1>2. step' \in [Wishes -> {"start", "resolved", "prepared", "waiting"} \cup Answers]
    BY <1>1
  <1>3. TypeOK'
    BY <1>2 DEF SInv, TypeOK
  <1>4. ShownTyped' /\ ResolvedSound'
    BY <1>1 DEF SInv, ShownTyped, ResolvedSound, HasTx
  <1>5. ShownIsPaid'
    BY DEF SInv, ShownIsPaid, Tx
  <1>6. QED
    BY <1>3, <1>4, <1>5 DEF SInv

\* Nothing the clients hold changes.
LEMMA ClientsSame ==
    ASSUME SInv, UNCHANGED <<step, address, shown>>, TypeOK'
    PROVE  SInv'
  BY DEF SInv, ShownTyped, ResolvedSound, HasTx, ShownIsPaid, Tx

LEMMA PrepareResolveSound ==
    ASSUME SInv, NEW w \in Wishes, PrepareResolve(w)
    PROVE  SInv'
  <1> DEFINE x == Resolve(Wish[w].to)
  <1>1. x \in Accounts /\ x # Wish[w].source /\ Matches(Wish[w].amount)
    BY WishTyped DEF PrepareResolve, Resolve, SInv, TypeOK
  <1>2. /\ step' = [step EXCEPT ![w] = "resolved"]
        /\ address' = [address EXCEPT ![w] = x]
        /\ shown' = [shown EXCEPT ![w] = Nothing]
        /\ UNCHANGED <<owner, sequence, pending, executed, failed, now>>
    BY DEF PrepareResolve, networkVars
  <1> HIDE DEF x
  <1>3. TypeOK'
    <2>1. step' \in [Wishes -> {"start", "resolved", "prepared", "waiting"} \cup Answers]
      BY <1>2 DEF SInv, TypeOK
    <2>2. address' \in [Wishes -> Accounts \cup {Nobody}]
      BY <1>1, <1>2 DEF SInv, TypeOK
    <2>3. shown' \in [Wishes -> Prepared \cup {Nothing}]
      BY <1>2 DEF SInv, TypeOK
    <2>4. QED
      BY <1>2, <2>1, <2>2, <2>3 DEF SInv, TypeOK
  <1>4. /\ step'[w] = "resolved" /\ address'[w] = x /\ shown'[w] = Nothing
        /\ \A v \in Wishes \ {w} :
              step'[v] = step[v] /\ address'[v] = address[v] /\ shown'[v] = shown[v]
    BY <1>2 DEF SInv, TypeOK
  <1>5. ShownTyped' /\ ResolvedSound'
    BY <1>1, <1>4 DEF SInv, ShownTyped, ResolvedSound, HasTx
  <1>6. ShownIsPaid'
    BY <1>4 DEF SInv, ShownIsPaid, Tx
  <1>7. QED
    BY <1>3, <1>5, <1>6 DEF SInv

LEMMA PrepareBuildSound ==
    ASSUME SInv, NEW w \in Wishes, PrepareBuild(w)
    PROVE  SInv'
  <1>1. PreparedFor(w) \in Prepared /\ PaysShown(PreparedFor(w), w)
    BY PreparedRight DEF PrepareBuild, SInv, ResolvedSound
  <1>2. /\ step' = [step EXCEPT ![w] = "prepared"]
        /\ address' = [address EXCEPT ![w] = Nobody]
        /\ shown' = [shown EXCEPT ![w] = PreparedFor(w)]
        /\ UNCHANGED <<owner, sequence, pending, executed, failed, now>>
    BY DEF PrepareBuild, PreparedFor, networkVars
  <1>3. TypeOK'
    <2>1. step' \in [Wishes -> {"start", "resolved", "prepared", "waiting"} \cup Answers]
      BY <1>2 DEF SInv, TypeOK
    <2>2. address' \in [Wishes -> Accounts \cup {Nobody}]
      BY <1>2 DEF SInv, TypeOK
    <2>3. shown' \in [Wishes -> Prepared \cup {Nothing}]
      BY <1>1, <1>2 DEF SInv, TypeOK
    <2>4. QED
      BY <1>2, <2>1, <2>2, <2>3 DEF SInv, TypeOK
  <1>4. /\ step'[w] = "prepared" /\ shown'[w] = PreparedFor(w)
        /\ \A v \in Wishes \ {w} :
              step'[v] = step[v] /\ address'[v] = address[v] /\ shown'[v] = shown[v]
    BY <1>2 DEF SInv, TypeOK
  <1>5. ShownTyped' /\ ResolvedSound'
    BY <1>1, <1>4 DEF SInv, ShownTyped, ResolvedSound, HasTx
  <1>6. \A v \in Wishes :
            Wish[v].via = "send" /\ shown'[v] # Nothing => PaysShown(shown'[v], v)
    BY <1>1, <1>4, ShownIsPaidByWish DEF SInv
  <1>7. ShownIsPaid'
    BY <1>6 DEF ShownIsPaid, PaysShown, Tx
  <1>8. QED
    BY <1>3, <1>5, <1>7 DEF SInv

LEMMA PrepareFailsSound ==
    ASSUME SInv, NEW w \in Wishes, PrepareFails(w)
    PROVE  SInv'
  <1>1. /\ step' = [step EXCEPT ![w] = "start"]
        /\ address' = [address EXCEPT ![w] = Nobody]
        /\ UNCHANGED <<owner, sequence, pending, executed, failed, now, shown>>
    BY DEF PrepareFails, networkVars
  <1>2. TypeOK'
    <2>1. step' \in [Wishes -> {"start", "resolved", "prepared", "waiting"} \cup Answers]
      BY <1>1 DEF SInv, TypeOK
    <2>2. address' \in [Wishes -> Accounts \cup {Nobody}]
      BY <1>1 DEF SInv, TypeOK
    <2>3. QED
      BY <1>1, <2>1, <2>2 DEF SInv, TypeOK
  <1>3. /\ step'[w] = "start"
        /\ \A v \in Wishes \ {w} : step'[v] = step[v] /\ address'[v] = address[v]
    BY <1>1 DEF SInv, TypeOK
  <1>4. ShownTyped' /\ ResolvedSound'
    BY <1>1, <1>3 DEF SInv, ShownTyped, ResolvedSound, HasTx
  <1>5. ShownIsPaid'
    BY <1>1 DEF SInv, ShownIsPaid, Tx
  <1>6. QED
    BY <1>2, <1>4, <1>5 DEF SInv

LEMMA SendPaymentLoadSound ==
    ASSUME SInv, NEW w \in Wishes, SendPaymentLoad(w)
    PROVE  SInv'
  <1> DEFINE p == <<[to |-> Wish[w].to, amount |-> Wish[w].amount]>>
             t == [wish |-> w, source |-> Signer, sequence |-> sequence[Signer] + 1,
                   deadline |-> now + Lifetime["pay"], payments |-> p]
             q == [address |-> Wish[w].to, amount |-> Wish[w].amount,
                   fee |-> FromStroops(0), total |-> Wish[w].amount, tx |-> t]
  <1>1. /\ Wish[w].via = "pay"
        /\ step' = [step EXCEPT ![w] = "waiting"]
        /\ shown' = [shown EXCEPT ![w] = q]
        /\ UNCHANGED <<owner, sequence, pending, executed, failed, now, address>>
    BY DEF SendPaymentLoad, networkVars
  <1>2. /\ Wish[w].to \in Accounts /\ Wish[w].amount \in Text /\ FromStroops(0) \in Text
        /\ Signer \in Accounts /\ Lifetime["pay"] \in Nat
    BY <1>1, PayAssumption, WishTyped, RoundTrip, AccountsAssumption, LifetimeAssumption
  <1>3. p \in Seq([to: Accounts, amount: Text])
    BY <1>2
  <1> HIDE DEF p
  <1>4. sequence[Signer] + 1 \in Nat /\ now + Lifetime["pay"] \in Nat
    BY <1>2 DEF SInv, TypeOK
  <1>5. t \in Transaction
    BY <1>2, <1>3, <1>4 DEF Transaction
  <1> HIDE DEF t
  <1>6. q \in Prepared
    BY <1>2, <1>5 DEF Prepared
  <1> HIDE DEF q
  <1>7. TypeOK'
    <2>1. step' \in [Wishes -> {"start", "resolved", "prepared", "waiting"} \cup Answers]
      BY <1>1 DEF SInv, TypeOK
    <2>2. shown' \in [Wishes -> Prepared \cup {Nothing}]
      BY <1>1, <1>6 DEF SInv, TypeOK
    <2>3. QED
      BY <1>1, <2>1, <2>2 DEF SInv, TypeOK
  <1>8. /\ step'[w] = "waiting" /\ shown'[w] = q
        /\ \A v \in Wishes \ {w} : step'[v] = step[v] /\ shown'[v] = shown[v]
    BY <1>1 DEF SInv, TypeOK
  <1>9. ShownTyped' /\ ResolvedSound'
    BY <1>1, <1>6, <1>8 DEF SInv, ShownTyped, ResolvedSound, HasTx
  <1>10. ShownIsPaid'
    BY <1>1, <1>8 DEF SInv, ShownIsPaid, Tx
  <1>11. QED
    BY <1>7, <1>9, <1>10 DEF SInv

\* The transaction of a client that has one.
LEMMA TxTyped ==
    ASSUME SInv, NEW w \in Wishes, HasTx(w)
    PROVE  Tx(w) \in Transaction
  BY DEF SInv, ShownTyped, Prepared, Tx

\* Submitting and being answered moves the wish on.
LEMMA AnswerSound ==
    ASSUME SInv, NEW w \in Wishes,
           \/ Submit(w) \/ SubmitSucceeds(w) \/ SubmitFails(w)
           \/ SubmitTimesOut(w) \/ AnswerLost(w)
    PROVE  SInv'
  <1>1. HasTx(w)
    BY DEF Submit, SubmitSucceeds, SubmitFails, SubmitTimesOut, AnswerLost, HasTx, Answers, Failures
  <1>2. /\ UNCHANGED <<owner, sequence, now, address, shown, executed, failed>>
        /\ pending' \in {pending, pending \cup {Tx(w)}}
    BY DEF Submit, SubmitSucceeds, SubmitFails, SubmitTimesOut, AnswerLost, networkVars
  <1>3. pending' \in SUBSET Transaction
    BY <1>1, <1>2, TxTyped DEF SInv, TypeOK
  <1>4. \E s \in Answers \cup {"waiting"} : step' = [step EXCEPT ![w] = s]
    <2>1. CASE Submit(w) \/ SubmitSucceeds(w) \/ AnswerLost(w)
      BY <2>1 DEF Submit, SubmitSucceeds, AnswerLost, Answers
    <2>2. CASE SubmitFails(w)
      <3>1. PICK code \in Codes(Tx(w)) : step' = [step EXCEPT ![w] = Told(w, code)]
        BY <2>2 DEF SubmitFails
      <3>2. Told(w, code) \in Answers
        BY ToldTyped
      <3>3. QED
        BY <3>1, <3>2
    <2>3. CASE SubmitTimesOut(w)
      <3>1. Told(w, Code("none", <<>>)) \in Answers
        BY ToldNothing DEF Answers
      <3>2. QED
        BY <2>3, <3>1 DEF SubmitTimesOut
    <2>4. QED
      BY <2>1, <2>2, <2>3
  <1>5. PICK s \in Answers \cup {"waiting"} : step' = [step EXCEPT ![w] = s]
    BY <1>4
  <1>6. QED
    BY <1>1, <1>2, <1>3, <1>5, MovesOn

\* The network, the aliases and the time leave alone what the clients hold.
LEMMA OthersSound ==
    ASSUME SInv,
           \/ \E w \in Wishes : HorizonQueues(w)
           \/ \E t \in pending : Include(t) \/ Forget(t)
           \/ \E a \in Aliases, x \in Accounts \cup {Nobody} : Rename(a, x)
           \/ Tick
           \/ UNCHANGED vars
    PROVE  SInv'
  <1>1. UNCHANGED <<step, address, shown>>
    BY DEF HorizonQueues, Include, Forget, Rename, Tick, vars
  <1>2. TypeOK'
    <2>1. CASE \E w \in Wishes : HorizonQueues(w)
      <3>1. PICK w \in Wishes : HorizonQueues(w)
        BY <2>1
      <3>2. Tx(w) \in Transaction
        BY <3>1, TxTyped DEF HorizonQueues, HasTx
      <3>3. QED
        BY <3>1, <3>2 DEF HorizonQueues, SInv, TypeOK
    <2>2. CASE \E t \in pending : Include(t)
      <3>1. PICK t \in pending : Include(t)
        BY <2>2
      <3>2. t \in Transaction /\ t.source \in Accounts
        BY DEF SInv, TypeOK, Transaction
      <3>3. sequence' \in [Accounts -> Nat]
        BY <3>1, <3>2 DEF Include, SInv, TypeOK
      <3>4. QED
        BY <3>1, <3>2, <3>3 DEF Include, SInv, TypeOK
    <2>3. CASE \E t \in pending : Forget(t)
      BY <2>3 DEF Forget, SInv, TypeOK
    <2>4. CASE \E a \in Aliases, x \in Accounts \cup {Nobody} : Rename(a, x)
      BY <2>4 DEF Rename, networkVars, SInv, TypeOK
    <2>5. CASE Tick \/ UNCHANGED vars
      BY <2>5 DEF Tick, vars, networkVars, SInv, TypeOK
    <2>6. QED
      BY <2>1, <2>2, <2>3, <2>4, <2>5
  <1>3. QED
    BY <1>1, <1>2, ClientsSame

LEMMA InitSInv == Init => SInv
  BY DEF Init, SInv, TypeOK, ShownTyped, ResolvedSound, HasTx, ShownIsPaid

LEMMA NextSInv == SInv /\ [Next]_vars => SInv'
  <1> SUFFICES ASSUME SInv, [Next]_vars PROVE SInv'
    OBVIOUS
  <1>1. CASE \E w \in Wishes : WishStep(w)
    BY <1>1, PrepareResolveSound, PrepareBuildSound, PrepareFailsSound, SendPaymentLoadSound,
       AnswerSound, OthersSound DEF WishStep
  <1>2. CASE ~(\E w \in Wishes : WishStep(w))
    BY <1>2, OthersSound DEF Next
  <1>3. QED
    BY <1>1, <1>2

\* Every variable keeps its type: prepare never builds a transaction to an alias no user has,
\* and every answer of Horizon becomes one of describeHorizonError's messages.
THEOREM TypeCorrect == Spec => []TypeOK
  <1>1. SInv => TypeOK
    BY DEF SInv
  <1>2. QED
    BY <1>1, InitSInv, NextSInv, PTL DEF Spec

\* For every amount, fee percentage and change of the aliases during prepare, the transaction
\* buildUnsignedUsdcSend returns pays the recipient, the amount and the fee that prepare's
\* answer shows, and the amount is the one asked for to the stroop.
THEOREM ShownIsPaidHolds == Spec => []ShownIsPaid
  <1>1. SInv => ShownIsPaid
    BY DEF SInv
  <1>2. QED
    BY <1>1, InitSInv, NextSInv, PTL DEF Spec

=================================================================================
