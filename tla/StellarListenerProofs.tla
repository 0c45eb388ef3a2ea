-------------------------- MODULE StellarListenerProofs --------------------------
(***************************************************************************)
(* Proofs about StellarListener: its types, that the cursor passes no      *)
(* event the rows do not account for, and what the transaction of an event *)
(* can do to its row.                                                      *)
(*                                                                         *)
(* An event leaves the poll in five ways (passed over, dropped, rejected,  *)
(* applied, failed), and the cursor moves past it in all of them; so the   *)
(* invariant has to say why a dropped or a rejected event is accounted for *)
(* all the same.  That rests on the order in which a contract reports      *)
(* (LogOrdered, ReportsExclude) and on rows not being ahead of their       *)
(* contract (RowsReported).  A sync can write the row between the check of *)
(* processEvent and its transaction, so what the check established is kept *)
(* in terms of the status that will be written (CommitChecked).            *)
(***************************************************************************)
EXTENDS StellarListener, WellFoundedInduction, TLAPS

\* The rows account for the i-th event of the chain, or the poll is excused.
Accounted(i) ==
    \/ escrows[log[i].order] = NoRow
    \/ Reflects(log[i].order, log[i].event)
    \/ log[i].order \in excused

\* Ledgers are in order, and the log ends with the last closed one.
LedgersOrdered ==
    /\ \A i \in DOMAIN log : log[i].ledger <= ledger
    /\ \A i, j \in DOMAIN log : i < j => log[i].ledger <= log[j].ledger

\* The events a contract reports only after the escrow was funded.
AfterFunding == {"ESCROW_RELEASED", "ESCROW_REFUNDED", "ESCROW_DISPUTED"}

\* A contract reports these after it reported that it was funded.
LogOrdered ==
    \A i \in DOMAIN log : log[i].event \in AfterFunding =>
        \E j \in DOMAIN log :
            j < i /\ log[j].order = log[i].order /\ log[j].event = "ESCROW_FUNDED"

\* A contract ends in one way.
ReportsExclude ==
    \A o \in Orders :
        /\ "ESCROW_CANCELLED" \in Emitted(o) => "ESCROW_FUNDED" \notin Emitted(o)
        /\ "ESCROW_RELEASED" \in Emitted(o) =>
              "ESCROW_DISPUTED" \notin Emitted(o) /\ "ESCROW_REFUNDED" \notin Emitted(o)

\* A row is not ahead of its contract.
RowsReported ==
    \A o \in Orders :
        /\ escrows[o] # "pending"
        /\ escrows[o] \in {"funded", "fiat_sent"} => "ESCROW_FUNDED" \in Emitted(o)
        /\ escrows[o] = "disputed" => "ESCROW_DISPUTED" \in Emitted(o)
        /\ escrows[o] = "released" => "ESCROW_RELEASED" \in Emitted(o)
        /\ escrows[o] = "resolved" =>
              Emitted(o) \cap {"ESCROW_REFUNDED", "ESCROW_CANCELLED"} # {}

\* Neither the cursor nor the ledger a restart would begin at has passed an event that is
\* not accounted for, and no such event counts as processed.
PassedAccounted ==
    /\ \A i \in DOMAIN log : log[i].ledger < cursor => Accounted(i)
    /\ \A i \in DOMAIN log : log[i].ledger < saved => Accounted(i)
    /\ \A i \in seen : Accounted(i)

\* A poll asks for every contract with events to come.
TargetsComplete ==
    pc = "query" =>
        \A o \in Orders \ targets : escrows[o] \in {NoRow, "released", "resolved"} \/ o \in excused

\* What the RPC's answer covers is still to be processed or accounted for.
BatchComplete ==
    pc \in {"event", "commit"} =>
        /\ \A i \in batch : log[i].ledger <= answer
        /\ \A i \in DOMAIN log : log[i].ledger <= answer => i \in batch \/ Accounted(i)

\* The loop has been past the i-th event.
Behind(i) ==
    \/ log[i].ledger < cursor
    \/ log[i].ledger < saved
    \/ i \in seen
    \/ log[i].ledger <= answer /\ i \notin batch

\* processEvent made its check, and the status its transaction will write accounts for every
\* event of the order the loop has been past.
CommitChecked ==
    pc = "commit" =>
        /\ batch # {}
        /\ Parsed # Unrecognised
        /\ found \in ValidTransitions[Parsed] \ {"pending"}
        /\ \A i \in DOMAIN log : log[i].order = Current.order /\ Behind(i) =>
              Accounts(EscrowStatusOf[Parsed], log[i].event) \/ log[i].order \in excused

\* A sync under way is about a row, and one that was answered about what has happened.
SyncsReported ==
    \A r \in Requests :
        /\ syncs[r] \in {"sending", "answered"} => escrows[r[1]] # NoRow
        /\ syncs[r] = "answered" /\ r[2] # "release" => "ESCROW_FUNDED" \in Emitted(r[1])
        /\ syncs[r] = "answered" /\ r[2] = "release" => "ESCROW_RELEASED" \in Emitted(r[1])

IInv ==
    /\ TypeOK
    /\ LedgersOrdered
    /\ LogOrdered
    /\ ReportsExclude
    /\ RowsReported
    /\ PassedAccounted
    /\ TargetsComplete
    /\ BatchComplete
    /\ CommitChecked
    /\ SyncsReported

---------------------------------------------------------------------------------
(* What the parser makes of an event *)

LEMMA WordsOfEvent ==
    /\ WordsOf["ESCROW_CREATED"] = {"CREATED"}
    /\ WordsOf["ESCROW_FUNDED"] = {"FUND"}
    /\ WordsOf["ESCROW_RELEASED"] = {"RELEASE"}
    /\ WordsOf["ESCROW_REFUNDED"] = {"REFUND"}
    /\ WordsOf["ESCROW_CANCELLED"] = {"CANCEL"}
    /\ WordsOf["ESCROW_DISPUTED"] = {"DISPUTE"}
    /\ WordsOf["MILESTONE_CHANGED"] = {"MILESTONE"}
  BY DEF WordsOf, ChainEvent, EventType

LEMMA Keywords ==
    /\ DOMAIN ResolutionOrder = 1..6
    /\ ResolutionOrder[1] = <<{"INITIALIZE", "CREATED"}, "ESCROW_CREATED">>
    /\ ResolutionOrder[2] = <<{"REFUND"}, "ESCROW_REFUNDED">>
    /\ ResolutionOrder[3] = <<{"FUND"}, "ESCROW_FUNDED">>
    /\ ResolutionOrder[4] = <<{"RELEASE"}, "ESCROW_RELEASED">>
    /\ ResolutionOrder[5] = <<{"CANCEL"}, "ESCROW_CANCELLED">>
    /\ ResolutionOrder[6] = <<{"DISPUTE"}, "ESCROW_DISPUTED">>
  BY DEF ResolutionOrder

\* The keywords of resolveEventType that a text contains, by their place in its list.
Hits(words) == {i \in 1..6 : ResolutionOrder[i][1] \cap Substrings(words) # {}}

LEMMA ResolveByHits ==
    ASSUME NEW words, NEW k \in 1..6, k \in Hits(words), \A i \in Hits(words) : k <= i
    PROVE  ResolveEventType(words) = ResolutionOrder[k][2]
  <1>1. {i \in DOMAIN ResolutionOrder : ResolutionOrder[i][1] \cap Substrings(words) # {}} = Hits(words)
    BY Keywords DEF Hits
  <1>2. Min(Hits(words)) = k
    <2>1. \A i \in Hits(words) : (\A j \in Hits(words) : i <= j) => i = k
      BY DEF Hits
    <2>2. QED
      BY <2>1 DEF Min
  <1>3. QED
    BY <1>1, <1>2 DEF ResolveEventType

LEMMA ParsedByWords ==
    /\ ParseEvent["ESCROW_CREATED"] = ResolveEventType(WordsOf["ESCROW_CREATED"])
    /\ ParseEvent["ESCROW_FUNDED"] = ResolveEventType(WordsOf["ESCROW_FUNDED"])
    /\ ParseEvent["ESCROW_RELEASED"] = ResolveEventType(WordsOf["ESCROW_RELEASED"])
    /\ ParseEvent["ESCROW_REFUNDED"] = ResolveEventType(WordsOf["ESCROW_REFUNDED"])
    /\ ParseEvent["ESCROW_CANCELLED"] = ResolveEventType(WordsOf["ESCROW_CANCELLED"])
    /\ ParseEvent["ESCROW_DISPUTED"] = ResolveEventType(WordsOf["ESCROW_DISPUTED"])
    /\ ParseEvent["MILESTONE_CHANGED"] = ResolveEventType(WordsOf["MILESTONE_CHANGED"])
  <1>1. \A e \in ChainEvent : ParseEvent[e] = ResolveEventType(WordsOf[e])
    BY DEF ParseEvent
  <1>2. QED
    BY <1>1 DEF ChainEvent, EventType

\* Although a text with REFUND also contains FUND, every event the listener knows is taken
\* for what it is, and a change of a milestone for nothing.
LEMMA ParsedRight ==
    /\ \A e \in EventType : ParseEvent[e] = e
    /\ ParseEvent["MILESTONE_CHANGED"] = Unrecognised
  <1>1. ParseEvent["ESCROW_CREATED"] = "ESCROW_CREATED"
    <2>1. Substrings({"CREATED"}) = {"CREATED"}
      BY DEF Substrings
    <2>2. Hits({"CREATED"}) = {1}
      BY <2>1, Keywords DEF Hits
    <2>3. QED
      BY <2>2, ResolveByHits, WordsOfEvent, Keywords, ParsedByWords
  <1>2. ParseEvent["ESCROW_REFUNDED"] = "ESCROW_REFUNDED"
    <2>1. Substrings({"REFUND"}) = {"REFUND", "FUND"}
      BY DEF Substrings
    <2>2. Hits({"REFUND"}) = {2, 3}
      BY <2>1, Keywords DEF Hits
    <2>3. QED
      BY <2>2, ResolveByHits, WordsOfEvent, Keywords, ParsedByWords
  <1>3. ParseEvent["ESCROW_FUNDED"] = "ESCROW_FUNDED"
    <2>1. Substrings({"FUND"}) = {"FUND"}
      BY DEF Substrings
    <2>2. Hits({"FUND"}) = {3}
      BY <2>1, Keywords DEF Hits
    <2>3. QED
      BY <2>2, ResolveByHits, WordsOfEvent, Keywords, ParsedByWords
  <1>4. ParseEvent["ESCROW_RELEASED"] = "ESCROW_RELEASED"
    <2>1. Substrings({"RELEASE"}) = {"RELEASE"}
      BY DEF Substrings
    <2>2. Hits({"RELEASE"}) = {4}
      BY <2>1, Keywords DEF Hits
    <2>3. QED
      BY <2>2, ResolveByHits, WordsOfEvent, Keywords, ParsedByWords
  <1>5. ParseEvent["ESCROW_CANCELLED"] = "ESCROW_CANCELLED"
    <2>1. Substrings({"CANCEL"}) = {"CANCEL"}
      BY DEF Substrings
    <2>2. Hits({"CANCEL"}) = {5}
      BY <2>1, Keywords DEF Hits
    <2>3. QED
      BY <2>2, ResolveByHits, WordsOfEvent, Keywords, ParsedByWords
  <1>6. ParseEvent["ESCROW_DISPUTED"] = "ESCROW_DISPUTED"
    <2>1. Substrings({"DISPUTE"}) = {"DISPUTE"}
      BY DEF Substrings
    <2>2. Hits({"DISPUTE"}) = {6}
      BY <2>1, Keywords DEF Hits
    <2>3. QED
      BY <2>2, ResolveByHits, WordsOfEvent, Keywords, ParsedByWords
  <1>7. ParseEvent["MILESTONE_CHANGED"] = Unrecognised
    <2>1. Substrings({"MILESTONE"}) = {"MILESTONE"}
      BY DEF Substrings
    <2>2. Hits({"MILESTONE"}) = {}
      BY <2>1, Keywords DEF Hits
    <2>3. {i \in DOMAIN ResolutionOrder :
              ResolutionOrder[i][1] \cap Substrings({"MILESTONE"}) # {}} = {}
      BY <2>2, Keywords DEF Hits
    <2>4. QED
      BY <2>3, WordsOfEvent, ParsedByWords DEF ResolveEventType
  <1>8. QED
    BY <1>1, <1>2, <1>3, <1>4, <1>5, <1>6, <1>7 DEF EventType

---------------------------------------------------------------------------------
(* The event the loop has come to *)

LEMMA LeastExists ==
    ASSUME NEW S, S \subseteq Nat, S # {}
    PROVE  \E x \in S : \A y \in S : x <= y
  <1>1. PICK x \in S : \A y \in S : ~(<<y, x>> \in OpToRel(<, Nat))
    BY NatLessThanWellFounded, WFMin
  <1>2. ASSUME NEW y \in S PROVE x <= y
    <2>1. ASSUME y < x PROVE <<y, x>> \in OpToRel(<, Nat)
      BY <2>1 DEF OpToRel
    <2>2. ~(y < x)
      BY <1>1, <2>1
    <2>3. QED
      BY <2>2
  <1>3. QED
    BY <1>2

LEMMA PositionFirst ==
    ASSUME TypeOK, batch # {}
    PROVE  /\ Position \in batch
           /\ Position \in DOMAIN log
           /\ \A i \in batch : Position <= i
  <1>1. batch \subseteq Nat /\ batch \subseteq DOMAIN log
    BY DEF TypeOK
  <1>2. QED
    BY <1>1, LeastExists DEF Position, Min

LEMMA LedgersTyped ==
    ASSUME TypeOK
    PROVE  /\ MaxLedger \in Nat /\ ledger \in Nat /\ ledger <= MaxLedger
           /\ cursor \in Nat /\ cursor <= ledger
           /\ saved \in Nat /\ saved <= ledger
           /\ answer \in Nat /\ answer <= ledger
  BY BoundsAssumption DEF TypeOK

LEMMA LogTyped ==
    ASSUME TypeOK, NEW i \in DOMAIN log
    PROVE  /\ log[i] \in Event
           /\ log[i].ledger \in 1..MaxLedger /\ log[i].ledger \in Nat
           /\ log[i].order \in Orders
           /\ log[i].event \in ChainEvent
           /\ i \in Nat
  <1>1. log \in Seq(Event)
    BY DEF TypeOK
  <1>2. log[i] \in Event /\ i \in Nat
    BY <1>1
  <1>3. QED
    BY <1>2 DEF Event

\* What the listener takes the current event for is what it is.
LEMMA CurrentParsed ==
    ASSUME TypeOK, batch # {}
    PROVE  /\ Current.order \in Orders
           /\ Current.ledger \in 1..MaxLedger
           /\ Current.event \in ChainEvent
           /\ Parsed # Unrecognised => Parsed \in EventType /\ Current.event = Parsed
           /\ Parsed = Unrecognised => Current.event = "MILESTONE_CHANGED"
  <1>1. Position \in DOMAIN log
    BY PositionFirst
  <1>2. Current \in Event /\ Current.order \in Orders /\ Current.ledger \in 1..MaxLedger
            /\ Current.event \in ChainEvent
    BY <1>1, LogTyped DEF Current
  <1>3. Unrecognised \notin EventType
    BY DEF Unrecognised, EventType
  <1>4. QED
    BY <1>2, <1>3, ParsedRight DEF Parsed, ChainEvent

---------------------------------------------------------------------------------
(* Steps of the chain *)

\* What a contract may have in the next ledger.
Lawful(o, e) == MayEmit(o, e) \/ e \in {"ESCROW_CREATED", "MILESTONE_CHANGED"}

\* The log grows by a ledger, with at most one event of each contract.
ChainStep ==
    /\ ledger < MaxLedger
    /\ ledger' = ledger + 1
    /\ log' \in Seq(Event)
    /\ DOMAIN log \subseteq DOMAIN log'
    /\ \A i \in DOMAIN log : log'[i] = log[i]
    /\ \A i \in DOMAIN log' \ DOMAIN log :
          /\ log'[i].ledger = ledger + 1
          /\ Lawful(log'[i].order, log'[i].event)
          /\ \A j \in DOMAIN log : j < i
    /\ \A i, j \in DOMAIN log' \ DOMAIN log : log'[i].order = log'[j].order => i = j

LEMMA CloseIsStep ==
    ASSUME TypeOK, NEW evs \in Seq(Event), Close(evs),
           \A k \in DOMAIN evs :
              evs[k].ledger = ledger + 1 /\ Lawful(evs[k].order, evs[k].event),
           \A k, l \in DOMAIN evs : evs[k].order = evs[l].order => k = l
    PROVE  ChainStep
  <1>1. log \in Seq(Event) /\ log' = log \o evs
    BY DEF TypeOK, Close
  <1>2. log' \in Seq(Event) /\ DOMAIN log \subseteq DOMAIN log' /\ \A i \in DOMAIN log : log'[i] = log[i]
    BY <1>1
  <1>3. ASSUME NEW i \in DOMAIN log' \ DOMAIN log
        PROVE  /\ i - Len(log) \in DOMAIN evs
               /\ log'[i] = evs[i - Len(log)]
               /\ \A j \in DOMAIN log : j < i
    BY <1>1
  <1>4. \A i, j \in DOMAIN log' \ DOMAIN log : log'[i].order = log'[j].order => i = j
    <2> SUFFICES ASSUME NEW i \in DOMAIN log' \ DOMAIN log, NEW j \in DOMAIN log' \ DOMAIN log,
                        log'[i].order = log'[j].order
                 PROVE  i = j
      OBVIOUS
    <2>1. i - Len(log) = j - Len(log)
      BY <1>3
    <2>2. i \in Nat /\ j \in Nat /\ Len(log) \in Nat
      BY <1>1, <1>2
    <2>3. QED
      BY <2>1, <2>2
  <1>5. QED
    BY <1>2, <1>3, <1>4 DEF ChainStep, Close

LEMMA EmittedGrows ==
    ASSUME TypeOK, ChainStep, NEW o
    PROVE  /\ Emitted(o) \subseteq Emitted(o)'
           /\ \A e \in Emitted(o)' \ Emitted(o) : Lawful(o, e)
           /\ \A e, f \in Emitted(o)' \ Emitted(o) : e = f
  <1>1. Emitted(o)' = {log'[i].event : i \in {j \in DOMAIN log' : log'[j].order = o}}
    BY DEF Emitted
  <1>2. Emitted(o) \subseteq Emitted(o)'
    BY <1>1 DEF Emitted, ChainStep
  <1>3. ASSUME NEW e \in Emitted(o)' \ Emitted(o)
        PROVE  \E i \in DOMAIN log' \ DOMAIN log : log'[i].order = o /\ log'[i].event = e
    BY <1>1 DEF Emitted, ChainStep
  <1>4. QED
    BY <1>2, <1>3 DEF ChainStep

LEMMA FundedFirst ==
    ASSUME LogOrdered, NEW o, Emitted(o) \cap AfterFunding # {}
    PROVE  "ESCROW_FUNDED" \in Emitted(o)
  BY DEF LogOrdered, Emitted

\* A ledger closes: the order of events, and what excludes what, stay.
LEMMA ChainKept ==
    ASSUME IInv, ChainStep
    PROVE  LedgersOrdered' /\ LogOrdered' /\ ReportsExclude'
  <1> USE DEF IInv
  <1>1. ledger \in Nat /\ MaxLedger \in Nat
    BY BoundsAssumption DEF TypeOK
  <1>2. \A i \in DOMAIN log : log[i].ledger \in Nat
    BY LogTyped
  <1>3. LedgersOrdered'
    <2>1. \A i \in DOMAIN log' : i \in Nat
      BY DEF ChainStep
    <2>2. ASSUME NEW i \in DOMAIN log' PROVE log'[i].ledger \in Nat /\ log'[i].ledger <= ledger'
      BY <1>1, <1>2 DEF LedgersOrdered, ChainStep
    <2>3. ASSUME NEW i \in DOMAIN log', NEW j \in DOMAIN log', i < j
          PROVE  log'[i].ledger <= log'[j].ledger
      <3>1. CASE j \in DOMAIN log
        <4>1. i \in DOMAIN log
          BY <2>1, <2>3, <3>1 DEF ChainStep, TypeOK
        <4>2. QED
          BY <2>3, <3>1, <4>1 DEF LedgersOrdered, ChainStep
      <3>2. CASE j \notin DOMAIN log
        BY <2>2, <3>2 DEF ChainStep
      <3>3. QED
        BY <3>1, <3>2
    <2>4. QED
      BY <2>2, <2>3 DEF LedgersOrdered
  <1>4. LogOrdered'
    <2> SUFFICES ASSUME NEW i \in DOMAIN log', log'[i].event \in AfterFunding
                 PROVE  \E j \in DOMAIN log' : j < i /\ log'[j].order = log'[i].order
                            /\ log'[j].event = "ESCROW_FUNDED"
      BY DEF LogOrdered, AfterFunding
    <2>1. CASE i \in DOMAIN log
      BY <2>1 DEF LogOrdered, ChainStep
    <2>2. CASE i \notin DOMAIN log
      <3>1. MayEmit(log'[i].order, log'[i].event)
        BY <2>2 DEF ChainStep, Lawful, AfterFunding
      <3>2. "ESCROW_FUNDED" \in Emitted(log'[i].order)
        BY <3>1 DEF MayEmit, AfterFunding
      <3>3. PICK j \in DOMAIN log : log[j].order = log'[i].order /\ log[j].event = "ESCROW_FUNDED"
        BY <3>2 DEF Emitted
      <3>4. QED
        BY <2>2, <3>3 DEF ChainStep
    <2>3. QED
      BY <2>1, <2>2
  <1>5. ReportsExclude'
    <2> SUFFICES ASSUME NEW o \in Orders
                 PROVE
                   /\ "ESCROW_CANCELLED" \in Emitted(o)' => "ESCROW_FUNDED" \notin Emitted(o)'
                   /\ "ESCROW_RELEASED" \in Emitted(o)' =>
                        "ESCROW_DISPUTED" \notin Emitted(o)' /\ "ESCROW_REFUNDED" \notin Emitted(o)'
      BY DEF ReportsExclude
    <2>1. /\ "ESCROW_CANCELLED" \in Emitted(o) => "ESCROW_FUNDED" \notin Emitted(o)
          /\ "ESCROW_RELEASED" \in Emitted(o) =>
               "ESCROW_DISPUTED" \notin Emitted(o) /\ "ESCROW_REFUNDED" \notin Emitted(o)
      BY DEF ReportsExclude
    <2>2. /\ \A e \in Emitted(o)' \ Emitted(o) : Lawful(o, e)
          /\ \A e, f \in Emitted(o)' \ Emitted(o) : e = f
      BY EmittedGrows
    <2>3. QED
      BY <2>1, <2>2 DEF Lawful, MayEmit, Settled
  <1>6. QED
    BY <1>3, <1>4, <1>5

---------------------------------------------------------------------------------
(* Which events a row accounts for *)

LEMMA Tables ==
    /\ ValidTransitions["fund"] = {"initialized"}
    /\ ValidTransitions["fiat_sent"] = {"funded"}
    /\ ValidTransitions["release"] = {"funded", "fiat_sent"}
    /\ ValidTransitions["ESCROW_CREATED"] = {"pending"}
    /\ ValidTransitions["ESCROW_FUNDED"] = {"initialized"}
    /\ ValidTransitions["ESCROW_RELEASED"] = {"funded", "fiat_sent"}
    /\ ValidTransitions["ESCROW_REFUNDED"] = {"funded", "fiat_sent", "disputed"}
    /\ ValidTransitions["ESCROW_CANCELLED"] = {"pending", "initialized"}
    /\ ValidTransitions["ESCROW_DISPUTED"] = {"funded", "fiat_sent"}
    /\ SyncedStatus["fund"] = "funded"
    /\ SyncedStatus["fiat_sent"] = "fiat_sent"
    /\ SyncedStatus["release"] = "released"
    /\ EscrowStatusOf["ESCROW_CREATED"] = "initialized"
    /\ EscrowStatusOf["ESCROW_FUNDED"] = "funded"
    /\ EscrowStatusOf["ESCROW_RELEASED"] = "released"
    /\ EscrowStatusOf["ESCROW_REFUNDED"] = "resolved"
    /\ EscrowStatusOf["ESCROW_CANCELLED"] = "resolved"
    /\ EscrowStatusOf["ESCROW_DISPUTED"] = "disputed"
  <1>1. /\ ValidTransitions["fund"] = {"initialized"}
        /\ ValidTransitions["fiat_sent"] = {"funded"}
        /\ ValidTransitions["release"] = {"funded", "fiat_sent"}
        /\ ValidTransitions["ESCROW_CREATED"] = {"pending"}
        /\ ValidTransitions["ESCROW_FUNDED"] = {"initialized"}
        /\ ValidTransitions["ESCROW_RELEASED"] = {"funded", "fiat_sent"}
        /\ ValidTransitions["ESCROW_REFUNDED"] = {"funded", "fiat_sent", "disputed"}
        /\ ValidTransitions["ESCROW_CANCELLED"] = {"pending", "initialized"}
        /\ ValidTransitions["ESCROW_DISPUTED"] = {"funded", "fiat_sent"}
    BY DEF ValidTransitions, SyncAction, EventType
  <1>2. /\ SyncedStatus["fund"] = "funded"
        /\ SyncedStatus["fiat_sent"] = "fiat_sent"
        /\ SyncedStatus["release"] = "released"
    BY DEF SyncedStatus, SyncAction
  <1>3. /\ EscrowStatusOf["ESCROW_CREATED"] = "initialized"
        /\ EscrowStatusOf["ESCROW_FUNDED"] = "funded"
        /\ EscrowStatusOf["ESCROW_RELEASED"] = "released"
        /\ EscrowStatusOf["ESCROW_REFUNDED"] = "resolved"
        /\ EscrowStatusOf["ESCROW_CANCELLED"] = "resolved"
        /\ EscrowStatusOf["ESCROW_DISPUTED"] = "disputed"
    BY DEF EscrowStatusOf, EventType
  <1>4. QED
    BY <1>1, <1>2, <1>3

\* A row that is released or resolved accounts for everything its contract has reported:
\* getTargetContractIds may leave it out.
LEMMA EndedAccounted ==
    ASSUME IInv, NEW i \in DOMAIN log,
           escrows[log[i].order] \in {NoRow, "released", "resolved"} \/ log[i].order \in excused
    PROVE  Accounted(i)
  <1> DEFINE o == log[i].order
             e == log[i].event
  <1>1. o \in Orders /\ e \in ChainEvent /\ e \in Emitted(o)
    BY LogTyped DEF Emitted, IInv
  <1>2. CASE escrows[o] = "released"
    <2>1. "ESCROW_RELEASED" \in Emitted(o)
      BY <1>1, <1>2 DEF IInv, RowsReported
    <2>2. "ESCROW_FUNDED" \in Emitted(o)
      BY <2>1, FundedFirst DEF IInv, AfterFunding
    <2>3. e \notin {"ESCROW_DISPUTED", "ESCROW_REFUNDED", "ESCROW_CANCELLED"}
      BY <1>1, <2>1, <2>2 DEF IInv, ReportsExclude
    <2>4. QED
      BY <1>1, <1>2, <2>3 DEF Accounted, Reflects, Accounts, ChainEvent, EventType
  <1>3. CASE escrows[o] = "resolved"
    <2>1. Emitted(o) \cap {"ESCROW_REFUNDED", "ESCROW_CANCELLED"} # {}
      BY <1>1, <1>3 DEF IInv, RowsReported
    <2>2. "ESCROW_RELEASED" \notin Emitted(o)
      BY <1>1, <2>1, FundedFirst DEF IInv, ReportsExclude, AfterFunding
    <2>3. QED
      BY <1>1, <1>3, <2>2 DEF Accounted, Reflects, Accounts, ChainEvent, EventType
  <1>4. QED
    BY <1>2, <1>3 DEF Accounted

\* Dropped or rejected, an event that validateStatusTransition does not let pass is accounted
\* for: the row is already past it, or has missed an earlier event and is excused.
LEMMA NotAppliedAccounted ==
    ASSUME IInv, pc = "event", batch # {}, Parsed # Unrecognised,
           escrows[Current.order] \notin ValidTransitions[Parsed]
    PROVE  Accounted(Position)
  <1> DEFINE o == Current.order
  <1>1. /\ o \in Orders /\ Parsed \in EventType /\ Current.event = Parsed
        /\ Position \in DOMAIN log /\ Position \in batch /\ \A i \in batch : Position <= i
    BY CurrentParsed, PositionFirst DEF IInv
  <1>2. Parsed \in Emitted(o)
    BY <1>1 DEF Emitted, Current
  <1>3. escrows[o] \in (EscrowRowStatus \ {"pending"}) \cup {NoRow}
    BY <1>1 DEF IInv, TypeOK, RowsReported
  <1> SUFFICES ASSUME escrows[o] # NoRow, o \notin excused
               PROVE  Reflects(o, Parsed)
    BY <1>1 DEF Accounted, Current
  <1>4. CASE escrows[o] \in {"released", "resolved"}
    BY <1>1, <1>4, EndedAccounted DEF Accounted, Current
  <1>5. CASE escrows[o] \in {"funded", "fiat_sent"}
    <2>1. "ESCROW_FUNDED" \in Emitted(o)
      BY <1>1, <1>5 DEF IInv, RowsReported
    <2>2. Parsed # "ESCROW_CANCELLED"
      BY <1>1, <1>2, <2>1 DEF IInv, ReportsExclude
    <2>3. QED
      BY <1>1, <1>5, <2>2, Tables DEF EventType, Reflects, Accounts
  <1>6. CASE escrows[o] = "disputed"
    <2>1. "ESCROW_DISPUTED" \in Emitted(o) /\ "ESCROW_FUNDED" \in Emitted(o)
      BY <1>1, <1>6, FundedFirst DEF IInv, RowsReported, AfterFunding
    <2>2. Parsed # "ESCROW_CANCELLED" /\ Parsed # "ESCROW_RELEASED"
      BY <1>1, <1>2, <2>1 DEF IInv, ReportsExclude
    <2>3. QED
      BY <1>1, <1>6, <2>2, Tables DEF EventType, Reflects, Accounts
  <1>7. CASE escrows[o] = "initialized"
    <2>1. Parsed \notin {"ESCROW_FUNDED", "ESCROW_CANCELLED"}
      BY <1>7, Tables
    <2>2. Parsed \notin AfterFunding
      <3> SUFFICES ASSUME Parsed \in AfterFunding PROVE FALSE
        OBVIOUS
      <3>1. PICK j \in DOMAIN log :
                j < Position /\ log[j].order = o /\ log[j].event = "ESCROW_FUNDED"
        BY <1>1 DEF IInv, LogOrdered, Current
      <3>2. j \notin batch
        BY <1>1, <3>1, LogTyped DEF IInv
      <3>3. log[j].ledger <= answer
        <4>1. log[j].ledger <= log[Position].ledger /\ log[Position].ledger <= answer
          BY <1>1, <3>1 DEF IInv, LedgersOrdered, BatchComplete
        <4>2. log[j].ledger \in Nat /\ log[Position].ledger \in Nat /\ answer \in Nat
          BY <1>1, <3>1, LogTyped, LedgersTyped DEF IInv
        <4>3. QED
          BY <4>1, <4>2
      <3>4. Accounted(j)
        BY <3>2, <3>3 DEF IInv, BatchComplete
      <3>5. QED
        BY <1>7, <3>1, <3>4 DEF Accounted, Reflects, Accounts, NoRow
    <2>3. Parsed = "ESCROW_CREATED"
      BY <1>1, <2>1, <2>2 DEF EventType, AfterFunding
    <2>4. QED
      BY <1>7, <2>3 DEF Reflects, Accounts
  <1>8. QED
    BY <1>3, <1>4, <1>5, <1>6, <1>7 DEF EscrowRowStatus

\* Changes of a status that drop no event it accounts for.
Keeping ==
    {<<"pending", "initialized">>, <<"pending", "resolved">>, <<"initialized", "resolved">>,
     <<"disputed", "resolved">>}
        \cup {"initialized", "funded", "fiat_sent"} \X {"funded", "fiat_sent", "released"}
        \cup {"funded", "fiat_sent"} \X {"disputed", "resolved"}

\* A status that changes so accounts for what it accounted for.
LEMMA KeepingAccounts ==
    ASSUME NEW s, NEW t, <<s, t>> \in Keeping, NEW e \in ChainEvent, Accounts(s, e)
    PROVE  Accounts(t, e)
  BY DEF Keeping, Accounts, ChainEvent, EventType

LEMMA ForwardKeeps ==
    ASSUME NEW i, log'[i] = log[i], log[i].event \in ChainEvent, excused \subseteq excused',
           \/ escrows'[log[i].order] = escrows[log[i].order]
           \/ <<escrows[log[i].order], escrows'[log[i].order]>> \in Keeping
           \/ log[i].order \in excused',
           Accounted(i)
    PROVE  Accounted(i)'
  <1> DEFINE o == log[i].order
             e == log[i].event
  <1>1. CASE escrows'[o] = escrows[o]
    BY <1>1 DEF Accounted, Reflects
  <1>2. CASE <<escrows[o], escrows'[o]>> \in Keeping
    <2>1. escrows[o] # NoRow
      BY <1>2 DEF Keeping, NoRow
    <2>2. CASE o \in excused
      BY <2>2 DEF Accounted
    <2>3. CASE Reflects(o, e)
      <3>1. Accounts(escrows'[o], e)
        BY <1>2, <2>3, KeepingAccounts DEF Reflects
      <3>2. QED
        BY <3>1 DEF Accounted, Reflects
    <2>4. QED
      BY <2>1, <2>2, <2>3 DEF Accounted
  <1>3. CASE o \in excused'
    BY <1>3 DEF Accounted
  <1>4. QED
    BY <1>1, <1>2, <1>3

---------------------------------------------------------------------------------
(* What steps of a kind have in common *)

LogSame == UNCHANGED <<log, ledger>>
LogGrows == ChainStep \/ LogSame

\* What was accounted for stays accounted for.
Kept == \A i \in DOMAIN log : Accounted(i) => Accounted(i)'

LEMMA PrefixSame ==
    ASSUME IInv, LogGrows
    PROVE  /\ DOMAIN log \subseteq DOMAIN log'
           /\ \A i \in DOMAIN log : log'[i] = log[i]
           /\ \A i \in DOMAIN log' \ DOMAIN log : log'[i].ledger = ledger + 1
           /\ \A o \in Orders : Emitted(o) \subseteq Emitted(o)'
  <1>1. CASE ChainStep
    BY <1>1, EmittedGrows DEF ChainStep, IInv
  <1>2. CASE LogSame
    BY <1>2 DEF LogSame, Emitted
  <1>3. QED
    BY <1>1, <1>2 DEF LogGrows

LEMMA LogInvKept ==
    ASSUME IInv, LogGrows
    PROVE  LedgersOrdered' /\ LogOrdered' /\ ReportsExclude'
  <1>1. CASE LogSame
    BY <1>1 DEF LogSame, IInv, LedgersOrdered, LogOrdered, ReportsExclude, Emitted
  <1>2. QED
    BY <1>1, ChainKept DEF LogGrows

\* Rows that do not change, or change forward, keep what they account for.
LEMMA KeptByForward ==
    ASSUME IInv, LogGrows, excused \subseteq excused',
           \A o \in Orders :
              escrows'[o] = escrows[o] \/ <<escrows[o], escrows'[o]>> \in Keeping \/ o \in excused'
    PROVE  Kept
  <1> SUFFICES ASSUME NEW i \in DOMAIN log, Accounted(i) PROVE Accounted(i)'
    BY DEF Kept
  <1>1. log[i].order \in Orders /\ log[i].event \in ChainEvent /\ log'[i] = log[i]
    BY LogTyped, PrefixSame DEF IInv
  <1>2. QED
    BY <1>1, ForwardKeeps

LEMMA PassedKept ==
    ASSUME IInv, LogGrows, Kept, cursor' \in {cursor, saved, 0}, saved' \in {saved, 0},
           seen' \subseteq seen
    PROVE  PassedAccounted'
  <1> USE DEF IInv
  <1>1. /\ cursor \in Nat /\ saved \in Nat /\ ledger \in Nat
        /\ cursor <= ledger /\ saved <= ledger
    BY LedgersTyped
  <1>2. ASSUME NEW i \in DOMAIN log', log'[i].ledger < cursor \/ log'[i].ledger < saved
        PROVE  Accounted(i)'
    <2>1. i \in DOMAIN log /\ log'[i] = log[i]
      BY <1>1, <1>2, PrefixSame
    <2>2. QED
      BY <1>2, <2>1 DEF Kept, PassedAccounted
  <1>3. \A i \in DOMAIN log' : log'[i].ledger \in Nat
    BY <1>1, LogTyped, PrefixSame
  <1>4. \A i \in DOMAIN log' : log'[i].ledger < cursor' => Accounted(i)'
    BY <1>2, <1>3
  <1>5. \A i \in DOMAIN log' : log'[i].ledger < saved' => Accounted(i)'
    BY <1>2, <1>3
  <1>6. \A i \in seen' : Accounted(i)'
    BY DEF Kept, PassedAccounted, TypeOK
  <1>7. QED
    BY <1>4, <1>5, <1>6 DEF PassedAccounted

LEMMA BatchKept ==
    ASSUME IInv, LogGrows, Kept,
           pc' \notin {"event", "commit"} \/ (pc \in {"event", "commit"} /\ UNCHANGED <<batch, answer>>)
    PROVE  BatchComplete'
  <1> USE DEF IInv
  <1> SUFFICES ASSUME pc \in {"event", "commit"}, UNCHANGED <<batch, answer>>
               PROVE  /\ \A i \in batch : log'[i].ledger <= answer
                      /\ \A i \in DOMAIN log' : log'[i].ledger <= answer => i \in batch \/ Accounted(i)'
    BY DEF BatchComplete
  <1>1. \A i \in batch : log'[i].ledger <= answer
    BY PrefixSame DEF BatchComplete, TypeOK
  <1>2. ASSUME NEW i \in DOMAIN log', log'[i].ledger <= answer PROVE i \in batch \/ Accounted(i)'
    <2>1. i \in DOMAIN log /\ log'[i] = log[i]
      BY <1>2, PrefixSame, LedgersTyped
    <2>2. QED
      BY <1>2, <2>1 DEF Kept, BatchComplete
  <1>3. QED
    BY <1>1, <1>2

LEMMA PositionKept ==
    ASSUME IInv, LogGrows, batch # {}, batch' = batch
    PROVE  Position' = Position /\ Current' = Current /\ Parsed' = Parsed
  <1>1. Position' = Position
    BY DEF Position
  <1>2. Current' = Current
    BY <1>1, PositionFirst, PrefixSame DEF Current, IInv
  <1>3. QED
    BY <1>1, <1>2 DEF Parsed

\* An event that is about to be applied, while the chain and the syncs go on.
LEMMA CommitKept ==
    ASSUME IInv, LogGrows, excused \subseteq excused', saved' \in {saved, 0},
           UNCHANGED <<pc, batch, answer, cursor, seen, found>>
    PROVE  CommitChecked'
  <1> SUFFICES ASSUME pc = "commit"
               PROVE  CommitChecked'
    BY DEF CommitChecked
  <1>1. /\ batch # {} /\ Parsed # Unrecognised
        /\ found \in ValidTransitions[Parsed] \ {"pending"}
        /\ \A i \in DOMAIN log : log[i].order = Current.order /\ Behind(i) =>
              Accounts(EscrowStatusOf[Parsed], log[i].event) \/ log[i].order \in excused
    BY DEF IInv, CommitChecked
  <1>2. Current' = Current /\ Parsed' = Parsed
    BY <1>1, PositionKept
  <1>3. ASSUME NEW i \in DOMAIN log', Behind(i)'
        PROVE  i \in DOMAIN log /\ log'[i] = log[i] /\ Behind(i)
    <2>1. /\ cursor \in Nat /\ saved \in Nat /\ ledger \in Nat /\ answer \in Nat
          /\ cursor <= ledger /\ saved <= ledger /\ answer <= ledger
      BY LedgersTyped DEF IInv
    <2>2. i \in DOMAIN log
      BY <1>3, <2>1, PrefixSame DEF Behind, IInv, TypeOK
    <2>3. log'[i] = log[i] /\ log[i].ledger \in Nat /\ log[i].ledger >= 1
      BY <2>2, PrefixSame, LogTyped DEF IInv
    <2>4. QED
      BY <1>3, <2>1, <2>2, <2>3 DEF Behind
  <1>4. QED
    BY <1>1, <1>2, <1>3 DEF CommitChecked

\* What the loop has been past is accounted for.
LEMMA BehindAccounted ==
    ASSUME IInv, pc \in {"event", "commit"}, NEW i \in DOMAIN log, Behind(i)
    PROVE  Accounted(i)
  BY DEF IInv, PassedAccounted, BatchComplete, Behind

\* Syncs that end, or begin with a row there.
LEMMA SyncsKept ==
    ASSUME IInv, LogGrows,
           \A o \in Orders : escrows[o] # NoRow => escrows'[o] # NoRow,
           \A r \in Requests : \/ syncs'[r] \in {syncs[r], "none", "stored"}
                               \/ syncs'[r] = "sending" /\ escrows[r[1]] # NoRow
    PROVE  SyncsReported'
  <1> SUFFICES ASSUME NEW r \in Requests
               PROVE  /\ syncs'[r] \in {"sending", "answered"} => escrows'[r[1]] # NoRow
                      /\ syncs'[r] = "answered" /\ r[2] # "release" =>
                            "ESCROW_FUNDED" \in Emitted(r[1])'
                      /\ syncs'[r] = "answered" /\ r[2] = "release" =>
                            "ESCROW_RELEASED" \in Emitted(r[1])'
    BY DEF SyncsReported
  <1>1. r[1] \in Orders
    BY RequestsAssumption
  <1>2. Emitted(r[1]) \subseteq Emitted(r[1])'
    BY <1>1, PrefixSame
  <1>3. QED
    BY <1>1, <1>2 DEF IInv, SyncsReported

\* The loop leaves an event that is accounted for behind, and everything before it is.
LEMMA EventDone ==
    ASSUME IInv, LogSame, \A i \in DOMAIN log : Behind(i) => Accounted(i)', pc \in {"event", "commit"}, batch # {},
           NEW k, k = Position, Accounted(k)', batch' = batch \ {k},
           cursor' \in {cursor, Later(cursor, Current.ledger)},
           pc' = "event", answer' = answer, saved' \in {saved, Current.ledger},
           seen' \subseteq seen \cup {k}
    PROVE  PassedAccounted' /\ TargetsComplete' /\ BatchComplete' /\ CommitChecked'
  <1> USE DEF IInv
  <1>1. /\ k \in batch /\ k \in DOMAIN log /\ k \in Nat /\ Current = log[k]
        /\ \A i \in batch : k <= i
    BY PositionFirst, LogTyped DEF Current
  <1>2. /\ log' = log
        /\ \A i \in DOMAIN log : log[i].ledger \in Nat /\ i \in Nat
        /\ cursor \in Nat /\ saved \in Nat /\ answer \in Nat
    BY LogTyped, LedgersTyped DEF LogSame
  <1>3. BatchComplete'
    BY <1>1, <1>2 DEF BatchComplete, Behind
  <1>4. ASSUME NEW i \in DOMAIN log, log[i].ledger < Current.ledger
        PROVE  Accounted(i)'
    <2>1. i \notin batch
      <3>1. i \in batch => log[k].ledger <= log[i].ledger
        BY <1>1, <1>2 DEF LedgersOrdered, TypeOK
      <3>2. QED
        BY <1>1, <1>2, <1>4, <3>1
    <2>2. log[i].ledger <= answer
      BY <1>1, <1>2, <1>4 DEF BatchComplete
    <2>3. QED
      BY <2>1, <2>2 DEF Behind
  <1>5. PassedAccounted'
    <2>1. \A i \in DOMAIN log : log[i].ledger < cursor' => Accounted(i)'
      BY <1>1, <1>2, <1>4 DEF Behind, Later
    <2>2. \A i \in DOMAIN log : log[i].ledger < saved' => Accounted(i)'
      BY <1>4 DEF Behind
    <2>3. \A i \in seen' : Accounted(i)'
      BY DEF Behind, TypeOK
    <2>4. QED
      BY <1>2, <2>1, <2>2, <2>3 DEF PassedAccounted
  <1>6. QED
    BY <1>3, <1>5 DEF TargetsComplete, CommitChecked

\* Types, when only the loop moves.
LEMMA LoopTyped ==
    ASSUME IInv, LogSame, batch # {}, batch' = batch \ {Position},
           cursor' \in {cursor, Later(cursor, Current.ledger)},
           saved' \in {saved, Current.ledger}, answer' = answer
    PROVE  /\ {saved', cursor', answer'} \subseteq 0..ledger'
           /\ log' \in Seq(Event) /\ ledger' \in 0..MaxLedger
           /\ batch' \subseteq DOMAIN log'
  <1>1. Current.ledger \in Nat /\ Current.ledger <= ledger
    BY PositionFirst, LogTyped DEF IInv, LedgersOrdered, Current
  <1>2. QED
    BY <1>1, LedgersTyped DEF LogSame, Later, TypeOK, IInv

\* The chain moves and the rows with it at most.
LEMMA ChainTyped ==
    ASSUME IInv, ChainStep, escrows' \in [Orders -> EscrowRowStatus \cup {NoRow}],
           saved' \in {saved, 0}, syncs' \in [Requests -> SyncStage],
           UNCHANGED <<orders, cursor, seen, pc, pollVars, excused, failures, crashes>>
    PROVE  TypeOK'
  <1>1. /\ ledger' \in 0..MaxLedger
        /\ {saved', cursor', answer'} \subseteq 0..ledger'
    BY LedgersTyped DEF IInv, ChainStep, pollVars
  <1>2. /\ log' \in Seq(Event)
        /\ seen' \subseteq DOMAIN log' /\ batch' \subseteq DOMAIN log'
    BY DEF IInv, TypeOK, ChainStep, pollVars
  <1>3. QED
    BY <1>1, <1>2 DEF IInv, TypeOK, pollVars

\* A ledger closes and at most the syncs go on.
LEMMA ChainOnly ==
    ASSUME IInv, ChainStep, syncs' \in [Requests -> SyncStage], SyncsReported',
           UNCHANGED <<dbVars, cursor, seen, pc, pollVars, excused, failures, crashes>>
    PROVE  IInv'
  <1> USE DEF dbVars, pollVars
  <1>1. LogGrows
    BY DEF LogGrows
  <1>2. TypeOK'
    BY ChainTyped DEF IInv, TypeOK
  <1>3. LedgersOrdered' /\ LogOrdered' /\ ReportsExclude'
    BY <1>1, LogInvKept
  <1>4. RowsReported'
    BY <1>1, PrefixSame DEF IInv, RowsReported
  <1>5. Kept
    BY <1>1, KeptByForward
  <1>6. PassedAccounted' /\ BatchComplete'
    BY <1>1, <1>5, PassedKept, BatchKept
  <1>7. TargetsComplete'
    BY DEF IInv, TargetsComplete
  <1>8. CommitChecked'
    BY <1>1, CommitKept
  <1>9. QED
    BY <1>2, <1>3, <1>4, <1>6, <1>7, <1>8 DEF IInv

\* A ledger closes and nothing else changes.
LEMMA LedgerOnly ==
    ASSUME IInv, ChainStep,
           UNCHANGED <<dbVars, cursor, seen, pc, pollVars, syncs, excused, failures, crashes>>
    PROVE  IInv'
  <1>1. SyncsReported'
    BY SyncsKept DEF LogGrows, dbVars
  <1>2. QED
    BY <1>1, ChainOnly DEF IInv, TypeOK

---------------------------------------------------------------------------------
(* The steps *)

LEMMA ReportTyped ==
    ASSUME TypeOK, ledger < MaxLedger, NEW o \in Orders, NEW e \in ChainEvent
    PROVE  /\ Report(o, e) \in Event
           /\ Report(o, e).ledger = ledger + 1
           /\ Report(o, e).order = o
           /\ Report(o, e).event = e
  BY LedgersTyped DEF Report, Event

LEMMA OneReport ==
    ASSUME TypeOK, NEW o \in Orders, NEW e \in ChainEvent, Lawful(o, e), Close(<<Report(o, e)>>)
    PROVE  ChainStep /\ Emitted(o)' = Emitted(o) \cup {e}
  <1> DEFINE evs == <<Report(o, e)>>
  <1>1. Report(o, e) \in Event /\ Report(o, e).ledger = ledger + 1
            /\ Report(o, e).order = o /\ Report(o, e).event = e
    BY ReportTyped DEF Close
  <1>2. evs \in Seq(Event) /\ DOMAIN evs = {1} /\ evs[1] = Report(o, e)
    BY <1>1
  <1>3. ChainStep
    <2> HIDE DEF evs
    <2>1. \A k \in DOMAIN evs : evs[k].ledger = ledger + 1 /\ Lawful(evs[k].order, evs[k].event)
      BY <1>1, <1>2
    <2>2. \A k, l \in DOMAIN evs : evs[k].order = evs[l].order => k = l
      BY <1>2
    <2>3. Close(evs)
      BY DEF evs
    <2>4. QED
      BY <1>2, <2>1, <2>2, <2>3, CloseIsStep
  <1>4. log \in Seq(Event) /\ log' = log \o <<Report(o, e)>>
    BY DEF TypeOK, Close
  <1>5. log'[Len(log) + 1] = Report(o, e) /\ Len(log) + 1 \in DOMAIN log'
            /\ DOMAIN log' = DOMAIN log \cup {Len(log) + 1}
    BY <1>1, <1>4
  <1>6. Emitted(o)' = {log'[i].event : i \in {j \in DOMAIN log' : log'[j].order = o}}
    BY DEF Emitted
  <1>7. e \in Emitted(o)'
    BY <1>1, <1>5, <1>6
  <1>8. \A f \in Emitted(o)' : f = e \/ f \in Emitted(o)
    BY <1>1, <1>3, <1>5, <1>6 DEF Emitted, ChainStep
  <1>9. Emitted(o) \subseteq Emitted(o)'
    BY <1>3, EmittedGrows
  <1>10. QED
    BY <1>3, <1>7, <1>8, <1>9

LEMMA TwoReports ==
    ASSUME TypeOK, NEW o \in Orders, NEW p \in Orders, o # p,
           NEW e \in ChainEvent, NEW f \in ChainEvent, Lawful(o, e), Lawful(p, f),
           Close(<<Report(o, e), Report(p, f)>>)
    PROVE  ChainStep
  <1> DEFINE evs == <<Report(o, e), Report(p, f)>>
  <1>1. /\ Report(o, e) \in Event /\ Report(o, e).ledger = ledger + 1
        /\ Report(o, e).order = o /\ Report(o, e).event = e
        /\ Report(p, f) \in Event /\ Report(p, f).ledger = ledger + 1
        /\ Report(p, f).order = p /\ Report(p, f).event = f
    BY ReportTyped DEF Close
  <1>2. /\ evs \in Seq(Event) /\ DOMAIN evs = {1, 2}
        /\ evs[1] = Report(o, e) /\ evs[2] = Report(p, f)
    BY <1>1
  <1> HIDE DEF evs
  <1>3. \A k \in DOMAIN evs : evs[k].ledger = ledger + 1 /\ Lawful(evs[k].order, evs[k].event)
    BY <1>1, <1>2
  <1>4. \A k, l \in DOMAIN evs : evs[k].order = evs[l].order => k = l
    BY <1>1, <1>2
  <1>5. Close(evs)
    BY DEF evs
  <1>6. QED
    BY <1>2, <1>3, <1>4, <1>5, CloseIsStep

LEMMA CloseLedgerSteps ==
    ASSUME IInv, CloseLedger
    PROVE  ChainStep
  <1>1. TypeOK /\ \A c \in ChainEvents : c[1] \in Orders /\ c[2] \in ChainEvent
    BY ChainEventsAssumption DEF IInv, ChainEvent
  <1>2. CASE Close(<< >>)
    <2>1. << >> \in Seq(Event) /\ DOMAIN << >> = {}
      OBVIOUS
    <2>2. QED
      BY <1>1, <1>2, <2>1, CloseIsStep
  <1>3. ASSUME NEW c \in ChainEvents, MayEmit(c[1], c[2]), Close(<<Report(c[1], c[2])>>)
        PROVE  ChainStep
    BY <1>1, <1>3, OneReport DEF Lawful
  <1>4. ASSUME NEW c \in ChainEvents, NEW d \in ChainEvents, c[1] # d[1],
               MayEmit(c[1], c[2]), MayEmit(d[1], d[2]),
               Close(<<Report(c[1], c[2]), Report(d[1], d[2])>>)
        PROVE  ChainStep
    BY <1>1, <1>4, TwoReports DEF Lawful
  <1>5. QED
    BY <1>2, <1>3, <1>4 DEF CloseLedger

LEMMA CloseLedgerKeeps ==
    ASSUME IInv, CloseLedger
    PROVE  IInv'
  BY CloseLedgerSteps, LedgerOnly DEF CloseLedger

LEMMA DeploySteps ==
    ASSUME IInv, NEW o \in Orders, Deploy(o)
    PROVE  ChainStep
  BY OneReport DEF IInv, Deploy, Lawful, ChainEvent, EventType

LEMMA DeployKeeps ==
    ASSUME IInv, NEW o \in Orders, Deploy(o)
    PROVE  IInv'
  BY DeploySteps, LedgerOnly DEF Deploy

\* The contract of a new row has reported nothing but its creation, so the row accounts for
\* everything from the start.
LEMMA CreateRowsKeeps ==
    ASSUME IInv, NEW o \in Orders, CreateRows(o)
    PROVE  IInv'
  <1> USE DEF chainVars, pollVars
  <1>1. LogSame /\ LogGrows
    BY DEF CreateRows, LogSame, LogGrows
  <1>2. /\ escrows' = [escrows EXCEPT ![o] = "initialized"]
        /\ escrows \in [Orders -> EscrowRowStatus \cup {NoRow}]
        /\ escrows[o] = NoRow
    BY DEF CreateRows, IInv, TypeOK
  <1>3. TypeOK'
    <2>1. escrows' \in [Orders -> EscrowRowStatus \cup {NoRow}]
      BY <1>2 DEF EscrowRowStatus
    <2>2. orders' \in [Orders -> OrderStatus \cup {NoRow}]
      BY DEF CreateRows, IInv, TypeOK, OrderStatus
    <2>3. QED
      BY <2>1, <2>2 DEF CreateRows, IInv, TypeOK
  <1>4. LedgersOrdered' /\ LogOrdered' /\ ReportsExclude'
    BY <1>1, LogInvKept
  <1>5. RowsReported'
    BY <1>1, <1>2, PrefixSame DEF IInv, RowsReported
  <1>6. Kept
    <2> SUFFICES ASSUME NEW i \in DOMAIN log, Accounted(i) PROVE Accounted(i)'
      BY DEF Kept
    <2>1. log' = log /\ excused \subseteq excused'
      BY <1>1 DEF LogSame, CreateRows
    <2>2. log[i].order \in Orders /\ log[i].event \in ChainEvent
      BY LogTyped DEF IInv
    <2>3. CASE log[i].order = o
      <3>1. log[i].event \in Emitted(o)
        BY <2>3 DEF Emitted
      <3>2. log[i].event = "ESCROW_CREATED"
        BY <3>1 DEF CreateRows
      <3>3. escrows'[o] = "initialized"
        BY <1>2
      <3>4. QED
        BY <2>1, <2>3, <3>2, <3>3 DEF Accounted, Reflects, Accounts
    <2>4. CASE log[i].order # o
      <3>1. escrows'[log[i].order] = escrows[log[i].order]
        BY <1>2, <2>2, <2>4
      <3>2. QED
        BY <2>1, <2>2, <3>1, ForwardKeeps
    <2>5. QED
      BY <2>3, <2>4
  <1>7. PassedAccounted' /\ BatchComplete'
    BY <1>1, <1>6, PassedKept, BatchKept DEF CreateRows
  <1>8. TargetsComplete'
    BY <1>2 DEF IInv, TargetsComplete, CreateRows
  <1>9. CommitChecked'
    BY <1>1, CommitKept DEF CreateRows
  <1>10. SyncsReported'
    <2>1. \A p \in Orders : escrows[p] # NoRow => escrows'[p] # NoRow
      BY <1>2 DEF NoRow
    <2>2. QED
      BY <1>1, <2>1, SyncsKept DEF CreateRows
  <1>11. QED
    BY <1>3, <1>4, <1>5, <1>7, <1>8, <1>9, <1>10 DEF IInv

\* Steps that change neither rows nor log keep what is said about these alone.
LEMMA RowsSame ==
    ASSUME IInv, LogSame, escrows' = escrows, excused \subseteq excused',
           \A r \in Requests : \/ syncs'[r] \in {syncs[r], "none"}
                               \/ syncs'[r] = "sending" /\ escrows[r[1]] # NoRow
    PROVE  /\ LogGrows /\ Kept
           /\ LedgersOrdered' /\ LogOrdered' /\ ReportsExclude' /\ RowsReported'
           /\ SyncsReported'
  <1>1. LogGrows
    BY DEF LogGrows
  <1>2. RowsReported'
    BY <1>1, PrefixSame DEF IInv, RowsReported
  <1>3. SyncsReported'
    BY <1>1, SyncsKept
  <1>4. QED
    BY <1>1, <1>2, <1>3, KeptByForward, LogInvKept

\* A request that begins, fails or writes its audit row.
LEMMA SyncMoves ==
    ASSUME IInv, LogSame, NEW r \in Requests, NEW stage \in {"none", "sending"},
           syncs' = [syncs EXCEPT ![r] = stage], stage = "sending" => escrows[r[1]] # NoRow,
           saved' \in {saved, 0},
           UNCHANGED <<escrows, orders, cursor, seen, pc, pollVars, excused, failures, crashes>>
    PROVE  IInv'
  <1> USE DEF pollVars
  <1>1. syncs \in [Requests -> SyncStage]
    BY DEF IInv, TypeOK
  <1>2. \A q \in Requests : \/ syncs'[q] \in {syncs[q], "none"}
                            \/ syncs'[q] = "sending" /\ escrows[q[1]] # NoRow
    BY <1>1
  <1>3. /\ LogGrows /\ Kept /\ SyncsReported'
        /\ LedgersOrdered' /\ LogOrdered' /\ ReportsExclude' /\ RowsReported'
    BY <1>2, RowsSame
  <1>4. TypeOK'
    <2>1. {saved', cursor', answer'} \subseteq 0..ledger'
      BY LedgersTyped DEF IInv, LogSame
    <2>2. syncs' \in [Requests -> SyncStage]
      BY <1>1 DEF SyncStage
    <2>3. QED
      BY <2>1, <2>2 DEF IInv, TypeOK, LogSame
  <1>5. PassedAccounted' /\ BatchComplete'
    BY <1>3, PassedKept, BatchKept
  <1>6. TargetsComplete'
    BY DEF IInv, TargetsComplete
  <1>7. CommitChecked'
    BY <1>3, CommitKept
  <1>8. QED
    BY <1>3, <1>4, <1>5, <1>6, <1>7 DEF IInv

LEMMA RequestTyped ==
    ASSUME NEW r \in Requests
    PROVE  r[1] \in Orders /\ r[2] \in {"fund", "fiat_sent", "release"} /\ r = <<r[1], r[2]>>
  BY RequestsAssumption DEF SyncAction

LEMMA SyncReadKeeps ==
    ASSUME IInv, NEW r \in Requests, SyncRead(r[1], r[2])
    PROVE  IInv'
  <1>1. escrows[r[1]] # NoRow
    BY RequestTyped, Tables DEF SyncRead, NoRow
  <1>2. syncs' = [syncs EXCEPT ![r] = "sending"]
    BY RequestTyped DEF SyncRead
  <1>3. QED
    BY <1>1, <1>2, SyncMoves DEF SyncRead, LogSame, chainVars, dbVars

LEMMA SyncFailsKeeps ==
    ASSUME IInv, NEW r \in Requests, SyncFails(r[1], r[2])
    PROVE  IInv'
  <1>1. syncs' = [syncs EXCEPT ![r] = "none"]
    BY RequestTyped DEF SyncFails
  <1>2. QED
    BY <1>1, SyncMoves DEF SyncFails, LogSame, chainVars, dbVars

LEMMA SyncAuditKeeps ==
    ASSUME IInv, NEW r \in Requests, SyncAudit(r[1], r[2])
    PROVE  IInv'
  <1>1. syncs' = [syncs EXCEPT ![r] = "none"]
    BY RequestTyped DEF SyncAudit
  <1>2. QED
    BY <1>1, SyncMoves DEF SyncAudit, LogSame, chainVars

\* An answer SUCCESS is about what the chain has just taken.
LEMMA SyncSendKeeps ==
    ASSUME IInv, NEW r \in Requests, SyncSend(r[1], r[2])
    PROVE  IInv'
  <1> DEFINE o == r[1]
             a == r[2]
  <1>1. o \in Orders /\ a \in {"fund", "fiat_sent", "release"} /\ r = <<o, a>>
    BY RequestTyped
  <1>2. /\ SyncEvent["fund"] = "ESCROW_FUNDED" /\ SyncEvent["release"] = "ESCROW_RELEASED"
        /\ SyncEvent["fiat_sent"] = "MILESTONE_CHANGED"
    BY DEF SyncEvent
  <1>3. /\ MaySend(o, a) /\ Close(<<Report(o, SyncEvent[a])>>)
        /\ SyncEvent[a] \in ChainEvent /\ Lawful(o, SyncEvent[a])
    BY <1>1, <1>2 DEF SyncSend, MaySend, Lawful, ChainEvent, EventType
  <1>4. ChainStep /\ Emitted(o)' = Emitted(o) \cup {SyncEvent[a]}
    BY <1>1, <1>3, OneReport DEF IInv
  <1>5. PICK stage \in {"answered", "none"} : syncs' = [syncs EXCEPT ![r] = stage]
    BY <1>1 DEF SyncSend
  <1>6. syncs \in [Requests -> SyncStage] /\ syncs[r] = "sending"
    BY <1>1 DEF IInv, TypeOK, SyncSend
  <1>7. syncs' \in [Requests -> SyncStage]
    BY <1>5, <1>6 DEF SyncStage
  <1>8. SyncsReported'
    <2> SUFFICES ASSUME NEW q \in Requests
                 PROVE  /\ syncs'[q] \in {"sending", "answered"} => escrows[q[1]] # NoRow
                        /\ syncs'[q] = "answered" /\ q[2] # "release" =>
                              "ESCROW_FUNDED" \in Emitted(q[1])'
                        /\ syncs'[q] = "answered" /\ q[2] = "release" =>
                              "ESCROW_RELEASED" \in Emitted(q[1])'
      BY DEF SyncsReported, SyncSend, dbVars
    <2>1. Emitted(q[1]) \subseteq Emitted(q[1])'
      BY <1>4, EmittedGrows DEF IInv
    <2>2. CASE q # r
      <3>1. syncs'[q] = syncs[q]
        BY <1>5, <1>6, <2>2
      <3>2. QED
        BY <2>1, <3>1 DEF IInv, SyncsReported
    <2>3. CASE q = r
      <3>1. escrows[o] # NoRow
        BY <1>6 DEF IInv, SyncsReported
      <3>2. a = "release" => "ESCROW_RELEASED" \in Emitted(o)'
        BY <1>2, <1>4
      <3>3. a # "release" => "ESCROW_FUNDED" \in Emitted(o)'
        BY <1>1, <1>2, <1>3, <1>4 DEF MaySend
      <3>4. QED
        BY <2>3, <3>1, <3>2, <3>3
    <2>4. QED
      BY <2>2, <2>3
  <1>9. QED
    BY <1>4, <1>7, <1>8, ChainOnly DEF SyncSend

\* The update of a sync replaces a status that only accounts for the funding, or the order
\* is excused from now on.
LEMMA SyncWriteKeeps ==
    ASSUME IInv, NEW r \in Requests, SyncWrite(r[1], r[2])
    PROVE  IInv'
  <1> USE DEF chainVars, pollVars
  <1>1. PICK o \in Orders, a \in {"fund", "fiat_sent", "release"} : r = <<o, a>>
    BY RequestTyped
  <1>2. /\ escrows \in [Orders -> EscrowRowStatus \cup {NoRow}]
        /\ escrows' = [escrows EXCEPT ![o] = SyncedStatus[a]]
        /\ syncs \in [Requests -> SyncStage] /\ syncs[r] = "answered"
        /\ syncs' = [syncs EXCEPT ![r] = IF a = "fiat_sent" THEN "none" ELSE "stored"]
    BY <1>1 DEF SyncWrite, IInv, TypeOK
  <1>3. /\ excused' = IF escrows[o] \in LateStatuses \ {SyncedStatus[a]} THEN excused \cup {o}
                                                                    ELSE excused
        /\ excused \subseteq excused'
    BY <1>1 DEF SyncWrite
  <1>4. /\ escrows'[o] = SyncedStatus[a]
        /\ \A p \in Orders \ {o} : escrows'[p] = escrows[p]
        /\ SyncedStatus[a] \in {"funded", "fiat_sent", "released"}
    BY <1>1, <1>2, Tables
  <1>5. LogSame /\ LogGrows
    BY DEF SyncWrite, LogSame, LogGrows
  <1>6. escrows[o] \in EscrowRowStatus \ {"pending"}
    BY <1>1, <1>2 DEF IInv, SyncsReported, RowsReported
  <1>7. TypeOK'
    <2>1. escrows' \in [Orders -> EscrowRowStatus \cup {NoRow}]
      BY <1>2, <1>4 DEF EscrowRowStatus
    <2>2. syncs' \in [Requests -> SyncStage]
      BY <1>2 DEF SyncStage
    <2>3. excused' \subseteq Orders
      BY <1>1, <1>3 DEF IInv, TypeOK
    <2>4. QED
      BY <2>1, <2>2, <2>3 DEF SyncWrite, IInv, TypeOK
  <1>8. LedgersOrdered' /\ LogOrdered' /\ ReportsExclude'
    BY <1>5, LogInvKept
  <1>9. RowsReported'
    <2>1. \A p \in Orders : Emitted(p)' = Emitted(p)
      BY <1>5 DEF LogSame, Emitted
    <2>2. /\ a = "release" => "ESCROW_RELEASED" \in Emitted(o)
          /\ a # "release" => "ESCROW_FUNDED" \in Emitted(o)
      BY <1>1, <1>2 DEF IInv, SyncsReported
    <2>3. /\ a = "release" => SyncedStatus[a] = "released"
          /\ a # "release" => SyncedStatus[a] \in {"funded", "fiat_sent"}
      BY <1>1, Tables
    <2>4. QED
      BY <1>4, <2>1, <2>2, <2>3 DEF IInv, RowsReported
  <1>10. Kept
    <2>1. \/ escrows'[o] = escrows[o] \/ <<escrows[o], escrows'[o]>> \in Keeping
          \/ o \in excused'
      BY <1>3, <1>4, <1>6 DEF LateStatuses, Keeping, EscrowRowStatus
    <2>2. \A p \in Orders :
             escrows'[p] = escrows[p] \/ <<escrows[p], escrows'[p]>> \in Keeping \/ p \in excused'
      BY <1>4, <2>1
    <2>3. QED
      BY <1>3, <1>5, <2>2, KeptByForward
  <1>11. PassedAccounted' /\ BatchComplete'
    BY <1>5, <1>10, PassedKept, BatchKept DEF SyncWrite
  <1>12. TargetsComplete'
    <2>1. escrows[o] \in {"released", "resolved"} =>
              escrows'[o] \in {"released", "resolved"} \/ o \in excused'
      BY <1>3, <1>4 DEF LateStatuses
    <2>2. escrows[o] # NoRow
      BY <1>6 DEF EscrowRowStatus, NoRow
    <2>3. pc' = pc /\ targets' = targets
      BY DEF SyncWrite
    <2>4. QED
      BY <1>3, <1>4, <2>1, <2>2, <2>3 DEF IInv, TargetsComplete
  <1>13. CommitChecked'
    BY <1>3, <1>5, CommitKept DEF SyncWrite
  <1>14. SyncsReported'
    <2>1. \A p \in Orders : escrows[p] # NoRow => escrows'[p] # NoRow
      BY <1>4 DEF NoRow
    <2>2. \A q \in Requests : syncs'[q] \in {syncs[q], "none", "stored"}
      BY <1>2
    <2>3. QED
      BY <1>5, <2>1, <2>2, SyncsKept
  <1>15. QED
    BY <1>7, <1>8, <1>9, <1>11, <1>12, <1>13, <1>14 DEF IInv

LEMMA ReadTargetsKeeps ==
    ASSUME IInv, ReadTargets
    PROVE  IInv'
  <1> USE DEF chainVars, dbVars
  <1>1. LogSame /\ escrows' = escrows /\ excused' = excused /\ syncs' = syncs
    BY DEF ReadTargets, LogSame
  <1>2. TypeOK'
    BY DEF ReadTargets, IInv, TypeOK
  <1>3. PassedAccounted' /\ BatchComplete'
    BY <1>1, RowsSame, PassedKept, BatchKept DEF ReadTargets
  <1>4. TargetsComplete' /\ CommitChecked'
    BY DEF ReadTargets, TargetsComplete, CommitChecked
  <1>5. QED
    BY <1>1, <1>2, <1>3, <1>4, RowsSame DEF IInv

\* Whatever the answer leaves out is behind the cursor, of an ended or an excused order, or
\* has fallen off the page.
LEMMA QueryAnsweredKeeps ==
    ASSUME IInv, QueryAnswered
    PROVE  IInv'
  <1> USE DEF chainVars, dbVars
  <1>1. /\ LogSame /\ escrows' = escrows /\ excused \subseteq excused' /\ log' = log
        /\ syncs' = syncs
    BY DEF QueryAnswered, LogSame
  <1>2. Page \subseteq Matching /\ Matching \subseteq DOMAIN log
    BY DEF Page, Matching
  <1>3. TypeOK'
    <2>1. excused' \subseteq Orders
      BY <1>2, LogTyped DEF QueryAnswered, IInv, TypeOK
    <2>2. answer' \in 0..ledger
      BY LedgersTyped DEF QueryAnswered, IInv
    <2>3. QED
      BY <1>2, <2>1, <2>2 DEF QueryAnswered, IInv, TypeOK
  <1>4. PassedAccounted'
    BY <1>1, RowsSame, PassedKept DEF QueryAnswered
  <1>5. BatchComplete'
    <2>1. ASSUME NEW i \in DOMAIN log, i \notin Page PROVE Accounted(i)'
      <3>1. CASE i \in Matching
        BY <1>1, <2>1, <3>1 DEF QueryAnswered, Accounted
      <3>2. CASE i \notin Matching
        <4>1. log[i].ledger < cursor \/ log[i].order \notin targets
          BY <3>2, LogTyped, LedgersTyped DEF Matching, IInv
        <4>2. log[i].order \notin targets => Accounted(i)
          BY LogTyped, EndedAccounted DEF IInv, TargetsComplete, QueryAnswered
        <4>3. Accounted(i)
          BY <4>1, <4>2 DEF IInv, PassedAccounted
        <4>4. QED
          BY <1>1, <4>3, RowsSame DEF Kept
      <3>3. QED
        BY <3>1, <3>2
    <2>2. \A i \in Page : log[i].ledger <= ledger
      BY <1>2 DEF IInv, LedgersOrdered
    <2>3. QED
      BY <1>1, <2>1, <2>2 DEF QueryAnswered, BatchComplete
  <1>6. TargetsComplete' /\ CommitChecked'
    BY DEF QueryAnswered, TargetsComplete, CommitChecked
  <1>7. QED
    BY <1>1, <1>3, <1>4, <1>5, <1>6, RowsSame DEF IInv

LEMMA QueryFailsKeeps ==
    ASSUME IInv, QueryFails
    PROVE  IInv'
  <1> USE DEF chainVars, dbVars
  <1>1. LogSame /\ escrows' = escrows /\ excused' = excused /\ syncs' = syncs
    BY DEF QueryFails, LogSame
  <1>2. TypeOK'
    BY DEF QueryFails, IInv, TypeOK
  <1>3. PassedAccounted' /\ BatchComplete'
    BY <1>1, RowsSame, PassedKept, BatchKept DEF QueryFails
  <1>4. TargetsComplete' /\ CommitChecked'
    BY DEF QueryFails, TargetsComplete, CommitChecked
  <1>5. QED
    BY <1>1, <1>2, <1>3, <1>4, RowsSame DEF IInv

\* An event that leaves the rows alone is left behind.
LEMMA LeftBehind ==
    ASSUME IInv, LogSame, escrows' = escrows, orders' = orders, saved' = saved,
           excused \subseteq excused', excused' \subseteq Orders, targets' = targets, answer' = answer,
           failures' \in 0..MaxFailures, crashes' = crashes, syncs' = syncs,
           pc \in {"event", "commit"}, batch # {}, NEW k, k = Position,
           Accounted(k) \/ log[k].order \in excused',
           seen' \subseteq seen \cup {k}, NEW processed \in BOOLEAN, NextEvent(processed)
    PROVE  IInv'
  <1>1. /\ batch' = batch \ {k} /\ cursor' \in {cursor, Later(cursor, Current.ledger)}
        /\ pc' = "event" /\ found' = NoRow
    BY DEF NextEvent
  <1>2. /\ Kept /\ LedgersOrdered' /\ LogOrdered' /\ ReportsExclude' /\ RowsReported'
        /\ SyncsReported'
    BY RowsSame
  <1>3. k \in DOMAIN log
    BY PositionFirst DEF IInv
  <1>4. Accounted(k)'
    BY <1>2, <1>3 DEF Kept, Accounted, LogSame
  <1>5. PassedAccounted' /\ TargetsComplete' /\ BatchComplete' /\ CommitChecked'
    <2>1. \A i \in DOMAIN log : Behind(i) => Accounted(i)'
      BY <1>2, BehindAccounted DEF Kept
    <2>2. QED
      BY <1>1, <1>4, <2>1, EventDone
  <1>6. TypeOK'
    <2>1. /\ {saved', cursor', answer'} \subseteq 0..ledger'
          /\ log' \in Seq(Event) /\ ledger' \in 0..MaxLedger
          /\ batch' \subseteq DOMAIN log'
      BY <1>1, LoopTyped
    <2>2. seen' \subseteq DOMAIN log'
      BY <1>3 DEF IInv, TypeOK, LogSame
    <2>3. QED
      BY <1>1, <2>1, <2>2 DEF IInv, TypeOK
  <1>7. QED
    BY <1>2, <1>5, <1>6 DEF IInv

LEMMA SkipEventKeeps ==
    ASSUME IInv, SkipEvent
    PROVE  IInv'
  <1> DEFINE k == Position
  <1>1. Current.event = "MILESTONE_CHANGED"
    BY CurrentParsed DEF IInv, SkipEvent
  <1>2. Accounted(k)
    BY <1>1 DEF Accounted, Reflects, Accounts, Current
  <1>3. excused \subseteq Orders /\ failures \in 0..MaxFailures
    BY DEF IInv, TypeOK
  <1>4. QED
    BY <1>2, <1>3, LeftBehind DEF SkipEvent, LogSame, chainVars, dbVars

LEMMA DropEventKeeps ==
    ASSUME IInv, DropEvent
    PROVE  IInv'
  <1>1. Parsed \in EventType /\ pc = "event" /\ batch # {} /\ Parsed # Unrecognised
    BY CurrentParsed DEF IInv, DropEvent
  <1>2. Accounted(Position)
    <2>1. CASE Position \in seen
      BY <2>1 DEF IInv, PassedAccounted
    <2>2. CASE ~Found \/ escrows[Current.order] \in AlreadyProcessed[Parsed]
      <3>1. AlreadyProcessed[Parsed] \cap ValidTransitions[Parsed] = {}
        BY <1>1, Tables DEF AlreadyProcessed, EventType, EscrowRowStatus
      <3>2. NoRow \notin ValidTransitions[Parsed]
        BY <1>1, Tables DEF EventType, NoRow
      <3>3. QED
        BY <1>1, <2>2, <3>1, <3>2, NotAppliedAccounted DEF Found
    <2>3. QED
      BY <2>1, <2>2 DEF DropEvent
  <1>3. excused \subseteq Orders /\ failures \in 0..MaxFailures
    BY DEF IInv, TypeOK
  <1>4. seen' \subseteq seen \cup {Position}
    BY DEF DropEvent
  <1>5. QED
    BY <1>1, <1>2, <1>3, <1>4, LeftBehind DEF DropEvent, LogSame, chainVars, dbVars

LEMMA RejectEventKeeps ==
    ASSUME IInv, RejectEvent
    PROVE  IInv'
  <1>1. Accounted(Position)
    BY NotAppliedAccounted DEF RejectEvent, Fresh
  <1>2. excused \subseteq Orders /\ failures \in 0..MaxFailures
    BY DEF IInv, TypeOK
  <1>3. QED
    BY <1>1, <1>2, LeftBehind DEF RejectEvent, LogSame, chainVars, dbVars

LEMMA FailEventKeeps ==
    ASSUME IInv, FailEvent
    PROVE  IInv'
  <1>1. batch # {}
    BY DEF IInv, CommitChecked, FailEvent
  <1>2. Current.order \in Orders
    BY <1>1, CurrentParsed DEF IInv
  <1>3. excused' \subseteq Orders /\ excused \subseteq excused' /\ log[Position].order \in excused'
    BY <1>2 DEF FailEvent, Current, IInv, TypeOK
  <1>4. failures' \in 0..MaxFailures
    BY BoundsAssumption DEF FailEvent, IInv, TypeOK
  <1>5. QED
    BY <1>1, <1>3, <1>4, LeftBehind DEF FailEvent, LogSame, chainVars, dbVars

\* The tables: a status an event may be applied to, and the one it gives.
LEMMA AppliedKeeping ==
    ASSUME NEW e \in EventType, NEW s \in ValidTransitions[e] \ {"pending"}
    PROVE  /\ <<s, EscrowStatusOf[e]>> \in Keeping
           /\ s \in EscrowRowStatus /\ EscrowStatusOf[e] \in EscrowRowStatus
           /\ Progress[EscrowStatusOf[e]] > Progress[s]
           /\ e # "ESCROW_CREATED"
           /\ Accounts(EscrowStatusOf[e], e)
  <1>1. /\ <<s, EscrowStatusOf[e]>> \in Keeping
        /\ s \in EscrowRowStatus /\ EscrowStatusOf[e] \in EscrowRowStatus
        /\ e # "ESCROW_CREATED"
    BY Tables DEF EventType, Keeping, EscrowRowStatus
  <1>2. /\ Progress["pending"] = 0 /\ Progress["initialized"] = 1 /\ Progress["funded"] = 2
        /\ Progress["fiat_sent"] = 3 /\ Progress["disputed"] = 4
        /\ Progress["released"] = 5 /\ Progress["resolved"] = 5
    BY DEF Progress, EscrowRowStatus
  <1>3. Progress[EscrowStatusOf[e]] > Progress[s]
    BY <1>2, Tables DEF EventType
  <1>4. Accounts(EscrowStatusOf[e], e)
    <2>1. \/ e = "ESCROW_FUNDED" /\ EscrowStatusOf[e] = "funded"
          \/ e = "ESCROW_RELEASED" /\ EscrowStatusOf[e] = "released"
          \/ e \in {"ESCROW_REFUNDED", "ESCROW_CANCELLED"} /\ EscrowStatusOf[e] = "resolved"
          \/ e = "ESCROW_DISPUTED" /\ EscrowStatusOf[e] = "disputed"
      BY <1>1, Tables DEF EventType
    <2>2. QED
      BY <2>1 DEF Accounts
  <1>5. QED
    BY <1>1, <1>3, <1>4

\* When processEvent has checked the row, the row accounts for every event of the order the
\* loop has been past, and so will the status to be written.
LEMMA AcceptEventKeeps ==
    ASSUME IInv, AcceptEvent
    PROVE  IInv'
  <1> USE DEF chainVars, dbVars
  <1>1. LogSame /\ escrows' = escrows /\ excused' = excused /\ syncs' = syncs
    BY DEF AcceptEvent, LogSame
  <1>2. /\ batch # {} /\ pc = "event" /\ Parsed # Unrecognised
        /\ Parsed \in EventType /\ Current.order \in Orders
        /\ found' = escrows[Current.order] /\ escrows[Current.order] # NoRow
        /\ escrows[Current.order] \in ValidTransitions[Parsed] \ {"pending"}
    BY CurrentParsed DEF AcceptEvent, Fresh, Found, IInv, RowsReported
  <1>3. TypeOK'
    BY <1>2, AppliedKeeping DEF AcceptEvent, IInv, TypeOK
  <1>4. PassedAccounted' /\ BatchComplete'
    BY <1>1, RowsSame, PassedKept, BatchKept DEF AcceptEvent
  <1>5. TargetsComplete'
    BY DEF AcceptEvent, TargetsComplete
  <1>6. CommitChecked'
    <2>1. Current' = Current /\ Parsed' = Parsed
      BY <1>1, <1>2, RowsSame, PositionKept DEF AcceptEvent
    <2>2. ASSUME NEW i \in DOMAIN log, log[i].order = Current.order, Behind(i)
          PROVE  Accounts(EscrowStatusOf[Parsed], log[i].event) \/ log[i].order \in excused
      <3>1. Accounts(escrows[Current.order], log[i].event) \/ log[i].order \in excused
        BY <1>2, <2>2, BehindAccounted DEF Accounted, Reflects
      <3>2. log[i].event \in ChainEvent
        BY LogTyped DEF IInv
      <3>3. QED
        BY <1>2, <3>1, <3>2, AppliedKeeping, KeepingAccounts
    <2>3. ASSUME NEW i \in DOMAIN log PROVE Behind(i)' => Behind(i)
      BY DEF Behind, AcceptEvent
    <2>4. QED
      BY <1>1, <1>2, <2>1, <2>2, <2>3 DEF CommitChecked, AcceptEvent, LogSame
  <1>7. QED
    BY <1>1, <1>3, <1>4, <1>5, <1>6, RowsSame DEF IInv

\* What the transaction of an event does to the rows, by CommitChecked.
LEMMA CommitMoves ==
    ASSUME IInv, CommitEvent
    PROVE  /\ batch # {} /\ Current.order \in Orders
           /\ Parsed \in EventType /\ Current.event = Parsed /\ Parsed \in Emitted(Current.order)
           /\ found \in ValidTransitions[Parsed] \ {"pending"}
           /\ escrows'[Current.order] = EscrowStatusOf[Parsed]
           /\ \A p \in Orders \ {Current.order} : escrows'[p] = escrows[p]
           /\ \A i \in DOMAIN log : log[i].order = Current.order /\ Behind(i) =>
                 Accounts(EscrowStatusOf[Parsed], log[i].event) \/ log[i].order \in excused
  <1>1. /\ batch # {} /\ Parsed # Unrecognised
        /\ found \in ValidTransitions[Parsed] \ {"pending"}
        /\ \A i \in DOMAIN log : log[i].order = Current.order /\ Behind(i) =>
              Accounts(EscrowStatusOf[Parsed], log[i].event) \/ log[i].order \in excused
    BY DEF IInv, CommitChecked, CommitEvent
  <1>2. Current.order \in Orders /\ Parsed \in EventType /\ Current.event = Parsed
    BY <1>1, CurrentParsed DEF IInv
  <1>3. Parsed \in Emitted(Current.order)
    BY <1>1, <1>2, PositionFirst DEF Emitted, Current, IInv
  <1>4. /\ escrows'[Current.order] = EscrowStatusOf[Parsed]
        /\ \A p \in Orders \ {Current.order} : escrows'[p] = escrows[p]
    BY <1>2 DEF CommitEvent, IInv, TypeOK
  <1>5. QED
    BY <1>1, <1>2, <1>3, <1>4

LEMMA CommitEventKeeps ==
    ASSUME IInv, CommitEvent
    PROVE  IInv'
  <1> USE DEF chainVars
  <1>1. PICK k : k = Position
    OBVIOUS
  <1>2. PICK o \in Orders : o = Current.order
    BY CommitMoves
  <1>3. PICK e \in EventType : e = Parsed
    BY CommitMoves
  <1>4. /\ batch # {} /\ k \in DOMAIN log /\ log[k].order = o /\ log[k].event = e
        /\ e \in Emitted(o) /\ escrows'[o] = EscrowStatusOf[e]
        /\ \A p \in Orders \ {o} : escrows'[p] = escrows[p]
        /\ found \in ValidTransitions[e] \ {"pending"}
    BY <1>1, <1>2, <1>3, CommitMoves, PositionFirst DEF Current, IInv
  <1>5. LogSame /\ LogGrows /\ excused' = excused /\ syncs' = syncs
    BY DEF CommitEvent, LogSame, LogGrows
  <1>6. /\ batch' = batch \ {k} /\ cursor' \in {cursor, Later(cursor, Current.ledger)}
        /\ pc' = "event" /\ answer' = answer /\ saved' = Current.ledger /\ seen' = seen \cup {k}
        /\ found' = NoRow
    BY <1>1 DEF CommitEvent, NextEvent
  <1>7. /\ EscrowStatusOf[e] \in EscrowRowStatus /\ e # "ESCROW_CREATED"
        /\ Accounts(EscrowStatusOf[e], e)
    BY <1>4, AppliedKeeping
  <1>8. TypeOK'
    <2>1. /\ {saved', cursor', answer'} \subseteq 0..ledger'
          /\ log' \in Seq(Event) /\ ledger' \in 0..MaxLedger
          /\ batch' \subseteq DOMAIN log'
      BY <1>1, <1>4, <1>5, <1>6, LoopTyped
    <2>2. escrows' \in [Orders -> EscrowRowStatus \cup {NoRow}]
      BY <1>2, <1>3, <1>7 DEF CommitEvent, IInv, TypeOK
    <2>3. orders' \in [Orders -> OrderStatus \cup {NoRow}]
      <3>1. OrderStatusOf[e] \in OrderStatus
        BY DEF OrderStatusOf, EventType, OrderStatus
      <3>2. QED
        BY <1>2, <1>3, <3>1 DEF CommitEvent, IInv, TypeOK
    <2>4. seen' \subseteq DOMAIN log'
      BY <1>4, <1>5, <1>6 DEF LogSame, IInv, TypeOK
    <2>5. QED
      BY <1>5, <1>6, <2>1, <2>2, <2>3, <2>4 DEF CommitEvent, IInv, TypeOK
  <1>9. LedgersOrdered' /\ LogOrdered' /\ ReportsExclude'
    BY <1>5, LogInvKept
  <1>10. RowsReported'
    <2>1. \A p \in Orders : Emitted(p) = Emitted(p)'
      BY <1>5 DEF LogSame, Emitted
    <2>2. "ESCROW_FUNDED" \in Emitted(o) \/ e \notin AfterFunding
      BY <1>4, FundedFirst DEF IInv
    <2>3. QED
      BY <1>4, <1>7, <2>1, <2>2, Tables DEF IInv, RowsReported, EventType
  <1>11. \A i \in DOMAIN log : Behind(i) => Accounted(i)'
    <2> SUFFICES ASSUME NEW i \in DOMAIN log, Behind(i) PROVE Accounted(i)'
      OBVIOUS
    <2>1. CASE log[i].order = o
      <3>1. Accounts(EscrowStatusOf[e], log[i].event) \/ o \in excused
        BY <1>2, <1>3, <2>1, CommitMoves
      <3>2. QED
        BY <1>4, <1>5, <2>1, <3>1 DEF Accounted, Reflects, LogSame
    <2>2. CASE log[i].order # o
      <3>1. Accounted(i) /\ log[i].order \in Orders
        BY BehindAccounted, LogTyped DEF IInv, CommitEvent
      <3>2. escrows'[log[i].order] = escrows[log[i].order]
        BY <1>4, <2>2, <3>1
      <3>3. QED
        BY <1>5, <3>1, <3>2 DEF Accounted, Reflects, LogSame
    <2>3. QED
      BY <2>1, <2>2
  <1>12. Accounted(k)'
    BY <1>4, <1>5, <1>7 DEF LogSame, Accounted, Reflects
  <1>13. PassedAccounted' /\ TargetsComplete' /\ BatchComplete' /\ CommitChecked'
    BY <1>1, <1>4, <1>5, <1>6, <1>11, <1>12, EventDone DEF CommitEvent
  <1>14. SyncsReported'
    <2>1. \A p \in Orders : escrows[p] # NoRow => escrows'[p] # NoRow
      BY <1>4, <1>7 DEF EscrowRowStatus, NoRow
    <2>2. QED
      BY <1>5, <2>1, SyncsKept
  <1>15. QED
    BY <1>8, <1>9, <1>10, <1>13, <1>14 DEF IInv

LEMMA EndPollKeeps ==
    ASSUME IInv, EndPoll
    PROVE  IInv'
  <1> USE DEF chainVars, dbVars
  <1>1. LogSame /\ escrows' = escrows /\ excused' = excused /\ log' = log /\ syncs' = syncs
    BY DEF EndPoll, LogSame
  <1>2. /\ cursor \in Nat /\ answer \in Nat /\ cursor <= ledger /\ answer <= ledger
        /\ \A i \in DOMAIN log : log[i].ledger \in Nat
    BY LedgersTyped, LogTyped DEF IInv
  <1>3. TypeOK'
    <2>1. cursor' \in 0..ledger /\ 0 \in 0..ledger
      BY <1>2 DEF EndPoll, Later, IInv, TypeOK
    <2>2. QED
      BY <2>1 DEF EndPoll, IInv, TypeOK
  <1>4. Kept
    BY <1>1, RowsSame
  <1>5. PassedAccounted'
    <2>1. \A i \in DOMAIN log : log[i].ledger < cursor' => Accounted(i)
      BY <1>2 DEF EndPoll, Later, IInv, PassedAccounted, BatchComplete
    <2>2. QED
      BY <1>1, <1>4, <2>1 DEF EndPoll, IInv, TypeOK, PassedAccounted, Kept
  <1>6. TargetsComplete' /\ BatchComplete' /\ CommitChecked'
    BY DEF EndPoll, TargetsComplete, BatchComplete, CommitChecked
  <1>7. QED
    BY <1>1, <1>3, <1>5, <1>6, RowsSame DEF IInv

LEMMA CrashKeeps ==
    ASSUME IInv, Crash
    PROVE  IInv'
  <1> USE DEF chainVars, dbVars
  <1>1. /\ LogSame /\ escrows' = escrows /\ excused' = excused
        /\ \A r \in Requests : syncs'[r] = "none"
    BY DEF Crash, LogSame
  <1>2. TypeOK'
    <2>1. {saved', cursor', answer'} \subseteq 0..ledger'
      BY LedgersTyped DEF Crash, IInv
    <2>2. crashes' \in 0..MaxCrashes
      BY BoundsAssumption DEF Crash, IInv, TypeOK
    <2>3. QED
      BY <2>1, <2>2 DEF Crash, IInv, TypeOK, SyncStage
  <1>3. PassedAccounted' /\ BatchComplete'
    BY <1>1, RowsSame, PassedKept, BatchKept DEF Crash
  <1>4. TargetsComplete' /\ CommitChecked'
    BY DEF Crash, TargetsComplete, CommitChecked
  <1>5. QED
    BY <1>1, <1>2, <1>3, <1>4, RowsSame DEF IInv

\* A restart begins where the latest audit row says, and nothing before that is missing.
LEMMA RestartKeeps ==
    ASSUME IInv, Restart
    PROVE  IInv'
  <1> USE DEF chainVars, dbVars, pollVars
  <1>1. LogSame /\ escrows' = escrows /\ excused' = excused /\ syncs' = syncs
    BY DEF Restart, LogSame
  <1>2. TypeOK'
    <2>1. {saved', cursor', answer'} \subseteq 0..ledger'
      BY LedgersTyped DEF Restart, IInv
    <2>2. QED
      BY <2>1 DEF Restart, IInv, TypeOK
  <1>3. PassedAccounted' /\ BatchComplete'
    BY <1>1, RowsSame, PassedKept, BatchKept DEF Restart
  <1>4. TargetsComplete' /\ CommitChecked'
    BY DEF Restart, TargetsComplete, CommitChecked
  <1>5. QED
    BY <1>1, <1>2, <1>3, <1>4, RowsSame DEF IInv

LEMMA StutterKeeps ==
    ASSUME IInv, UNCHANGED vars
    PROVE  IInv'
  <1> USE DEF vars
  <1>1. LogSame /\ escrows' = escrows /\ excused' = excused /\ syncs' = syncs
    BY DEF LogSame
  <1>2. TypeOK'
    BY DEF IInv, TypeOK
  <1>3. PassedAccounted' /\ BatchComplete'
    BY <1>1, RowsSame, PassedKept, BatchKept
  <1>4. TargetsComplete' /\ CommitChecked'
    BY <1>1, RowsSame, CommitKept DEF IInv, TargetsComplete
  <1>5. QED
    BY <1>1, <1>2, <1>3, <1>4, RowsSame DEF IInv

LEMMA InitInv ==
    ASSUME Init
    PROVE  IInv
  <1>1. log = << >> /\ DOMAIN log = {}
    BY DEF Init
  <1>2. \A o \in Orders : Emitted(o) = {} /\ escrows[o] = NoRow
    BY <1>1 DEF Init, Emitted
  <1>3. TypeOK
    <2>1. log \in Seq(Event)
      BY <1>1
    <2>2. 0 \in 0..MaxLedger /\ 0 \in 0..MaxFailures /\ 0 \in 0..MaxCrashes /\ 0 \in 0..0
      BY BoundsAssumption
    <2>3. QED
      BY <2>1, <2>2 DEF Init, TypeOK, SyncStage
  <1>4. LedgersOrdered /\ LogOrdered /\ PassedAccounted
    BY <1>1 DEF Init, LedgersOrdered, LogOrdered, PassedAccounted
  <1>5. ReportsExclude /\ RowsReported
    BY <1>2 DEF ReportsExclude, RowsReported, NoRow
  <1>6. TargetsComplete /\ BatchComplete /\ CommitChecked /\ SyncsReported
    BY DEF Init, TargetsComplete, BatchComplete, CommitChecked, SyncsReported
  <1>7. QED
    BY <1>3, <1>4, <1>5, <1>6 DEF IInv

LEMMA NextKeeps ==
    ASSUME IInv, [Next]_vars
    PROVE  IInv'
  <1>1. ASSUME NEW o \in Orders, Deploy(o) \/ CreateRows(o) PROVE IInv'
    BY <1>1, DeployKeeps, CreateRowsKeeps
  <1>2. ASSUME NEW r \in Requests, SyncTransaction(r[1], r[2]) PROVE IInv'
    BY <1>2, SyncReadKeeps, SyncSendKeeps, SyncFailsKeeps, SyncWriteKeeps, SyncAuditKeeps
       DEF SyncTransaction
  <1>3. QED
    BY <1>1, <1>2, StutterKeeps, CloseLedgerKeeps, ReadTargetsKeeps, QueryAnsweredKeeps,
       QueryFailsKeeps, SkipEventKeeps, DropEventKeeps, RejectEventKeeps, AcceptEventKeeps,
       CommitEventKeeps, FailEventKeeps, EndPollKeeps, CrashKeeps, RestartKeeps
       DEF Next

---------------------------------------------------------------------------------
(* What can happen to the row between the check and the transaction *)

\* Nothing counts as processed that the poll's answer does not cover.
SeenAnswered == pc \in {"event", "commit"} => \A i \in seen : log[i].ledger <= answer

\* Only syncs have written the row since processEvent read it.
RowWithin ==
    pc = "commit" =>
        /\ found # NoRow
        /\ escrows[Current.order] \in {found, "funded", "fiat_sent", "released"}

\* A release is only sent for a row that has been funded.
ReleaseSent ==
    \A r \in Requests :
        r[2] = "release" /\ syncs[r] \in {"sending", "answered"} => escrows[r[1]] # "initialized"

\* Neither has a sync released the row of this order nor is one about to.
Unreleased(o) ==
    /\ escrows[o] # "released"
    /\ \A r \in Requests : r = <<o, "release">> => syncs[r] # "answered"

\* If the row was not even funded when processEvent read it and a sync has released it since,
\* then the contract reported the release after the poll's answer.
ReleaseLater ==
    pc = "commit" /\ found = "initialized" =>
        \A i \in DOMAIN log :
            /\ log[i].order = Current.order
            /\ log[i].event = "ESCROW_RELEASED"
            /\ log[i].ledger <= answer
            => Unreleased(log[i].order)

Between == SeenAnswered /\ RowWithin /\ ReleaseSent /\ ReleaseLater

\* Steps of the chain and of requests.
LEMMA ElsewhereBetween ==
    ASSUME IInv, Between, LogGrows, UNCHANGED <<pc, batch, answer, seen, found>>,
           \A o \in Orders : \/ escrows'[o] = escrows[o]
                             \/ escrows[o] = NoRow
                             \/ escrows'[o] \in {"funded", "fiat_sent", "released"},
           ReleaseSent',
           \A o \in Orders : "ESCROW_RELEASED" \in Emitted(o) /\ Unreleased(o) => Unreleased(o)'
    PROVE  Between'
  <1>1. SeenAnswered'
    BY PrefixSame DEF Between, SeenAnswered, IInv, TypeOK
  <1>2. pc = "commit" => batch # {} /\ Current' = Current /\ Current.order \in Orders
    BY PositionKept, CurrentParsed DEF IInv, CommitChecked
  <1>3. RowWithin'
    BY <1>2 DEF Between, RowWithin, NoRow
  <1>4. ReleaseLater'
    <2> SUFFICES ASSUME pc = "commit", found = "initialized", NEW i \in DOMAIN log',
                        log'[i].order = Current.order, log'[i].event = "ESCROW_RELEASED",
                        log'[i].ledger <= answer
                 PROVE  Unreleased(log[i].order)'
      BY <1>2 DEF ReleaseLater
    <2>1. i \in DOMAIN log /\ log'[i] = log[i]
      BY PrefixSame, LedgersTyped DEF IInv
    <2>2. PICK o \in Orders : o = log[i].order
      BY <1>2, <2>1
    <2>3. "ESCROW_RELEASED" \in Emitted(o)
      BY <2>1, <2>2 DEF Emitted
    <2>4. Unreleased(o)
      BY <2>1, <2>2 DEF Between, ReleaseLater
    <2>5. Unreleased(o)'
      BY <2>3, <2>4
    <2>6. QED
      BY <2>1, <2>2, <2>5 DEF Unreleased
  <1>5. QED
    BY <1>1, <1>3, <1>4 DEF Between

\* Steps of the chain, and the insertion of rows.
LEMMA RowsBetween ==
    ASSUME IInv, Between, LogGrows, UNCHANGED <<pc, batch, answer, seen, found, syncs>>,
           \A o \in Orders : \/ escrows'[o] = escrows[o]
                             \/ escrows[o] = NoRow /\ escrows'[o] = "initialized"
    PROVE  Between'
  <1>1. ReleaseSent'
    <2> SUFFICES ASSUME NEW r \in Requests, r[2] = "release", syncs[r] \in {"sending", "answered"}
                 PROVE  escrows'[r[1]] # "initialized"
      BY DEF ReleaseSent
    <2>1. escrows[r[1]] # "initialized" /\ escrows[r[1]] # NoRow
      BY DEF Between, ReleaseSent, IInv, SyncsReported
    <2>2. QED
      BY <2>1, RequestTyped
  <1>2. \A o \in Orders : Unreleased(o) => Unreleased(o)'
    BY DEF Unreleased
  <1>3. QED
    BY <1>1, <1>2, ElsewhereBetween

\* The steps of a request.
LEMMA RequestBetween ==
    ASSUME IInv, Between, NEW r \in Requests, SyncTransaction(r[1], r[2])
    PROVE  Between'
  <1> USE DEF pollVars
  <1>1. PICK o \in Orders, a \in {"fund", "fiat_sent", "release"} :
            r = <<o, a>> /\ r[1] = o /\ r[2] = a
    BY RequestTyped
  <1>2. /\ syncs \in [Requests -> SyncStage]
        /\ escrows \in [Orders -> EscrowRowStatus \cup {NoRow}]
    BY DEF IInv, TypeOK
  <1>3. UNCHANGED <<pc, batch, answer, seen, found>>
    BY DEF SyncTransaction, SyncRead, SyncSend, SyncFails, SyncWrite, SyncAudit
  <1>4. LogGrows
    <2>1. CASE SyncSend(o, a)
      <3>1. /\ SyncEvent["fund"] = "ESCROW_FUNDED" /\ SyncEvent["release"] = "ESCROW_RELEASED"
            /\ SyncEvent["fiat_sent"] = "MILESTONE_CHANGED"
        BY DEF SyncEvent
      <3>2. SyncEvent[a] \in ChainEvent /\ Lawful(o, SyncEvent[a])
        BY <1>1, <2>1, <3>1 DEF SyncSend, MaySend, Lawful, ChainEvent, EventType
      <3>3. QED
        BY <2>1, <3>2, OneReport DEF SyncSend, LogGrows, IInv
    <2>2. CASE ~SyncSend(o, a)
      BY <1>1, <2>2
         DEF SyncTransaction, SyncRead, SyncFails, SyncWrite, SyncAudit, LogGrows, LogSame, chainVars
    <2>3. QED
      BY <2>1, <2>2
  <1>5. PICK stage : syncs' = [syncs EXCEPT ![r] = stage]
    BY <1>1 DEF SyncTransaction, SyncRead, SyncSend, SyncFails, SyncWrite, SyncAudit
  <1>6. /\ syncs'[r] = stage
        /\ \A q \in Requests \ {r} : syncs'[q] = syncs[q]
    BY <1>2, <1>5
  <1>7. CASE SyncWrite(o, a)
    <2>1. /\ syncs[r] = "answered" /\ syncs'[r] \in {"none", "stored"}
          /\ escrows'[o] = SyncedStatus[a] /\ \A p \in Orders \ {o} : escrows'[p] = escrows[p]
          /\ SyncedStatus[a] \in {"funded", "fiat_sent", "released"}
          /\ a # "release" => SyncedStatus[a] # "released"
      BY <1>1, <1>2, <1>7, Tables DEF SyncWrite
    <2>2. ReleaseSent'
      <3> SUFFICES ASSUME NEW q \in Requests, q[2] = "release",
                          syncs'[q] \in {"sending", "answered"}
                   PROVE  escrows'[q[1]] # "initialized"
        BY DEF ReleaseSent
      <3>1. q # r /\ syncs'[q] = syncs[q]
        BY <1>6, <2>1
      <3>2. escrows[q[1]] # "initialized" /\ q[1] \in Orders
        BY <3>1, RequestTyped DEF Between, ReleaseSent
      <3>3. QED
        BY <2>1, <3>2
    <2>3. ASSUME NEW p \in Orders, Unreleased(p) PROVE Unreleased(p)'
      <3>1. CASE p = o
        <4>1. a # "release"
          BY <1>1, <2>1, <2>3, <3>1 DEF Unreleased
        <4>2. QED
          BY <1>6, <2>1, <2>3, <3>1, <4>1 DEF Unreleased
      <3>2. CASE p # o
        BY <1>6, <2>1, <2>3, <3>2 DEF Unreleased
      <3>3. QED
        BY <3>1, <3>2
    <2>4. QED
      BY <1>3, <1>4, <2>1, <2>2, <2>3, ElsewhereBetween
  <1>8. CASE ~SyncWrite(o, a)
    <2>1. /\ escrows' = escrows
          /\ \/ stage = "none"
             \/ stage = "sending" /\ (a = "release" => escrows[o] # "initialized")
             \/ stage = "answered" /\ SyncSend(o, a)
      <3>1. CASE SyncRead(o, a)
        <4>1. a = "release" => escrows[o] # "initialized"
          BY <3>1, Tables DEF SyncRead
        <4>2. syncs'[r] = "sending"
          BY <1>1, <1>2, <3>1 DEF SyncRead
        <4>3. QED
          BY <1>6, <3>1, <4>1, <4>2 DEF SyncRead, dbVars
      <3>2. CASE SyncSend(o, a)
        <4>1. syncs'[r] \in {"answered", "none"}
          BY <1>1, <1>2, <3>2 DEF SyncSend
        <4>2. QED
          BY <1>6, <3>2, <4>1 DEF SyncSend, dbVars
      <3>3. CASE SyncFails(o, a) \/ SyncAudit(o, a)
        <4>1. syncs'[r] = "none"
          BY <1>1, <1>2, <3>3 DEF SyncFails, SyncAudit
        <4>2. QED
          BY <1>6, <3>3, <4>1 DEF SyncFails, SyncAudit, dbVars
      <3>4. QED
        BY <1>1, <1>8, <3>1, <3>2, <3>3 DEF SyncTransaction
    <2>2. ReleaseSent'
      <3> SUFFICES ASSUME NEW q \in Requests, q[2] = "release",
                          syncs'[q] \in {"sending", "answered"}
                   PROVE  escrows[q[1]] # "initialized"
        BY <2>1 DEF ReleaseSent
      <3>1. CASE q # r
        BY <1>6, <3>1 DEF Between, ReleaseSent
      <3>2. CASE q = r
        <4>1. SyncSend(o, a) => syncs[r] = "sending"
          BY <1>1 DEF SyncSend
        <4>2. QED
          BY <1>1, <1>6, <2>1, <3>2, <4>1 DEF Between, ReleaseSent
      <3>3. QED
        BY <3>1, <3>2
    <2>3. ASSUME NEW p \in Orders, "ESCROW_RELEASED" \in Emitted(p), Unreleased(p)
          PROVE  Unreleased(p)'
      <3> SUFFICES ASSUME NEW q \in Requests, q = <<p, "release">>, syncs'[q] = "answered"
                   PROVE  FALSE
        BY <2>1, <2>3 DEF Unreleased
      <3>1. q = r
        BY <1>6, <2>3 DEF Unreleased
      <3>2. SyncSend(o, a) /\ p = o /\ a = "release"
        BY <1>1, <1>6, <2>1, <3>1
      <3>3. SyncEvent["release"] = "ESCROW_RELEASED"
        BY DEF SyncEvent
      <3>4. MayEmit(o, "ESCROW_RELEASED")
        BY <3>2, <3>3 DEF SyncSend, MaySend
      <3>5. QED
        BY <2>3, <3>2, <3>4 DEF MayEmit
    <2>4. QED
      BY <1>3, <1>4, <2>1, <2>2, <2>3, ElsewhereBetween
  <1>9. QED
    BY <1>7, <1>8

\* Steps of the loop other than AcceptEvent.
LEMMA LoopBetween ==
    ASSUME IInv, Between, pc' # "commit", UNCHANGED log,
           pc' = "event" => \A i \in seen' : log[i].ledger <= answer',
           \A o \in Orders : escrows'[o] = "initialized" => escrows[o] = "initialized",
           \A r \in Requests : syncs'[r] \in {syncs[r], "none"}
    PROVE  Between'
  <1>1. SeenAnswered' /\ RowWithin' /\ ReleaseLater'
    BY DEF SeenAnswered, RowWithin, ReleaseLater
  <1>2. ReleaseSent'
    <2> SUFFICES ASSUME NEW r \in Requests, r[2] = "release", syncs'[r] \in {"sending", "answered"}
                 PROVE  escrows'[r[1]] # "initialized"
      BY DEF ReleaseSent
    <2>1. syncs[r] \in {"sending", "answered"} /\ r[1] \in Orders
      BY RequestTyped
    <2>2. QED
      BY <2>1 DEF Between, ReleaseSent
  <1>3. QED
    BY <1>1, <1>2 DEF Between

LEMMA AcceptBetween ==
    ASSUME IInv, Between, AcceptEvent
    PROVE  Between'
  <1>1. /\ batch # {} /\ escrows' = escrows /\ syncs' = syncs /\ log' = log /\ batch' = batch
        /\ answer' = answer /\ seen' = seen /\ pc = "event" /\ pc' = "commit"
        /\ found' = escrows[Current.order] /\ escrows[Current.order] # NoRow
    BY DEF AcceptEvent, Fresh, Found, chainVars, dbVars
  <1>2. Current' = Current /\ Current.order \in Orders
    BY <1>1, PositionKept, CurrentParsed DEF LogGrows, LogSame, AcceptEvent, chainVars, IInv
  <1>3. SeenAnswered' /\ RowWithin' /\ ReleaseSent'
    BY <1>1, <1>2 DEF Between, SeenAnswered, RowWithin, ReleaseSent
  <1>4. ReleaseLater'
    <2> SUFFICES ASSUME escrows[Current.order] = "initialized"
                 PROVE  Unreleased(Current.order)
      BY <1>1, <1>2 DEF ReleaseLater, Unreleased
    <2>1. ASSUME NEW r \in Requests, r = <<Current.order, "release">> PROVE syncs[r] # "answered"
      BY <2>1 DEF Between, ReleaseSent
    <2>2. QED
      BY <2>1 DEF Unreleased
  <1>5. QED
    BY <1>3, <1>4 DEF Between

LEMMA NextBetween ==
    ASSUME IInv, Between, [Next]_vars
    PROVE  Between'
  <1> USE DEF chainVars, dbVars, pollVars
  <1>1. CASE UNCHANGED vars
    BY <1>1, RowsBetween DEF vars, LogGrows, LogSame
  <1>2. CASE CloseLedger \/ \E o \in Orders : Deploy(o)
    <2>1. ChainStep
      BY <1>2, CloseLedgerSteps, DeploySteps
    <2>2. QED
      BY <1>2, <2>1, RowsBetween DEF LogGrows, CloseLedger, Deploy
  <1>3. ASSUME NEW o \in Orders, CreateRows(o) PROVE Between'
    <2>1. \A p \in Orders : \/ escrows'[p] = escrows[p]
                            \/ escrows[p] = NoRow /\ escrows'[p] = "initialized"
      BY <1>3 DEF CreateRows, IInv, TypeOK
    <2>2. QED
      BY <1>3, <2>1, RowsBetween DEF LogGrows, LogSame, CreateRows
  <1>4. ASSUME NEW r \in Requests, SyncTransaction(r[1], r[2]) PROVE Between'
    BY <1>4, RequestBetween
  <1>5. CASE ReadTargets \/ QueryFails \/ EndPoll \/ Crash \/ Restart
    BY <1>5, LoopBetween DEF ReadTargets, QueryFails, EndPoll, Crash, Restart
  <1>6. CASE QueryAnswered
    <2>1. \A i \in seen : log[i].ledger <= ledger
      BY DEF IInv, TypeOK, LedgersOrdered
    <2>2. QED
      BY <1>6, <2>1, LoopBetween DEF QueryAnswered
  <1>7. CASE SkipEvent \/ DropEvent \/ RejectEvent \/ FailEvent \/ CommitEvent
    <2>1. /\ batch # {} /\ pc \in {"event", "commit"} /\ pc' = "event" /\ UNCHANGED log
          /\ answer' = answer /\ seen' \subseteq seen \cup {Position} /\ syncs' = syncs
      BY <1>7 DEF SkipEvent, DropEvent, RejectEvent, FailEvent, CommitEvent, NextEvent,
                  IInv, CommitChecked
    <2>2. log[Position].ledger <= answer
      BY <2>1, PositionFirst DEF IInv, BatchComplete
    <2>3. \A i \in seen' : log[i].ledger <= answer'
      BY <2>1, <2>2 DEF Between, SeenAnswered
    <2>4. \A o \in Orders : escrows'[o] = "initialized" => escrows[o] = "initialized"
      <3>1. CASE CommitEvent
        BY <3>1, CommitMoves, AppliedKeeping, Tables DEF EventType
      <3>2. CASE ~CommitEvent
        BY <1>7, <3>2 DEF SkipEvent, DropEvent, RejectEvent, FailEvent
      <3>3. QED
        BY <3>1, <3>2
    <2>5. QED
      BY <2>1, <2>3, <2>4, LoopBetween
  <1>8. CASE AcceptEvent
    BY <1>8, AcceptBetween
  <1>9. QED
    BY <1>1, <1>2, <1>3, <1>4, <1>5, <1>6, <1>7, <1>8 DEF Next

\* What the transaction of an event takes back, the loop is still to come to.
LEMMA TakenBackAhead ==
    ASSUME IInv, Between, CommitEvent, NEW i \in TakenBack,
           escrows[Current.order] # found
    PROVE  Ahead(i)'
  <1> DEFINE o == Current.order
             e == log[i].event
  <1>1. /\ o \in Orders /\ Parsed \in EventType /\ Parsed \in Emitted(o)
        /\ escrows'[o] = EscrowStatusOf[Parsed] /\ batch # {}
        /\ \A p \in Orders \ {o} : escrows'[p] = escrows[p]
        /\ found \in ValidTransitions[Parsed] \ {"pending"}
    BY CommitMoves
  <1>2. /\ i \in DOMAIN log /\ log[i].order \in Orders /\ e \in ChainEvent
        /\ log' = log /\ answer' = answer /\ pc = "commit" /\ seen' = seen \cup {Position}
    BY LogTyped DEF TakenBack, IInv, CommitEvent, chainVars
  <1>3. /\ Accounts(escrows[log[i].order], e)
        /\ ~Accounts(escrows'[log[i].order], e)
    BY <1>2 DEF TakenBack, Reflects
  <1>4. log[i].order = o
    BY <1>1, <1>2, <1>3
  <1>5. e \in Emitted(o)
    BY <1>2, <1>4 DEF Emitted
  <1>6. escrows[o] \in {"funded", "fiat_sent", "released"}
    BY <1>2 DEF Between, RowWithin
  <1>7. e = "ESCROW_RELEASED" /\ escrows[o] = "released" /\ Parsed = "ESCROW_FUNDED"
    <2>1. EscrowStatusOf[Parsed] \in {"funded", "released", "disputed", "resolved"}
      BY <1>1, Tables DEF EventType
    <2>2. e = "ESCROW_RELEASED" /\ escrows[o] = "released" /\ EscrowStatusOf[Parsed] # "released"
      BY <1>1, <1>2, <1>3, <1>4, <1>6, <2>1 DEF Accounts, ChainEvent, EventType
    <2>3. "ESCROW_RELEASED" \in Emitted(o) /\ "ESCROW_FUNDED" \in Emitted(o)
      BY <1>5, <2>2, FundedFirst DEF IInv, AfterFunding
    <2>4. Parsed \notin {"ESCROW_DISPUTED", "ESCROW_REFUNDED", "ESCROW_CANCELLED"}
      BY <1>1, <2>3 DEF IInv, ReportsExclude
    <2>5. QED
      BY <1>1, <2>2, <2>4, Tables DEF EventType
  <1>8. found = "initialized"
    BY <1>1, <1>7, Tables
  <1>9. ~(log[i].ledger <= answer)
    BY <1>2, <1>4, <1>7, <1>8 DEF Between, ReleaseLater, Unreleased
  <1>10. log[i].ledger > answer
    BY <1>2, <1>9, LogTyped, LedgersTyped DEF IInv
  <1>11. i \notin seen
    BY <1>2, <1>9 DEF Between, SeenAnswered
  <1>12. i # Position
    BY <1>1, <1>9, PositionFirst, <1>2 DEF IInv, BatchComplete
  <1>13. QED
    BY <1>2, <1>10, <1>11, <1>12 DEF Ahead

---------------------------------------------------------------------------------
(* Results *)

\* The listener keeps its inductive invariant for any number of orders, ledgers, failures
\* and crashes and any page size.
THEOREM Invariance == Spec => []IInv
  <1>1. Init => IInv
    BY InitInv
  <1>2. IInv /\ [Next]_vars => IInv'
    BY NextKeeps
  <1>3. QED
    BY <1>1, <1>2, PTL DEF Spec

\* Every variable keeps its type; neither the cursor of fetchAndProcessNewEvents nor the
\* saved ledger is ever ahead of the chain.
THEOREM TypeCorrect == Spec => []TypeOK
  <1>1. IInv => TypeOK
    BY DEF IInv
  <1>2. QED
    BY <1>1, Invariance, PTL

\* The cursor never passes an event that the rows do not account for, unless a transaction of
\* that order failed, a page was full, the row came after a poll had read its targets, or the
\* update of a sync that had waited for the network replaced what the listener had stored: in
\* particular no event processEvent drops, rejects or replays after a restart is lost.
THEOREM NothingSkippedHolds == Spec => []NothingSkipped
  <1>1. IInv => NothingSkipped
    BY DEF IInv, PassedAccounted, Accounted, NothingSkipped
  <1>2. QED
    BY <1>1, Invariance, PTL

\* An event the listener commits moves its escrow forward, unless a client's sync stored a
\* status since processEvent read the row; what the transaction then takes back are events
\* the loop is still to come to, in this poll or a later one.
THEOREM AdvanceHolds == Spec => EventsOnlyAdvance
  <1> DEFINE Advance ==
        \A o \in Orders : CommitEvent /\ escrows'[o] # escrows[o] =>
            \/ Progress[escrows'[o]] > Progress[escrows[o]]
            \/ escrows[o] # found /\ \A i \in TakenBack : Ahead(i)'
  <1>1. Init => Between
    BY DEF Init, Between, SeenAnswered, RowWithin, ReleaseSent, ReleaseLater
  <1>2. IInv /\ Between /\ [Next]_vars => Between'
    BY NextBetween
  <1>3. IInv /\ Between /\ [Next]_vars => [Advance]_vars
    <2> SUFFICES ASSUME IInv, Between, NEW o \in Orders, CommitEvent, escrows'[o] # escrows[o]
                 PROVE  \/ Progress[escrows'[o]] > Progress[escrows[o]]
                        \/ escrows[o] # found /\ \A i \in TakenBack : Ahead(i)'
      OBVIOUS
    <2>1. /\ o = Current.order /\ Parsed \in EventType
          /\ escrows'[o] = EscrowStatusOf[Parsed]
          /\ found \in ValidTransitions[Parsed] \ {"pending"}
      BY CommitMoves
    <2>2. CASE escrows[o] = found
      BY <2>1, <2>2, AppliedKeeping
    <2>3. CASE escrows[o] # found
      BY <2>1, <2>3, TakenBackAhead
    <2>4. QED
      BY <2>2, <2>3
  <1>4. QED
    BY <1>1, <1>2, <1>3, Invariance, PTL DEF Spec, EventsOnlyAdvance

=================================================================================
