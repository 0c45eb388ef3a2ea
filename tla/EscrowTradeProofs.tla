---------------------------- MODULE EscrowTradeProofs ----------------------------
(***************************************************************************)
(* EscrowTrade keeps its invariants for any sets of orders, requests and   *)
(* cron runs.  The invariants of the runs are not inductive on their own:  *)
(* a handler suspended before its write must be known to hold a fact that  *)
(* is already on chain, and the order in which a contract can live through *)
(* its facts must be carried along.                                        *)
(***************************************************************************)
EXTENDS EscrowTrade, TLAPS

\* Facts appear on a contract only in an order the contract accepts.
ChainOrdered ==
    \A o \in Orders :
        /\ chain[o] # {} => "deployed" \in chain[o]
        /\ chain[o] \cap {"fiat_sent", "released", "refunded", "disputed"} # {} =>
              "funded" \in chain[o]
        /\ "approved" \in chain[o] => "fiat_sent" \in chain[o]

\* What a suspended request handler already knows to have happened on chain.
RequestsWitnessed ==
    \A r \in Requests :
        /\ req[r] # Idle /\ req[r].pc = "persist" => "deployed" \in chain[req[r].order]
        /\ req[r] # Idle /\ req[r].pc = "write" =>
              FactOfAction[req[r].action] \in chain[req[r].order]
        /\ req[r] # Idle /\ req[r].pc = "approve" => "fiat_sent" \in chain[req[r].order]

\* The listener only ever holds an event the contract emitted.
ListenerWitnessed == \A x \in listener : FactOfEvent[x.event] \in chain[x.order]

IInv ==
    /\ TypeOK
    /\ EscrowWitnessed
    /\ OrderWitnessed
    /\ ReleaseNeedsFiatSent
    /\ ChainOrdered
    /\ RequestsWitnessed
    /\ ListenerWitnessed

\* The disjuncts of the next-state relation, each with its parameters in their types.
LEMMA NextCases ==
    ASSUME TypeOK, Next
    PROVE  \/ \E r \in Requests, o \in Orders :
                CreateDeploy(r, o) \/ CancelRead(r, o) \/ ReleaseRead(r, o)
           \/ \E r \in Requests, o \in Orders, a \in XdrAction : SyncRead(r, o, a)
           \/ \E r \in Requests, s \in ClientStatuses \cup {"created"} : CreatePersist(r, s)
           \/ \E r \in Requests :
                \/ CancelWrite(r) \/ ReleaseCheck(r) \/ ReleaseApprove(r) \/ ReleaseIssue(r)
                \/ SyncSend(r) \/ SyncWrite(r) \/ RequestFails(r)
           \/ \E o \in Orders : \E s \in ClientStatuses \cup {orders[o]}, d \in BOOLEAN :
                UpdateOrder(o, s, d)
           \/ \E o \in Orders :
                RemoveOrder(o) \/ RemoveEscrow(o) \/ MarkFiatSent(o) \/ Expires(o)
           \/ \E o \in Orders, a \in XdrAction : WalletSubmits(o, a)
           \/ \E o \in Orders, f \in {"refunded", "cancelled", "disputed"} : ResolverActs(o, f)
           \/ \E j \in Jobs : ExpireOrdersRead(j)
           \/ \E j \in Jobs : \E d \in jobs[j] : ProcessExpiredOrder(j, d)
           \/ \E o \in Orders, e \in EventType : ListenerRead(o, e)
           \/ \E x \in listener : ListenerCommit(x) \/ ListenerRollback(x)
           \/ Crash
BY DEF Next, RequestStep, OrderStep, ChainStep, JobStep, ListenerStep

\* The type invariant is inductive on its own.
LEMMA TypeStep == TypeOK /\ [Next]_vars => TypeOK'
<1> SUFFICES ASSUME TypeOK, [Next]_vars PROVE TypeOK'
    OBVIOUS
<1> USE ClientStatusesAssumption
<1> USE DEF TypeOK, Request, XdrAction, ChainFact, Execute, Suspend, Finish
<1>1. ASSUME NEW r \in Requests, NEW o \in Orders, CreateDeploy(r, o) PROVE TypeOK'
    BY <1>1 DEF CreateDeploy
<1>2. ASSUME NEW r \in Requests, NEW o \in Orders, CancelRead(r, o) PROVE TypeOK'
    BY <1>2 DEF CancelRead
<1>3. ASSUME NEW r \in Requests, NEW o \in Orders, ReleaseRead(r, o) PROVE TypeOK'
    BY <1>3 DEF ReleaseRead
<1>4. ASSUME NEW r \in Requests, NEW o \in Orders, NEW a \in XdrAction, SyncRead(r, o, a)
      PROVE  TypeOK'
    BY <1>4 DEF SyncRead
<1>5. ASSUME NEW r \in Requests, NEW s \in ClientStatuses \cup {"created"}, CreatePersist(r, s)
      PROVE  TypeOK'
    BY <1>5 DEF CreatePersist, OrderStatus, EscrowRowStatus
<1>6. ASSUME NEW r \in Requests, CancelWrite(r) PROVE TypeOK'
    BY <1>6 DEF CancelWrite, OrderStatus
<1>7. ASSUME NEW r \in Requests, ReleaseCheck(r) PROVE TypeOK'
    BY <1>7 DEF ReleaseCheck
<1>8. ASSUME NEW r \in Requests, ReleaseApprove(r) PROVE TypeOK'
    BY <1>8 DEF ReleaseApprove
<1>9. ASSUME NEW r \in Requests, ReleaseIssue(r) PROVE TypeOK'
    BY <1>9 DEF ReleaseIssue
<1>10. ASSUME NEW r \in Requests, SyncSend(r) PROVE TypeOK'
    BY <1>10 DEF SyncSend, FactOfAction
<1>11. ASSUME NEW r \in Requests, SyncWrite(r) PROVE TypeOK'
    BY <1>11 DEF SyncWrite, SyncedStatus, SyncAction, EscrowRowStatus
<1>12. ASSUME NEW r \in Requests, RequestFails(r) PROVE TypeOK'
    BY <1>12 DEF RequestFails
<1>13. ASSUME NEW o \in Orders, NEW s \in ClientStatuses \cup {orders[o]}, NEW d \in BOOLEAN,
              UpdateOrder(o, s, d)
       PROVE  TypeOK'
    BY <1>13 DEF UpdateOrder
<1>14. ASSUME NEW o \in Orders, RemoveOrder(o) PROVE TypeOK'
    BY <1>14 DEF RemoveOrder
<1>15. ASSUME NEW o \in Orders, RemoveEscrow(o) PROVE TypeOK'
    BY <1>15 DEF RemoveEscrow
<1>16. ASSUME NEW o \in Orders, MarkFiatSent(o) PROVE TypeOK'
    BY <1>16 DEF MarkFiatSent
<1>17. ASSUME NEW o \in Orders, Expires(o) PROVE TypeOK'
    BY <1>17 DEF Expires
<1>18. ASSUME NEW o \in Orders, NEW a \in XdrAction, WalletSubmits(o, a) PROVE TypeOK'
    BY <1>18 DEF WalletSubmits, FactOfAction
<1>19. ASSUME NEW o \in Orders, NEW f \in {"refunded", "cancelled", "disputed"},
              ResolverActs(o, f)
       PROVE  TypeOK'
    BY <1>19 DEF ResolverActs
<1>20. ASSUME NEW j \in Jobs, ExpireOrdersRead(j) PROVE TypeOK'
    BY <1>20 DEF ExpireOrdersRead, Decision
<1>21. ASSUME NEW j \in Jobs, NEW d \in jobs[j], ProcessExpiredOrder(j, d) PROVE TypeOK'
    BY <1>21 DEF ProcessExpiredOrder, Decision, OrderStatus
<1>22. ASSUME NEW o \in Orders, NEW e \in EventType, ListenerRead(o, e) PROVE TypeOK'
    BY <1>22 DEF ListenerRead, Delivery
<1>23. ASSUME NEW x \in listener, ListenerCommit(x) PROVE TypeOK'
    BY <1>23 DEF ListenerCommit, Delivery, EscrowStatusOf, OrderStatusOf, EventType,
                 OrderStatus, EscrowRowStatus
<1>24. ASSUME NEW x \in listener, ListenerRollback(x) PROVE TypeOK'
    BY <1>24 DEF ListenerRollback
<1>25. CASE Crash
    BY <1>25 DEF Crash
<1>26. CASE UNCHANGED vars
    BY <1>26 DEF vars
<1> HIDE DEF TypeOK, Request, XdrAction, ChainFact, Execute, Suspend, Finish
<1>27. QED
    BY <1>1, <1>2, <1>3, <1>4, <1>5, <1>6, <1>7, <1>8, <1>9, <1>10, <1>11, <1>12, <1>13,
       <1>14, <1>15, <1>16, <1>17, <1>18, <1>19, <1>20, <1>21, <1>22, <1>23, <1>24, <1>25,
       <1>26, NextCases DEF vars

\* Facts on chain are never taken back, so a conjunct survives every step that leaves
\* the rows, handlers or deliveries it speaks of alone.
LEMMA Persistence ==
    ASSUME IInv, TypeOK', \A o \in Orders : chain[o] \subseteq chain'[o]
    PROVE  /\ UNCHANGED escrows => EscrowWitnessed'
           /\ UNCHANGED orders => OrderWitnessed'
           /\ UNCHANGED chain => ReleaseNeedsFiatSent' /\ ChainOrdered'
           /\ UNCHANGED req => RequestsWitnessed'
           /\ UNCHANGED listener => ListenerWitnessed'
<1> USE DEF IInv, TypeOK
<1>1. ASSUME UNCHANGED escrows PROVE EscrowWitnessed'
    BY <1>1 DEF EscrowWitnessed, HasEscrow
<1>2. ASSUME UNCHANGED orders PROVE OrderWitnessed'
    BY <1>2 DEF OrderWitnessed
<1>3. ASSUME UNCHANGED chain PROVE ReleaseNeedsFiatSent' /\ ChainOrdered'
    BY <1>3 DEF ReleaseNeedsFiatSent, ChainOrdered
<1>4. ASSUME UNCHANGED req PROVE RequestsWitnessed'
    BY <1>4 DEF RequestsWitnessed, Request
<1>5. ASSUME UNCHANGED listener PROVE ListenerWitnessed'
    BY <1>5 DEF ListenerWitnessed, Delivery
<1>6. QED
    BY <1>1, <1>2, <1>3, <1>4, <1>5

\* The listener's tables write no status that the event does not witness.
LEMMA EventTables ==
    ASSUME NEW e \in EventType
    PROVE  /\ EscrowStatusOf[e] \notin {NoRow, "fiat_sent"}
           /\ EscrowStatusOf[e] = "funded" => FactOfEvent[e] = "funded"
           /\ EscrowStatusOf[e] = "released" => FactOfEvent[e] = "released"
           /\ EscrowStatusOf[e] = "disputed" => FactOfEvent[e] = "disputed"
           /\ EscrowStatusOf[e] = "resolved" => FactOfEvent[e] \in {"refunded", "cancelled"}
           /\ OrderStatusOf[e] = "locked" => FactOfEvent[e] = "funded"
           /\ OrderStatusOf[e] = "released" => FactOfEvent[e] = "released"
           /\ OrderStatusOf[e] = "disputed" => FactOfEvent[e] = "disputed"
BY DEF EventType, EscrowStatusOf, OrderStatusOf, FactOfEvent, NoRow

\* Every step keeps the strengthened invariant.
LEMMA StepInv == IInv /\ [Next]_vars => IInv'
<1> SUFFICES ASSUME IInv, [Next]_vars PROVE IInv'
    OBVIOUS
<1>0. TypeOK /\ TypeOK'
    BY TypeStep DEF IInv
<1>1. ASSUME NEW r \in Requests, NEW o \in Orders, CreateDeploy(r, o) PROVE IInv'
    <2>1. \A y \in Orders : chain[y] \subseteq chain'[y]
        BY <1>0, <1>1 DEF TypeOK, CreateDeploy, Execute
    <2>2. ReleaseNeedsFiatSent'
        BY <1>0, <1>1
        DEF IInv, TypeOK, CreateDeploy, ReleaseNeedsFiatSent, Execute
    <2>3. ChainOrdered'
        BY <1>0, <1>1
        DEF IInv, TypeOK, CreateDeploy, ChainOrdered, Execute
    <2>4. RequestsWitnessed'
        BY <1>0, <1>1
        DEF IInv, TypeOK, CreateDeploy, RequestsWitnessed, Execute, Suspend, Idle, Request
    <2>5. QED
        BY <1>0, <1>1, <2>1, <2>2, <2>3, <2>4, Persistence DEF CreateDeploy, IInv
<1>2. ASSUME NEW r \in Requests, NEW o \in Orders, CancelRead(r, o) PROVE IInv'
    <2>1. RequestsWitnessed'
        BY <1>0, <1>2
        DEF IInv, TypeOK, CancelRead, RequestsWitnessed, Suspend, Idle, Request
    <2>2. QED
        BY <1>0, <1>2, <2>1, Persistence DEF CancelRead, IInv
<1>3. ASSUME NEW r \in Requests, NEW o \in Orders, ReleaseRead(r, o) PROVE IInv'
    <2>1. RequestsWitnessed'
        BY <1>0, <1>3
        DEF IInv, TypeOK, ReleaseRead, RequestsWitnessed, Suspend, Idle, Request
    <2>2. QED
        BY <1>0, <1>3, <2>1, Persistence DEF ReleaseRead, IInv
<1>4. ASSUME NEW r \in Requests, NEW o \in Orders, NEW a \in XdrAction,
              SyncRead(r, o, a)
       PROVE  IInv'
    <2>1. RequestsWitnessed'
        BY <1>0, <1>4
        DEF IInv, TypeOK, SyncRead, RequestsWitnessed, Suspend, Idle, Request
    <2>2. QED
        BY <1>0, <1>4, <2>1, Persistence DEF SyncRead, IInv
<1>5. ASSUME NEW r \in Requests, NEW s \in ClientStatuses \cup {"created"},
              CreatePersist(r, s)
       PROVE  IInv'
    <2>1. EscrowWitnessed'
        BY <1>0, <1>5
        DEF IInv, TypeOK, CreatePersist, EscrowWitnessed, RequestsWitnessed, HasEscrow,
            NoRow, Request
    <2>2. OrderWitnessed'
        BY <1>0, <1>5, ClientStatusesAssumption
        DEF IInv, TypeOK, CreatePersist, OrderWitnessed, Request
    <2>3. RequestsWitnessed'
        BY <1>0, <1>5
        DEF IInv, TypeOK, CreatePersist, RequestsWitnessed, Finish, Request
    <2>4. QED
        BY <1>0, <1>5, <2>1, <2>2, <2>3, Persistence DEF CreatePersist, IInv
<1>6. ASSUME NEW r \in Requests, CancelWrite(r) PROVE IInv'
    <2>1. OrderWitnessed'
        BY <1>0, <1>6
        DEF IInv, TypeOK, CancelWrite, OrderWitnessed, Request
    <2>2. RequestsWitnessed'
        BY <1>0, <1>6
        DEF IInv, TypeOK, CancelWrite, RequestsWitnessed, Finish, Request
    <2>3. QED
        BY <1>0, <1>6, <2>1, <2>2, Persistence DEF CancelWrite, IInv
<1>7. ASSUME NEW r \in Requests, ReleaseCheck(r) PROVE IInv'
    <2>1. RequestsWitnessed'
        BY <1>0, <1>7
        DEF IInv, TypeOK, ReleaseCheck, RequestsWitnessed, Suspend, Idle, Request
    <2>2. QED
        BY <1>0, <1>7, <2>1, Persistence DEF ReleaseCheck, IInv
<1>8. ASSUME NEW r \in Requests, ReleaseApprove(r) PROVE IInv'
    <2>1. \A y \in Orders : chain[y] \subseteq chain'[y]
        BY <1>0, <1>8 DEF TypeOK, ReleaseApprove, Execute
    <2>2. ReleaseNeedsFiatSent'
        BY <1>0, <1>8
        DEF IInv, TypeOK, ReleaseApprove, ReleaseNeedsFiatSent, Execute
    <2>3. ChainOrdered'
        BY <1>0, <1>8
        DEF IInv, TypeOK, ReleaseApprove, ChainOrdered, RequestsWitnessed, Execute,
            Accepts, Request
    <2>4. RequestsWitnessed'
        BY <1>0, <1>8
        DEF IInv, TypeOK, ReleaseApprove, RequestsWitnessed, Execute, Suspend, Finish,
            Idle, Request
    <2>5. QED
        BY <1>0, <1>8, <2>1, <2>2, <2>3, <2>4, Persistence DEF ReleaseApprove, IInv
<1>9. ASSUME NEW r \in Requests, ReleaseIssue(r) PROVE IInv'
    <2>1. RequestsWitnessed'
        BY <1>0, <1>9
        DEF IInv, TypeOK, ReleaseIssue, RequestsWitnessed, Finish, Request
    <2>2. QED
        BY <1>0, <1>9, <2>1, Persistence DEF ReleaseIssue, IInv
<1>10. ASSUME NEW r \in Requests, SyncSend(r) PROVE IInv'
    <2>1. \A y \in Orders : chain[y] \subseteq chain'[y]
        BY <1>0, <1>10 DEF TypeOK, SyncSend, Execute
    <2>2. ReleaseNeedsFiatSent'
        BY <1>0, <1>10
        DEF IInv, TypeOK, SyncSend, ReleaseNeedsFiatSent, ChainOrdered, Execute, Accepts,
            FactOfAction, XdrAction, Request
    <2>3. ChainOrdered'
        BY <1>0, <1>10
        DEF IInv, TypeOK, SyncSend, ChainOrdered, Execute, Accepts, FactOfAction,
            XdrAction, Request
    <2>4. RequestsWitnessed'
        BY <1>0, <1>10
        DEF IInv, TypeOK, SyncSend, RequestsWitnessed, Execute, Suspend, Finish, Idle,
            Request
    <2>5. QED
        BY <1>0, <1>10, <2>1, <2>2, <2>3, <2>4, Persistence DEF SyncSend, IInv
<1>11. ASSUME NEW r \in Requests, SyncWrite(r) PROVE IInv'
    <2>1. EscrowWitnessed'
        BY <1>0, <1>11
        DEF IInv, TypeOK, SyncWrite, EscrowWitnessed, RequestsWitnessed, ChainOrdered,
            HasEscrow, NoRow, Request, XdrAction, SyncAction, SyncedStatus, FactOfAction
    <2>2. RequestsWitnessed'
        BY <1>0, <1>11
        DEF IInv, TypeOK, SyncWrite, RequestsWitnessed, Finish, Request
    <2>3. QED
        BY <1>0, <1>11, <2>1, <2>2, Persistence DEF SyncWrite, IInv
<1>12. ASSUME NEW r \in Requests, RequestFails(r) PROVE IInv'
    <2>1. RequestsWitnessed'
        BY <1>0, <1>12
        DEF IInv, TypeOK, RequestFails, RequestsWitnessed, Finish, Request
    <2>2. QED
        BY <1>0, <1>12, <2>1, Persistence DEF RequestFails, IInv
<1>13. ASSUME NEW o \in Orders, NEW s \in ClientStatuses \cup {orders[o]},
              NEW d \in BOOLEAN, UpdateOrder(o, s, d) PROVE IInv'
    <2>1. OrderWitnessed'
        BY <1>0, <1>13, ClientStatusesAssumption
        DEF IInv, TypeOK, UpdateOrder, OrderWitnessed
    <2>2. QED
        BY <1>0, <1>13, <2>1, Persistence DEF UpdateOrder, IInv
<1>14. ASSUME NEW o \in Orders, RemoveOrder(o) PROVE IInv'
    <2>1. EscrowWitnessed'
        BY <1>0, <1>14
        DEF IInv, TypeOK, RemoveOrder, EscrowWitnessed, HasEscrow, NoRow
    <2>2. OrderWitnessed'
        BY <1>0, <1>14
        DEF IInv, TypeOK, RemoveOrder, OrderWitnessed, NoRow
    <2>3. QED
        BY <1>0, <1>14, <2>1, <2>2, Persistence DEF RemoveOrder, IInv
<1>15. ASSUME NEW o \in Orders, RemoveEscrow(o) PROVE IInv'
    <2>1. EscrowWitnessed'
        BY <1>0, <1>15
        DEF IInv, TypeOK, RemoveEscrow, EscrowWitnessed, HasEscrow, NoRow
    <2>2. QED
        BY <1>0, <1>15, <2>1, Persistence DEF RemoveEscrow, IInv
<1>16. ASSUME NEW o \in Orders, MarkFiatSent(o) PROVE IInv'
    BY <1>0, <1>16, Persistence DEF MarkFiatSent, IInv
<1>17. ASSUME NEW o \in Orders, Expires(o) PROVE IInv'
    BY <1>0, <1>17, Persistence DEF Expires, IInv
<1>18. ASSUME NEW o \in Orders, NEW a \in XdrAction, WalletSubmits(o, a) PROVE IInv'
    <2>1. \A y \in Orders : chain[y] \subseteq chain'[y]
        BY <1>0, <1>18 DEF TypeOK, WalletSubmits, Execute
    <2>2. ReleaseNeedsFiatSent'
        BY <1>0, <1>18
        DEF IInv, TypeOK, WalletSubmits, ReleaseNeedsFiatSent, ChainOrdered, Execute,
            Accepts, FactOfAction, XdrAction
    <2>3. ChainOrdered'
        BY <1>0, <1>18
        DEF IInv, TypeOK, WalletSubmits, ChainOrdered, Execute, Accepts, FactOfAction,
            XdrAction
    <2>4. QED
        BY <1>0, <1>18, <2>1, <2>2, <2>3, Persistence DEF WalletSubmits, IInv
<1>19. ASSUME NEW o \in Orders, NEW f \in {"refunded", "cancelled", "disputed"},
              ResolverActs(o, f)
       PROVE  IInv'
    <2>1. \A y \in Orders : chain[y] \subseteq chain'[y]
        BY <1>0, <1>19 DEF TypeOK, ResolverActs, Execute
    <2>2. ReleaseNeedsFiatSent'
        BY <1>0, <1>19
        DEF IInv, TypeOK, ResolverActs, ReleaseNeedsFiatSent, Execute
    <2>3. ChainOrdered'
        BY <1>0, <1>19
        DEF IInv, TypeOK, ResolverActs, ChainOrdered, Execute, Accepts
    <2>4. QED
        BY <1>0, <1>19, <2>1, <2>2, <2>3, Persistence DEF ResolverActs, IInv
<1>20. ASSUME NEW j \in Jobs, ExpireOrdersRead(j) PROVE IInv'
    BY <1>0, <1>20, Persistence DEF ExpireOrdersRead, IInv
<1>21. ASSUME NEW j \in Jobs, NEW d \in jobs[j], ProcessExpiredOrder(j, d) PROVE IInv'
    <2>1. OrderWitnessed'
        BY <1>0, <1>21
        DEF IInv, TypeOK, ProcessExpiredOrder, OrderWitnessed, Decision
    <2>2. QED
        BY <1>0, <1>21, <2>1, Persistence DEF ProcessExpiredOrder, IInv
<1>22. ASSUME NEW o \in Orders, NEW e \in EventType, ListenerRead(o, e) PROVE IInv'
    <2>1. ListenerWitnessed'
        BY <1>0, <1>22
        DEF IInv, TypeOK, ListenerRead, ListenerWitnessed
    <2>2. QED
        BY <1>0, <1>22, <2>1, Persistence DEF ListenerRead, IInv
<1>23. ASSUME NEW x \in listener, ListenerCommit(x) PROVE IInv'
    <2> x.order \in Orders /\ x.event \in EventType /\ FactOfEvent[x.event] \in chain[x.order]
        BY <1>0 DEF IInv, TypeOK, Delivery, ListenerWitnessed
    <2>1. EscrowWitnessed'
        BY <1>0, <1>23, EventTables
        DEF IInv, TypeOK, ListenerCommit, EscrowWitnessed, ChainOrdered, HasEscrow
    <2>2. OrderWitnessed'
        BY <1>0, <1>23, EventTables DEF IInv, TypeOK, ListenerCommit, OrderWitnessed
    <2>3. ListenerWitnessed'
        BY <1>0, <1>23
        DEF IInv, TypeOK, ListenerCommit, ListenerWitnessed
    <2>4. QED
        BY <1>0, <1>23, <2>1, <2>2, <2>3, Persistence DEF ListenerCommit, IInv
<1>24. ASSUME NEW x \in listener, ListenerRollback(x) PROVE IInv'
    <2>1. ListenerWitnessed'
        BY <1>0, <1>24
        DEF IInv, TypeOK, ListenerRollback, ListenerWitnessed
    <2>2. QED
        BY <1>0, <1>24, <2>1, Persistence DEF ListenerRollback, IInv
<1>25. CASE Crash
    <2>1. RequestsWitnessed'
        BY <1>0, <1>25
        DEF IInv, TypeOK, Crash, RequestsWitnessed, Request
    <2>2. ListenerWitnessed'
        BY <1>0, <1>25
        DEF IInv, TypeOK, Crash, ListenerWitnessed
    <2>3. QED
        BY <1>0, <1>25, <2>1, <2>2, Persistence DEF Crash, IInv
<1>26. CASE UNCHANGED vars
    BY <1>0, <1>26, Persistence DEF vars, IInv
<1>27. QED
    BY <1>0, <1>1, <1>2, <1>3, <1>4, <1>5, <1>6, <1>7, <1>8, <1>9, <1>10, <1>11, <1>12,
        <1>13, <1>14, <1>15, <1>16, <1>17, <1>18, <1>19, <1>20, <1>21, <1>22, <1>23, <1>24,
        <1>25, <1>26, NextCases

\* The strengthened invariant holds of an empty database and an empty chain.
THEOREM InitInv == Init => IInv
<1> SUFFICES ASSUME Init PROVE IInv
    OBVIOUS
<1>1. TypeOK
    BY DEF Init, TypeOK
<1>2. EscrowWitnessed /\ OrderWitnessed /\ ReleaseNeedsFiatSent /\ ChainOrdered
    BY DEF Init, EscrowWitnessed, OrderWitnessed, ReleaseNeedsFiatSent, ChainOrdered,
           HasEscrow, NoRow
<1>3. RequestsWitnessed /\ ListenerWitnessed
    BY DEF Init, RequestsWitnessed, ListenerWitnessed
<1>4. QED
    BY <1>1, <1>2, <1>3 DEF IInv

\* The strengthened invariant holds in every reachable state.
THEOREM Invariance == Spec => []IInv
<1>1. QED
    BY InitInv, StepInv, PTL DEF Spec

\* Every variable keeps its type, the listener's single event in hand included.
THEOREM TypeCorrect == Spec => []TypeOK
<1>1. IInv => TypeOK
    BY DEF IInv
<1>2. QED
    BY <1>1, Invariance, PTL

\* Whatever syncTransaction, processEvent, crashes, lost answers and deletions do, the
\* escrow row never claims what has not happened to the contract.
THEOREM EscrowNeverAhead == Spec => []EscrowWitnessed
<1>1. IInv => EscrowWitnessed
    BY DEF IInv
<1>2. QED
    BY <1>1, Invariance, PTL

\* The order row, which only the listener moves to locked, released or disputed, never
\* claims what has not happened to the contract.
THEOREM OrderNeverAhead == Spec => []OrderWitnessed
<1>1. IInv => OrderWitnessed
    BY DEF IInv
<1>2. QED
    BY <1>1, Invariance, PTL

\* The treasury's automatic approval in EscrowService.release cannot lead to a payout
\* before the buyer marked the fiat payment as sent.
THEOREM NoReleaseWithoutFiat == Spec => []ReleaseNeedsFiatSent
<1>1. IInv => ReleaseNeedsFiatSent
    BY DEF IInv
<1>2. QED
    BY <1>1, Invariance, PTL

---------------------------------------------------------------------------------
(***************************************************************************)
(* EscrowTrade implements EscrowPromise.  Beyond IInv this needs that a    *)
(* contract ends in one way only, and that whoever refers to an order,     *)
(* except the create that is about to store it, does so after its fund     *)
(* transaction was handed out.                                             *)
(***************************************************************************)

\* A contract ends once, and is called off only while it is empty.
EndsOnce ==
    \A o \in Orders :
        /\ "released" \in chain[o] => chain[o] \cap {"refunded", "cancelled"} = {}
        /\ "refunded" \in chain[o] => "cancelled" \notin chain[o]
        /\ "cancelled" \in chain[o] => "funded" \notin chain[o]

\* A contract comes before its fund transaction, its row and its funds after.
RowsOffered ==
    \A o \in Orders :
        /\ xdrs[o] # {} => chain[o] # {}
        /\ HasEscrow(o) => xdrs[o] # {}
        /\ "funded" \in chain[o] => xdrs[o] # {}

\* Release and sync are about orders whose fund transaction was handed out.
HandlersOffered ==
    \A r \in Requests :
        req[r] # Idle /\ req[r].pc \in {"check", "approve", "issue", "send"} =>
            xdrs[req[r].order] # {}

\* The create that deployed a contract is the only one to store its rows, and has not.
OfferPending ==
    /\ \A r \in Requests :
          req[r] # Idle /\ req[r].pc = "persist" => xdrs[req[r].order] = {}
    /\ \A r, q \in Requests :
          req[r] # Idle /\ req[r].pc = "persist" /\ req[q] # Idle /\ req[q].pc = "persist"
              /\ req[r].order = req[q].order => r = q

PInv == IInv /\ EndsOnce /\ RowsOffered /\ HandlersOffered /\ OfferPending

---------------------------------------------------------------------------------
(* The additional conjuncts are invariant *)

\* The rows' conjuncts survive a step that leaves contracts, rows and transactions alone,
\* the handlers' one that leaves handlers and transactions alone.
LEMMA QuietKeeps ==
    ASSUME PInv, UNCHANGED xdrs
    PROVE  /\ UNCHANGED <<chain, escrows>> => EndsOnce' /\ RowsOffered'
           /\ UNCHANGED req => HandlersOffered' /\ OfferPending'
BY DEF PInv, EndsOnce, RowsOffered, HandlersOffered, OfferPending, HasEscrow

\* A handler ends.
LEMMA FinishKeeps ==
    ASSUME PInv, NEW r \in Requests, Finish(r), UNCHANGED xdrs
    PROVE  HandlersOffered' /\ OfferPending'
<1>1. \A q \in Requests : req'[q] # Idle => req'[q] = req[q]
    BY DEF Finish, PInv, IInv, TypeOK
<1>2. QED
    BY <1>1 DEF PInv, HandlersOffered, OfferPending

\* A handler moves on, for an order whose transaction was handed out where that matters.
LEMMA MoveKeeps ==
    ASSUME PInv, NEW r \in Requests,
           NEW pc \in {"check", "approve", "issue", "send", "write", "cancel"}, NEW o, NEW a,
           Suspend(r, pc, o, a), UNCHANGED xdrs,
           pc \in {"check", "approve", "issue", "send"} => xdrs[o] # {}
    PROVE  HandlersOffered' /\ OfferPending'
<1>1. req'[r].pc = pc /\ req'[r].order = o /\ \A q \in Requests \ {r} : req'[q] = req[q]
    BY DEF Suspend, PInv, IInv, TypeOK
<1>2. QED
    BY <1>1 DEF PInv, HandlersOffered, OfferPending

\* The contract accepts a fact.
LEMMA FactKeeps ==
    ASSUME PInv, NEW o \in Orders,
           NEW f \in {"funded", "fiat_sent", "approved", "released", "refunded", "cancelled",
                      "disputed"},
           Accepts(o, f), Execute(o, f), f = "funded" => xdrs[o] # {},
           UNCHANGED <<escrows, xdrs>>
    PROVE  EndsOnce' /\ RowsOffered'
<1> TypeOK
    BY DEF PInv, IInv
<1>1. EndsOnce'
    BY DEF PInv, EndsOnce, Accepts, Execute, Settled, TypeOK
<1>2. RowsOffered'
    BY DEF PInv, RowsOffered, HasEscrow, Execute, TypeOK
<1>3. QED
    BY <1>1, <1>2

\* An action's fact is one FactKeeps speaks of.
LEMMA ActionFacts ==
    ASSUME NEW a \in XdrAction
    PROVE  /\ FactOfAction[a] \in {"funded", "fiat_sent", "released"}
           /\ FactOfAction[a] # "approved"
BY DEF XdrAction, FactOfAction

\* Every step keeps the additional conjuncts.
LEMMA PromiseStepInv == PInv /\ [Next]_vars => PInv'
<1> SUFFICES ASSUME PInv, [Next]_vars PROVE PInv'
    OBVIOUS
<1> DEFINE Extra == EndsOnce /\ RowsOffered /\ HandlersOffered /\ OfferPending
<1>0. TypeOK /\ IInv /\ IInv'
    BY StepInv DEF PInv, IInv
<1>1. ASSUME NEW r \in Requests, NEW o \in Orders, CreateDeploy(r, o) PROVE Extra'
    <2>1. /\ chain'[o] = {"deployed"} /\ xdrs[o] = {}
          /\ \A p \in Orders \ {o} : chain'[p] = chain[p]
        BY <1>0, <1>1 DEF CreateDeploy, Execute, TypeOK, PInv, RowsOffered
    <2>2. /\ req'[r].pc = "persist" /\ req'[r].order = o
          /\ \A q \in Requests \ {r} : req'[q] = req[q]
        BY <1>0, <1>1 DEF CreateDeploy, Suspend, TypeOK
    <2>3. \A q \in Requests : req[q] # Idle /\ req[q].pc = "persist" => req[q].order # o
        BY <1>0, <1>1 DEF CreateDeploy, IInv, RequestsWitnessed
    <2>4. EndsOnce' /\ RowsOffered'
        BY <1>1, <2>1 DEF CreateDeploy, PInv, EndsOnce, RowsOffered, HasEscrow
    <2>5. HandlersOffered' /\ OfferPending'
        BY <1>1, <2>1, <2>2, <2>3 DEF CreateDeploy, PInv, HandlersOffered, OfferPending
    <2>6. QED
        BY <2>4, <2>5
<1>2. ASSUME NEW r \in Requests, NEW o \in Orders, CancelRead(r, o) PROVE Extra'
    BY <1>2, QuietKeeps, MoveKeeps DEF CancelRead
<1>3. ASSUME NEW r \in Requests, NEW o \in Orders, ReleaseRead(r, o) PROVE Extra'
    <2>1. xdrs[o] # {}
        BY <1>3 DEF ReleaseRead, PInv, RowsOffered, HasEscrow, NoRow
    <2>2. QED
        BY <1>3, <2>1, QuietKeeps, MoveKeeps DEF ReleaseRead
<1>4. ASSUME NEW r \in Requests, NEW o \in Orders, NEW a \in XdrAction, SyncRead(r, o, a)
      PROVE  Extra'
    BY <1>4, QuietKeeps, MoveKeeps DEF SyncRead
<1>5. ASSUME NEW r \in Requests, NEW s \in ClientStatuses \cup {"created"}, CreatePersist(r, s)
      PROVE  Extra'
    <2> DEFINE o == req[r].order
    <2>1. o \in Orders /\ req'[r] = Idle /\ \A q \in Requests \ {r} : req'[q] = req[q]
        BY <1>0, <1>5 DEF CreatePersist, Finish, TypeOK, Request
    <2>2. /\ xdrs'[o] = {"fund"}
          /\ \A p \in Orders \ {o} : xdrs'[p] = xdrs[p] /\ escrows'[p] = escrows[p]
        BY <1>0, <1>5, <2>1 DEF CreatePersist, TypeOK
    <2>3. chain[o] # {} /\ UNCHANGED chain
        BY <1>0, <1>5 DEF CreatePersist, IInv, RequestsWitnessed
    <2>4. \A q \in Requests \ {r} : req[q] # Idle /\ req[q].pc = "persist" => req[q].order # o
        BY <1>5 DEF CreatePersist, PInv, OfferPending
    <2>5. \A q \in Requests : req[q] # Idle => req[q].order \in Orders
        BY <1>0 DEF TypeOK, Request
    <2> HIDE DEF o
    <2>6. EndsOnce' /\ RowsOffered'
        BY <2>1, <2>2, <2>3 DEF PInv, EndsOnce, RowsOffered, HasEscrow
    <2>7. HandlersOffered' /\ OfferPending'
        BY <2>1, <2>2, <2>4, <2>5 DEF PInv, HandlersOffered, OfferPending
    <2>8. QED
        BY <2>6, <2>7
<1>6. ASSUME NEW r \in Requests, CancelWrite(r) \/ RequestFails(r) PROVE Extra'
    BY <1>6, QuietKeeps, FinishKeeps DEF CancelWrite, RequestFails
<1>7. ASSUME NEW r \in Requests, ReleaseCheck(r) PROVE Extra'
    <2>1. xdrs[req[r].order] # {}
        BY <1>7 DEF ReleaseCheck, PInv, HandlersOffered
    <2>2. QED
        BY <1>7, <2>1, QuietKeeps, MoveKeeps DEF ReleaseCheck
<1>8. ASSUME NEW r \in Requests, ReleaseApprove(r) PROVE Extra'
    <2>1. xdrs[req[r].order] # {} /\ req[r].order \in Orders
        BY <1>0, <1>8 DEF ReleaseApprove, PInv, HandlersOffered, TypeOK, Request
    <2>2. EndsOnce' /\ RowsOffered'
        BY <1>8, <2>1, FactKeeps DEF ReleaseApprove
    <2>3. HandlersOffered' /\ OfferPending'
        BY <1>8, <2>1, FinishKeeps, MoveKeeps DEF ReleaseApprove
    <2>4. QED
        BY <2>2, <2>3
<1>9. ASSUME NEW r \in Requests, ReleaseIssue(r) PROVE Extra'
    <2> DEFINE o == req[r].order
    <2>1. /\ o \in Orders /\ xdrs[o] # {}
          /\ \A q \in Requests : req'[q] # Idle => req'[q] = req[q]
          /\ \A p \in Orders : xdrs'[p] # {} <=> xdrs[p] # {}
        BY <1>0, <1>9
        DEF ReleaseIssue, Finish, TypeOK, Request, PInv, HandlersOffered
    <2>2. \A q \in Requests : req[q] # Idle => req[q].order \in Orders
        BY <1>0 DEF TypeOK, Request
    <2>3. EndsOnce' /\ RowsOffered'
        BY <1>9, <2>1 DEF ReleaseIssue, PInv, EndsOnce, RowsOffered, HasEscrow
    <2>4. HandlersOffered' /\ OfferPending'
        BY <2>1, <2>2 DEF PInv, HandlersOffered, OfferPending
    <2>5. QED
        BY <2>3, <2>4
<1>10. ASSUME NEW r \in Requests, SyncSend(r) PROVE Extra'
    <2>1. /\ xdrs[req[r].order] # {} /\ req[r].order \in Orders
          /\ req[r].action \in XdrAction
        BY <1>0, <1>10 DEF SyncSend, PInv, HandlersOffered, TypeOK, Request
    <2>2. EndsOnce' /\ RowsOffered'
        BY <1>10, <2>1, FactKeeps, ActionFacts DEF SyncSend
    <2>3. HandlersOffered' /\ OfferPending'
        BY <1>10, <2>1, FinishKeeps, MoveKeeps DEF SyncSend
    <2>4. QED
        BY <2>2, <2>3
<1>11. ASSUME NEW r \in Requests, SyncWrite(r) PROVE Extra'
    <2>1. \A p \in Orders : HasEscrow(p)' => HasEscrow(p)
        BY <1>0, <1>11 DEF SyncWrite, TypeOK, HasEscrow
    <2>2. EndsOnce' /\ RowsOffered'
        BY <1>11, <2>1 DEF SyncWrite, PInv, EndsOnce, RowsOffered
    <2>3. QED
        BY <1>11, <2>2, FinishKeeps DEF SyncWrite
<1>12. ASSUME NEW o \in Orders, NEW s \in ClientStatuses \cup {orders[o]}, NEW d \in BOOLEAN,
              UpdateOrder(o, s, d)
       PROVE  Extra'
    BY <1>12, QuietKeeps DEF UpdateOrder
<1>13. ASSUME NEW o \in Orders, RemoveOrder(o) \/ RemoveEscrow(o) PROVE Extra'
    <2>1. \A p \in Orders : HasEscrow(p)' => HasEscrow(p)
        BY <1>0, <1>13 DEF RemoveOrder, RemoveEscrow, TypeOK, HasEscrow
    <2>2. EndsOnce' /\ RowsOffered'
        BY <1>13, <2>1 DEF RemoveOrder, RemoveEscrow, PInv, EndsOnce, RowsOffered
    <2>3. QED
        BY <1>13, <2>2, QuietKeeps DEF RemoveOrder, RemoveEscrow
<1>14. ASSUME NEW o \in Orders, MarkFiatSent(o) PROVE Extra'
    <2>1. \A p \in Orders : xdrs'[p] # {} <=> xdrs[p] # {}
        BY <1>0, <1>14 DEF MarkFiatSent, TypeOK, PInv, RowsOffered, HasEscrow, NoRow
    <2>2. \A q \in Requests : req[q] # Idle => req[q].order \in Orders
        BY <1>0 DEF TypeOK, Request
    <2>3. EndsOnce' /\ RowsOffered'
        BY <1>14, <2>1 DEF MarkFiatSent, PInv, EndsOnce, RowsOffered, HasEscrow
    <2>4. HandlersOffered' /\ OfferPending'
        BY <1>14, <2>1, <2>2 DEF MarkFiatSent, PInv, HandlersOffered, OfferPending
    <2>5. QED
        BY <2>3, <2>4
<1>15. ASSUME NEW o \in Orders, Expires(o) PROVE Extra'
    BY <1>15, QuietKeeps DEF Expires
<1>16. ASSUME NEW o \in Orders, NEW a \in XdrAction, WalletSubmits(o, a) PROVE Extra'
    BY <1>16, QuietKeeps, FactKeeps, ActionFacts DEF WalletSubmits
<1>17. ASSUME NEW o \in Orders, NEW f \in {"refunded", "cancelled", "disputed"},
              ResolverActs(o, f)
       PROVE  Extra'
    BY <1>17, QuietKeeps, FactKeeps DEF ResolverActs
<1>18. ASSUME NEW j \in Jobs, ExpireOrdersRead(j) PROVE Extra'
    BY <1>18, QuietKeeps DEF ExpireOrdersRead
<1>19. ASSUME NEW j \in Jobs, NEW d \in jobs[j], ProcessExpiredOrder(j, d) PROVE Extra'
    BY <1>19, QuietKeeps DEF ProcessExpiredOrder
<1>20. ASSUME NEW o \in Orders, NEW e \in EventType, ListenerRead(o, e) PROVE Extra'
    BY <1>20, QuietKeeps DEF ListenerRead
<1>21. ASSUME NEW x \in listener, ListenerCommit(x) PROVE Extra'
    <2>1. \A p \in Orders : HasEscrow(p)' => HasEscrow(p)
        BY <1>0, <1>21 DEF ListenerCommit, TypeOK, HasEscrow
    <2>2. EndsOnce' /\ RowsOffered'
        BY <1>21, <2>1 DEF ListenerCommit, PInv, EndsOnce, RowsOffered
    <2>3. QED
        BY <1>21, <2>2, QuietKeeps DEF ListenerCommit
<1>22. ASSUME NEW x \in listener, ListenerRollback(x) PROVE Extra'
    BY <1>22, QuietKeeps DEF ListenerRollback
<1>23. ASSUME Crash PROVE Extra'
    <2>1. HandlersOffered' /\ OfferPending'
        BY <1>23 DEF Crash, HandlersOffered, OfferPending
    <2>2. QED
        BY <1>23, <2>1, QuietKeeps DEF Crash
<1>24. ASSUME UNCHANGED vars PROVE Extra'
    BY <1>24, QuietKeeps DEF vars
<1>25. Extra'
    BY <1>0, <1>1, <1>2, <1>3, <1>4, <1>5, <1>6, <1>7, <1>8, <1>9, <1>10, <1>11, <1>12,
       <1>13, <1>14, <1>15, <1>16, <1>17, <1>18, <1>19, <1>20, <1>21, <1>22, <1>23, <1>24,
       NextCases
<1>26. QED
    BY <1>0, <1>25 DEF PInv

---------------------------------------------------------------------------------
(* Steps of the trade as steps of the promise *)

\* Where the money is, case by case.
LEMMA MoneyCases ==
    ASSUME NEW S
    PROVE  /\ "released" \in S => MoneyOf(S) = "buyer"
           /\ "released" \notin S /\ "refunded" \in S => MoneyOf(S) = "returned"
           /\ "released" \notin S /\ "refunded" \notin S =>
                 /\ "cancelled" \in S => MoneyOf(S) = "called off"
                 /\ "cancelled" \notin S /\ "funded" \in S => MoneyOf(S) = "escrow"
                 /\ "cancelled" \notin S /\ "funded" \notin S => MoneyOf(S) = "seller"
BY DEF MoneyOf

\* Nothing the promise speaks of changes.
LEMMA QuietStutters ==
    ASSUME UNCHANGED <<chain, escrows>>, \A o \in Orders : xdrs'[o] # {} <=> xdrs[o] # {}
    PROVE  UNCHANGED Promise!vars
BY DEF Promise!vars

\* The contract accepts a fact: a step of the promise, or one it does not see.
LEMMA FactSteps ==
    ASSUME PInv, NEW o \in Orders,
           NEW f \in {"funded", "fiat_sent", "approved", "released", "refunded", "cancelled",
                      "disputed"},
           Accepts(o, f), Execute(o, f), f = "funded" => xdrs[o] # {},
           UNCHANGED <<escrows, xdrs>>
    PROVE  [Promise!Next]_(Promise!vars)
<1> DEFINE offers == {p \in Orders : xdrs[p] # {}}
           moneys == [p \in Orders |-> MoneyOf(chain[p])]
           fiats == {p \in Orders : "fiat_sent" \in chain[p]}
           claims == [p \in Orders |-> ClaimOf(escrows[p])]
<1>0. /\ chain \in [Orders -> SUBSET ChainFact]
      /\ "released" \notin chain[o] /\ "refunded" \notin chain[o]
      /\ "cancelled" \notin chain[o]
      /\ chain'[o] = chain[o] \cup {f}
      /\ \A p \in Orders \ {o} : chain'[p] = chain[p]
    BY DEF PInv, IInv, TypeOK, Accepts, Settled, Execute
<1>1. offers' = offers /\ claims' = claims
    OBVIOUS
<1>2. /\ f # "fiat_sent" => fiats' = fiats
      /\ f = "fiat_sent" => fiats' = fiats \cup {o}
    BY <1>0
<1>3. moneys' = [moneys EXCEPT ![o] = MoneyOf(chain'[o])] /\ moneys[o] = MoneyOf(chain[o])
    BY <1>0
<1>4. CASE f = "funded"
    <2>1. moneys[o] = "seller" /\ MoneyOf(chain'[o]) = "escrow" /\ o \in offers
        BY <1>0, <1>3, <1>4, MoneyCases DEF Accepts
    <2>2. Promise!Deposit(o)
        BY <1>1, <1>2, <1>3, <1>4, <2>1 DEF Promise!Deposit
    <2>3. QED
        BY <2>2 DEF Promise!Next
<1>5. CASE f = "fiat_sent"
    <2>1. moneys[o] = "escrow" /\ MoneyOf(chain'[o]) = "escrow"
        BY <1>0, <1>3, <1>5, MoneyCases DEF Accepts
    <2>2. moneys' = moneys
        BY <1>3, <2>1
    <2>3. Promise!ConfirmFiat(o)
        BY <1>1, <1>2, <1>5, <2>1, <2>2 DEF Promise!ConfirmFiat
    <2>4. QED
        BY <2>3 DEF Promise!Next
<1>6. CASE f = "released"
    <2>1. moneys[o] = "escrow" /\ MoneyOf(chain'[o]) = "buyer" /\ o \in fiats
        BY <1>0, <1>3, <1>6, MoneyCases DEF Accepts, PInv, IInv, ChainOrdered
    <2>2. Promise!Pay(o)
        BY <1>1, <1>2, <1>3, <1>6, <2>1 DEF Promise!Pay
    <2>3. QED
        BY <2>2 DEF Promise!Next
<1>7. CASE f = "refunded"
    <2>1. moneys[o] = "escrow" /\ MoneyOf(chain'[o]) = "returned"
        BY <1>0, <1>3, <1>7, MoneyCases DEF Accepts
    <2>2. Promise!Return(o)
        BY <1>1, <1>2, <1>3, <1>7, <2>1 DEF Promise!Return
    <2>3. QED
        BY <2>2 DEF Promise!Next
<1>8. CASE f = "cancelled"
    <2>1. moneys[o] = "seller" /\ MoneyOf(chain'[o]) = "called off"
        BY <1>0, <1>3, <1>8, MoneyCases DEF Accepts
    <2>2. Promise!CallOff(o)
        BY <1>1, <1>2, <1>3, <1>8, <2>1 DEF Promise!CallOff
    <2>3. QED
        BY <2>2 DEF Promise!Next
<1>9. CASE f \in {"approved", "disputed"}
    <2>1. MoneyOf(chain'[o]) = moneys[o]
        BY <1>0, <1>3, <1>9, MoneyCases DEF Accepts
    <2>2. moneys' = moneys
        BY <1>3, <2>1
    <2>3. QED
        BY <1>1, <1>2, <1>9, <2>2 DEF Promise!vars
<1>10. QED
    BY <1>4, <1>5, <1>6, <1>7, <1>8, <1>9

\* What a row with this status says is so.
LEMMA ClaimsJustified ==
    ASSUME PInv, NEW o \in Orders, NEW s \in EscrowRowStatus,
           xdrs[o] # {},
           s \in {"funded", "disputed"} => "funded" \in chain[o],
           s = "fiat_sent" => "fiat_sent" \in chain[o],
           s = "released" => "released" \in chain[o],
           s = "resolved" => chain[o] \cap {"refunded", "cancelled"} # {}
    PROVE  ClaimOf(s) \in Promise!Claim /\ Promise!Justified(o, ClaimOf(s))
<1> DEFINE moneys == [p \in Orders |-> MoneyOf(chain[p])]
<1>0. moneys[o] = MoneyOf(chain[o])
    OBVIOUS
<1> HIDE DEF moneys
<1>1. ASSUME "funded" \in chain[o] PROVE moneys[o] \in {"escrow", "buyer", "returned"}
    BY <1>0, <1>1, MoneyCases DEF PInv, EndsOnce
<1>2. ASSUME "released" \in chain[o] PROVE moneys[o] = "buyer"
    BY <1>0, <1>2, MoneyCases
<1>3. ASSUME chain[o] \cap {"refunded", "cancelled"} # {}
      PROVE  moneys[o] \in {"returned", "called off"}
    BY <1>0, <1>3, MoneyCases DEF PInv, EndsOnce
<1>4. /\ s \in {"pending", "initialized"} => ClaimOf(s) = "empty"
      /\ s \in {"funded", "disputed"} => ClaimOf(s) = "held"
      /\ s = "fiat_sent" => ClaimOf(s) = "fiat sent"
      /\ s = "released" => ClaimOf(s) = "paid"
      /\ s = "resolved" => ClaimOf(s) = "ended"
    BY DEF ClaimOf, NoRow
<1> USE DEF moneys
<1>5. CASE s \in {"pending", "initialized"}
    BY <1>4, <1>5 DEF Promise!Justified, Promise!Claim
<1>6. CASE s \in {"funded", "disputed"}
    BY <1>1, <1>4, <1>6 DEF Promise!Justified, Promise!Claim
<1>7. CASE s = "fiat_sent"
    BY <1>4, <1>7 DEF Promise!Justified, Promise!Claim
<1>8. CASE s = "released"
    BY <1>2, <1>4, <1>8 DEF Promise!Justified, Promise!Claim
<1>9. CASE s = "resolved"
    BY <1>3, <1>4, <1>9 DEF Promise!Justified, Promise!Claim
<1>10. QED
    BY <1>5, <1>6, <1>7, <1>8, <1>9 DEF EscrowRowStatus

\* A row is rewritten, or deleted: the platform says something.
LEMMA RowSteps ==
    ASSUME TypeOK, NEW o \in Orders, NEW s, escrows' = [escrows EXCEPT ![o] = s],
           ClaimOf(s) \in Promise!Claim, Promise!Justified(o, ClaimOf(s)),
           UNCHANGED <<chain, xdrs>>
    PROVE  [Promise!Next]_(Promise!vars)
<1> DEFINE claims == [p \in Orders |-> ClaimOf(escrows[p])]
<1>1. claims' = [claims EXCEPT ![o] = ClaimOf(s)]
    BY DEF TypeOK
<1>2. Promise!Say(o, ClaimOf(s))
    BY <1>1 DEF Promise!Say
<1>3. QED
    BY <1>2 DEF Promise!Next

\* create stores the rows and hands the fund transaction out.
LEMMA PersistOffers ==
    ASSUME PInv, NEW r \in Requests, NEW s, CreatePersist(r, s)
    PROVE  Promise!Next
<1> DEFINE offers == {p \in Orders : xdrs[p] # {}}
           claims == [p \in Orders |-> ClaimOf(escrows[p])]
<1>0. PICK o \in Orders : o = req[r].order
    BY DEF PInv, IInv, TypeOK, Request, CreatePersist
<1>1. TypeOK /\ xdrs[o] = {}
    BY <1>0 DEF PInv, IInv, OfferPending, CreatePersist
<1>2. offers' = offers \cup {o} /\ o \notin offers
    BY <1>0, <1>1 DEF CreatePersist, TypeOK
<1>3. claims' = [claims EXCEPT ![o] = ClaimOf("initialized")]
    BY <1>0, <1>1 DEF CreatePersist, TypeOK
<1>4. ClaimOf("initialized") = "empty"
    BY DEF ClaimOf, NoRow
<1>5. UNCHANGED chain
    BY DEF CreatePersist
<1>6. Promise!Offer(o)
    BY <1>2, <1>3, <1>4, <1>5 DEF Promise!Offer
<1>7. QED
    BY <1>6 DEF Promise!Next

\* Every step of the trade is a step of the promise, or one it does not see.
LEMMA PromiseStep == PInv /\ [Next]_vars => [Promise!Next]_(Promise!vars)
<1> SUFFICES ASSUME PInv, [Next]_vars PROVE [Promise!Next]_(Promise!vars)
    OBVIOUS
<1>0. TypeOK
    BY DEF PInv, IInv
<1>1. ASSUME NEW r \in Requests, NEW o \in Orders, CreateDeploy(r, o)
      PROVE  UNCHANGED Promise!vars
    <2>1. /\ chain'[o] = {"deployed"} /\ chain[o] = {}
          /\ \A p \in Orders \ {o} : chain'[p] = chain[p]
        BY <1>0, <1>1 DEF CreateDeploy, Execute, TypeOK
    <2>2. MoneyOf({"deployed"}) = MoneyOf({})
        BY DEF MoneyOf
    <2>3. /\ [p \in Orders |-> MoneyOf(chain[p])]' = [p \in Orders |-> MoneyOf(chain[p])]
          /\ {p \in Orders : "fiat_sent" \in chain[p]}'
                = {p \in Orders : "fiat_sent" \in chain[p]}
        BY <2>1, <2>2
    <2>4. UNCHANGED <<escrows, xdrs>>
        BY <1>1 DEF CreateDeploy
    <2>5. QED
        BY <2>3, <2>4 DEF Promise!vars
<1>2. ASSUME NEW r \in Requests,
             \/ \E o \in Orders : CancelRead(r, o) \/ ReleaseRead(r, o)
             \/ \E o \in Orders, a \in XdrAction : SyncRead(r, o, a)
             \/ CancelWrite(r) \/ ReleaseCheck(r) \/ RequestFails(r)
      PROVE  UNCHANGED Promise!vars
    BY <1>2, QuietStutters
    DEF CancelRead, ReleaseRead, SyncRead, CancelWrite, ReleaseCheck, RequestFails
<1>3. ASSUME NEW r \in Requests, ReleaseIssue(r) PROVE UNCHANGED Promise!vars
    <2>1. \A p \in Orders : xdrs'[p] # {} <=> xdrs[p] # {}
        BY <1>0, <1>3 DEF ReleaseIssue, TypeOK, Request, PInv, HandlersOffered
    <2>2. QED
        BY <1>3, <2>1, QuietStutters DEF ReleaseIssue
<1>4. ASSUME NEW o \in Orders, MarkFiatSent(o) PROVE UNCHANGED Promise!vars
    <2>1. \A p \in Orders : xdrs'[p] # {} <=> xdrs[p] # {}
        BY <1>0, <1>4 DEF MarkFiatSent, TypeOK, PInv, RowsOffered, HasEscrow, NoRow
    <2>2. QED
        BY <1>4, <2>1, QuietStutters DEF MarkFiatSent
<1>5. ASSUME NEW r \in Requests, ReleaseApprove(r) PROVE [Promise!Next]_(Promise!vars)
    <2>1. req[r].order \in Orders
        BY <1>0, <1>5 DEF ReleaseApprove, TypeOK, Request
    <2>2. QED
        BY <1>5, <2>1, FactSteps DEF ReleaseApprove
<1>6. ASSUME NEW r \in Requests, SyncSend(r) PROVE [Promise!Next]_(Promise!vars)
    <2>1. /\ xdrs[req[r].order] # {} /\ req[r].order \in Orders
          /\ req[r].action \in XdrAction
        BY <1>0, <1>6 DEF SyncSend, PInv, HandlersOffered, TypeOK, Request
    <2>2. QED
        BY <1>6, <2>1, FactSteps, ActionFacts DEF SyncSend
<1>7. ASSUME NEW o \in Orders, NEW a \in XdrAction, WalletSubmits(o, a)
      PROVE  [Promise!Next]_(Promise!vars)
    BY <1>7, FactSteps, ActionFacts DEF WalletSubmits
<1>8. ASSUME NEW o \in Orders, NEW f \in {"refunded", "cancelled", "disputed"},
             ResolverActs(o, f)
      PROVE  [Promise!Next]_(Promise!vars)
    BY <1>8, FactSteps DEF ResolverActs
<1>9. ASSUME NEW r \in Requests, SyncWrite(r) PROVE [Promise!Next]_(Promise!vars)
    <2> DEFINE o == req[r].order
               a == req[r].action
    <2>1. /\ o \in Orders /\ a \in XdrAction /\ xdrs[o] # {} /\ FactOfAction[a] \in chain[o]
        BY <1>0, <1>9
        DEF SyncWrite, TypeOK, Request, PInv, IInv, RowsOffered, RequestsWitnessed
    <2>2. /\ SyncedStatus[a] \in EscrowRowStatus \ {"disputed", "resolved"}
          /\ SyncedStatus[a] = "funded" => FactOfAction[a] = "funded"
          /\ SyncedStatus[a] = "fiat_sent" => FactOfAction[a] = "fiat_sent"
          /\ SyncedStatus[a] = "released" => FactOfAction[a] = "released"
        BY <2>1 DEF XdrAction, SyncedStatus, SyncAction, FactOfAction, EscrowRowStatus
    <2>3. /\ ClaimOf(SyncedStatus[a]) \in Promise!Claim
          /\ Promise!Justified(o, ClaimOf(SyncedStatus[a]))
        BY <2>1, <2>2, ClaimsJustified
    <2>4. QED
        BY <1>0, <1>9, <2>1, <2>3, RowSteps DEF SyncWrite
<1>10. ASSUME NEW x \in listener, ListenerCommit(x) PROVE [Promise!Next]_(Promise!vars)
    <2>1. /\ x.order \in Orders /\ x.event \in EventType /\ xdrs[x.order] # {}
          /\ FactOfEvent[x.event] \in chain[x.order]
        BY <1>0, <1>10
        DEF ListenerCommit, TypeOK, Delivery, PInv, IInv, RowsOffered, ListenerWitnessed
    <2>2. EscrowStatusOf[x.event] \in EscrowRowStatus
        BY <2>1 DEF EventType, EscrowStatusOf, EscrowRowStatus
    <2>3. "disputed" \in chain[x.order] => "funded" \in chain[x.order]
        BY <2>1 DEF PInv, IInv, ChainOrdered
    <2>4. /\ ClaimOf(EscrowStatusOf[x.event]) \in Promise!Claim
          /\ Promise!Justified(x.order, ClaimOf(EscrowStatusOf[x.event]))
        BY <2>1, <2>2, <2>3, EventTables, ClaimsJustified
    <2>5. QED
        BY <1>0, <1>10, <2>1, <2>4, RowSteps DEF ListenerCommit
<1>11. ASSUME NEW o \in Orders, RemoveOrder(o) \/ RemoveEscrow(o)
       PROVE  [Promise!Next]_(Promise!vars)
    <2>1. ClaimOf(NoRow) \in Promise!Claim /\ Promise!Justified(o, ClaimOf(NoRow))
        BY DEF ClaimOf, NoRow, Promise!Claim, Promise!Justified
    <2>2. QED
        BY <1>0, <1>11, <2>1, RowSteps DEF RemoveOrder, RemoveEscrow
<1>12. ASSUME \/ \E o \in Orders : Expires(o)
              \/ \E o \in Orders : \E s \in ClientStatuses \cup {orders[o]}, d \in BOOLEAN :
                    UpdateOrder(o, s, d)
              \/ \E j \in Jobs : ExpireOrdersRead(j)
              \/ \E j \in Jobs : \E d \in jobs[j] : ProcessExpiredOrder(j, d)
              \/ \E o \in Orders, e \in EventType : ListenerRead(o, e)
              \/ \E x \in listener : ListenerRollback(x)
              \/ Crash
              \/ UNCHANGED vars
       PROVE  UNCHANGED Promise!vars
    BY <1>12, QuietStutters
    DEF Expires, UpdateOrder, ExpireOrdersRead, ProcessExpiredOrder, ListenerRead,
        ListenerRollback, Crash, vars
<1>13. QED
    BY <1>0, <1>1, <1>2, <1>3, <1>4, <1>5, <1>6, <1>7, <1>8, <1>9, <1>10, <1>11, <1>12,
       PersistOffers, NextCases

\* The conjuncts the refinement needs hold of an empty database and an empty chain.
LEMMA PromiseInitInv == Init => PInv
<1> SUFFICES ASSUME Init PROVE PInv
    OBVIOUS
<1>1. IInv
    BY InitInv
<1>2. EndsOnce /\ RowsOffered /\ HandlersOffered /\ OfferPending
    BY DEF Init, EndsOnce, RowsOffered, HandlersOffered, OfferPending, HasEscrow, NoRow
<1>3. QED
    BY <1>1, <1>2 DEF PInv

\* Nothing has been offered, paid in or said.
LEMMA PromiseInit == Init => Promise!Init
<1> SUFFICES ASSUME Init PROVE Promise!Init
    OBVIOUS
<1>1. MoneyOf({}) = "seller" /\ ClaimOf(NoRow) = "none"
    BY DEF MoneyOf, ClaimOf, NoRow
<1>2. QED
    BY <1>1 DEF Init, Promise!Init

\* The order service, the escrow service, the cron, the listener and the contract
\* together implement EscrowPromise: each step any of them takes is a step the promise
\* allows or one it does not see.
THEOREM PromiseKept == Spec => KeepsPromise
<1>1. PInv /\ [Next]_vars => PInv'
    BY PromiseStepInv
<1>2. PInv /\ [Next]_vars => [Promise!Next]_(Promise!vars)
    BY PromiseStep
<1>3. QED
    BY <1>1, <1>2, PromiseInitInv, PromiseInit, PTL DEF Spec, KeepsPromise, Promise!Spec

=================================================================================
