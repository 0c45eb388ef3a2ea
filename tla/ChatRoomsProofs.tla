------------------------------ MODULE ChatRoomsProofs ------------------------------
(***************************************************************************)
(* SeenByParties, SeenWasStored, NoGhosts and MutualPresence for any       *)
(* number of connections, users, orders and messages.  What a client may   *)
(* receive is decided long before it does, so the invariant follows the    *)
(* right to a room from the order to the waiting call, to the room, and    *)
(* the message from the call to the row and to the broadcast.  What a      *)
(* client takes to be in its rooms is true because it forgets a room when  *)
(* it leaves: it knows of nobody in a room it is not in.                   *)
(***************************************************************************)
EXTENDS ChatRooms, TLAPS

\* Whoever is a party now has been one.
PartiesBeen == \A o \in Orders : \A u \in parties[o] : <<o, u>> \in been

\* Calls past their access check, and sockets in rooms, are those of parties and support.
TasksBeen ==
    \A h \in Handlers : task[h] # Idle => HasBeenParty(UserOf[task[h].socket], task[h].order)
RoomsBeen == \A s \in Sockets : \A o \in rooms[s] : HasBeenParty(UserOf[s], o)

\* A message stored by the gateway comes from such a call, and only such a message is
\* broadcast, to the room of its order.
GatewayBeen ==
    \A m \in Messages : messages[m] # Absent /\ messages[m].gateway =>
        HasBeenParty(messages[m].sender, messages[m].order)
BroadcastStored ==
    \A h \in Handlers : At(h, "broadcast") =>
        /\ messages[task[h].message] # Absent
        /\ messages[task[h].message].gateway
        /\ messages[task[h].message].order = task[h].order

\* What a client has received is such a message, of an order the client had a right to.
SeenBeen ==
    \A s \in Sockets : \A m \in seen[s] :
        /\ messages[m] # Absent /\ messages[m].gateway
        /\ HasBeenParty(UserOf[s], messages[m].order)

IInv ==
    /\ TypeOK
    /\ PartiesBeen /\ TasksBeen /\ RoomsBeen
    /\ GatewayBeen /\ BroadcastStored /\ SeenBeen

\* A client takes users to be in the rooms only that it is in itself.
ToldHere == \A s \in Sockets : \A x \in told[s] : x[1] \in rooms[s]

Presence == ToldHere /\ NoGhosts /\ MutualPresence

------------------------------------------------------------------------------------

\* A row is never mistaken for the absence of one.
LEMMA RowsExist == \A x \in Message : x # Absent
  <1>1. ASSUME NEW x \in Message, x = Absent PROVE FALSE
    <2>1. DOMAIN x = {"order", "sender", "gateway", "live"}
      BY DEF Message
    <2>2. DOMAIN Absent = {"row"}
      BY DEF Absent
    <2>3. QED
      BY <1>1, <2>1, <2>2
  <1>2. QED
    BY <1>1

\* The initial states satisfy the inductive invariant.
LEMMA InitIInv == Init => IInv
  BY DEF Init, IInv, TypeOK, PartiesBeen, TasksBeen, RoomsBeen, GatewayBeen, BroadcastStored,
         SeenBeen, At, Idle

\* Steps that touch neither rows, waiting calls, rooms nor rights keep every part but TypeOK.
LEMMA FrameParts ==
    ASSUME IInv, UNCHANGED <<parties, messages, task, seen, been>>, TypeOK', RoomsBeen'
    PROVE  IInv'
  BY DEF IInv, PartiesBeen, TasksBeen, GatewayBeen, BroadcastStored, SeenBeen, HasBeenParty, At

\* Connections begin and end.
LEMMA ConnectionStep ==
    ASSUME IInv, NEW s \in Sockets, Connect(s) \/ Disconnect(s)
    PROVE  IInv'
  <1>1. CASE Connect(s)
    <2>1. TypeOK'
      BY <1>1 DEF IInv, TypeOK, Connect
    <2>2. RoomsBeen'
      BY <1>1 DEF IInv, RoomsBeen, Connect, HasBeenParty
    <2>3. QED
      BY <1>1, <2>1, <2>2, FrameParts DEF Connect
  <1>2. CASE Disconnect(s)
    <2>1. TypeOK'
      BY <1>2 DEF IInv, TypeOK, Disconnect, TellLeft
    <2>2. RoomsBeen'
      BY <1>2 DEF IInv, TypeOK, RoomsBeen, Disconnect, HasBeenParty
    <2>3. QED
      BY <1>2, <2>1, <2>2, FrameParts DEF Disconnect
  <1>3. QED
    BY <1>1, <1>2

\* A client leaves a room.
LEMMA LeaveStep ==
    ASSUME IInv, NEW s \in Sockets, NEW o \in Orders, LeaveOrder(s, o)
    PROVE  IInv'
  <1>1. TypeOK'
    BY DEF IInv, TypeOK, LeaveOrder, TellLeft
  <1>2. RoomsBeen'
    BY DEF IInv, TypeOK, RoomsBeen, LeaveOrder, HasBeenParty
  <1>3. QED
    BY <1>1, <1>2, FrameParts DEF LeaveOrder

\* A call passes its access check and waits.
LEMMA CheckStep ==
    ASSUME IInv, NEW h \in Handlers, NEW s \in Sockets, NEW o \in Orders,
           JoinOrder(h, s, o) \/ SendMessage(h, s, o)
    PROVE  IInv'
  <1>1. PICK pc \in {"join", "store"} :
            task' = [task EXCEPT ![h] = [pc |-> pc, socket |-> s, order |-> o]]
    BY DEF JoinOrder, SendMessage
  <1>2. /\ CanAccess(UserOf[s], o)
        /\ UNCHANGED <<parties, messages, connected, rooms, seen, told, been, late>>
    BY DEF JoinOrder, SendMessage
  <1>3. HasBeenParty(UserOf[s], o)
    BY <1>2 DEF IInv, PartiesBeen, CanAccess, CanAccessOrder, HasBeenParty
  <1>4. TypeOK'
    BY <1>1, <1>2 DEF IInv, TypeOK, Task
  <1>5. TasksBeen'
    BY <1>1, <1>2, <1>3 DEF IInv, TypeOK, TasksBeen, HasBeenParty
  <1>6. BroadcastStored'
    BY <1>1, <1>2 DEF IInv, TypeOK, BroadcastStored, At
  <1>7. QED
    BY <1>2, <1>4, <1>5, <1>6
       DEF IInv, PartiesBeen, RoomsBeen, GatewayBeen, SeenBeen, HasBeenParty

\* A join takes effect, or its socket has gone.
LEMMA JoinStep ==
    ASSUME IInv, NEW h \in Handlers, JoinRoom(h)
    PROVE  IInv'
  <1> DEFINE s == task[h].socket
             o == task[h].order
  <1>1. task[h] # Idle /\ s \in Sockets /\ o \in Orders
    BY DEF IInv, TypeOK, JoinRoom, At, Task
  <1>2. rooms' = rooms \/ rooms' = [rooms EXCEPT ![s] = IF s \in connected THEN @ \cup {o} ELSE @]
    BY DEF JoinRoom
  <1>3. UNCHANGED <<parties, messages, connected, seen, been>> /\ task' = [task EXCEPT ![h] = Idle]
    BY DEF JoinRoom
  <1>4. told' \in [Sockets -> SUBSET (Orders \X Users)]
    BY <1>1, UserOfAssumption DEF IInv, TypeOK, JoinRoom, TellJoined
  <1>5. TypeOK'
    <2>1. late' \in SUBSET (Orders \X Users)
      BY <1>1, UserOfAssumption DEF IInv, TypeOK, JoinRoom
    <2>2. QED
      BY <1>1, <1>2, <1>3, <1>4, <2>1 DEF IInv, TypeOK
  <1>6. RoomsBeen'
    BY <1>1, <1>2, <1>3 DEF IInv, TypeOK, RoomsBeen, TasksBeen, HasBeenParty
  <1>7. TasksBeen' /\ BroadcastStored'
    BY <1>3 DEF IInv, TypeOK, TasksBeen, BroadcastStored, HasBeenParty, At
  <1>8. QED
    BY <1>3, <1>5, <1>6, <1>7 DEF IInv, PartiesBeen, GatewayBeen, SeenBeen, HasBeenParty

\* A row is stored for a waiting call or by a plain request.
LEMMA StoreStep ==
    ASSUME IInv, NEW h \in Handlers, NEW m \in Messages, StoreMessage(h, m)
    PROVE  IInv'
  <1> DEFINE s == task[h].socket
             o == task[h].order
             row == [order |-> o, sender |-> UserOf[s], gateway |-> TRUE, live |-> TRUE]
             next == [pc |-> "broadcast", socket |-> s, order |-> o, message |-> m]
  <1>1. task[h] # Idle /\ s \in Sockets /\ o \in Orders
    BY DEF IInv, TypeOK, StoreMessage, At, Task
  <1>2. /\ messages[m] = Absent
        /\ messages' = [messages EXCEPT ![m] = row]
        /\ task' = [task EXCEPT ![h] = next]
        /\ UNCHANGED <<parties, connected, rooms, seen, told, been, late>>
    BY DEF StoreMessage
  <1>3. row \in Message /\ row # Absent
    BY <1>1, UserOfAssumption, RowsExist DEF Message
  <1>4. next \in Task
    BY <1>1 DEF Task
  <1>5. TypeOK'
    BY <1>2, <1>3, <1>4 DEF IInv, TypeOK
  <1>6. HasBeenParty(UserOf[s], o)
    BY <1>1 DEF IInv, TasksBeen
  <1>7. TasksBeen'
    BY <1>2, <1>6 DEF IInv, TypeOK, TasksBeen, HasBeenParty
  <1>8. GatewayBeen'
    BY <1>2, <1>6 DEF IInv, TypeOK, GatewayBeen, HasBeenParty
  <1>9. ASSUME NEW g \in Handlers, At(g, "broadcast")'
        PROVE  /\ messages'[task'[g].message] # Absent
               /\ messages'[task'[g].message].gateway
               /\ messages'[task'[g].message].order = task'[g].order
    <2>1. CASE g = h
      BY <1>2, <1>3, <2>1 DEF IInv, TypeOK
    <2>2. CASE g # h
      <3>1. task'[g] = task[g] /\ At(g, "broadcast")
        BY <1>2, <1>9, <2>2 DEF IInv, TypeOK, At
      <3>2. task[g].message \in Messages
        BY <3>1 DEF IInv, TypeOK, At, Task, Idle
      <3>3. task[g].message # m
        BY <1>2, <3>1 DEF IInv, BroadcastStored
      <3>4. QED
        BY <1>2, <3>1, <3>2, <3>3 DEF IInv, TypeOK, BroadcastStored
    <2>3. QED
      BY <2>1, <2>2
  <1>10. SeenBeen'
    BY <1>2 DEF IInv, TypeOK, SeenBeen, HasBeenParty
  <1>11. QED
    BY <1>2, <1>5, <1>7, <1>8, <1>9, <1>10
       DEF IInv, PartiesBeen, RoomsBeen, BroadcastStored, HasBeenParty

\* A row is stored by a request beside the gateway.
LEMMA PostStep ==
    ASSUME IInv, NEW m \in Messages, NEW o \in Orders, NEW u \in Users, PostMessage(m, o, u)
    PROVE  IInv'
  <1> DEFINE row == [order |-> o, sender |-> u, gateway |-> FALSE, live |-> TRUE]
  <1>1. /\ messages[m] = Absent
        /\ messages' = [messages EXCEPT ![m] = row]
        /\ UNCHANGED <<parties, connected, rooms, task, seen, told, been, late>>
    BY DEF PostMessage
  <1>2. row \in Message
    BY DEF Message
  <1>3. TypeOK'
    BY <1>1, <1>2 DEF IInv, TypeOK
  <1>4. GatewayBeen'
    BY <1>1 DEF IInv, TypeOK, GatewayBeen, HasBeenParty
  <1>5. ASSUME NEW g \in Handlers, At(g, "broadcast")
        PROVE  task[g].message \in Messages
    BY <1>5 DEF IInv, TypeOK, At, Task, Idle
  <1>6. BroadcastStored'
    BY <1>1, <1>5 DEF IInv, TypeOK, BroadcastStored, At
  <1>7. SeenBeen'
    BY <1>1 DEF IInv, TypeOK, SeenBeen, HasBeenParty
  <1>8. QED
    BY <1>1, <1>3, <1>4, <1>6, <1>7 DEF IInv, PartiesBeen, RoomsBeen, TasksBeen, HasBeenParty

\* A call ends, with a broadcast or with an error.
LEMMA EndStep ==
    ASSUME IInv, NEW h \in Handlers, StoreFails(h) \/ Broadcast(h)
    PROVE  IInv'
  <1>1. /\ task' = [task EXCEPT ![h] = Idle]
        /\ UNCHANGED <<parties, messages, connected, rooms, told, been>>
    BY DEF StoreFails, Broadcast
  <1>2. TasksBeen' /\ BroadcastStored'
    BY <1>1 DEF IInv, TypeOK, TasksBeen, BroadcastStored, HasBeenParty, At
  <1>3. CASE StoreFails(h)
    <2>1. TypeOK'
      BY <1>1, <1>3 DEF IInv, TypeOK, StoreFails
    <2>2. QED
      BY <1>1, <1>2, <1>3, <2>1
         DEF IInv, StoreFails, PartiesBeen, RoomsBeen, GatewayBeen, SeenBeen, HasBeenParty
  <1>4. CASE Broadcast(h)
    <2>1. task[h].message \in Messages /\ task[h].order \in Orders
      BY <1>4 DEF IInv, TypeOK, Broadcast, At, Task, Idle
    <2>2. TypeOK'
      BY <1>1, <1>4, <2>1 DEF IInv, TypeOK, Broadcast
    <2>3. SeenBeen'
      BY <1>1, <1>4, <2>1 DEF IInv, TypeOK, Broadcast, SeenBeen, RoomsBeen, BroadcastStored,
                              HasBeenParty
    <2>4. QED
      BY <1>1, <1>2, <2>2, <2>3 DEF IInv, PartiesBeen, RoomsBeen, GatewayBeen, HasBeenParty
  <1>5. QED
    BY <1>3, <1>4

\* Rows go, one by one or with their order; what else they say stays.
LEMMA RemoveStep ==
    ASSUME IInv, NEW gone \in SUBSET Messages,
           \A m \in gone : messages[m] # Absent,
           messages' = [m \in Messages |-> IF m \in gone THEN [messages[m] EXCEPT !.live = FALSE]
                                           ELSE messages[m]],
           \A o \in Orders : parties'[o] \in {parties[o], NoOrder},
           parties' \in [Orders -> SUBSET Users],
           UNCHANGED <<connected, rooms, task, seen, told, been, late>>
    PROVE  IInv'
  <1>1. \A m \in Messages : messages[m] # Absent => messages[m] \in Message
    BY DEF IInv, TypeOK
  <1>2. ASSUME NEW m \in Messages, messages[m] # Absent
        PROVE  /\ messages'[m] \in Message /\ messages'[m] # Absent
               /\ messages'[m].order = messages[m].order
               /\ messages'[m].sender = messages[m].sender
               /\ messages'[m].gateway = messages[m].gateway
    <2>1. messages'[m] \in Message /\ messages'[m].order = messages[m].order
              /\ messages'[m].sender = messages[m].sender
              /\ messages'[m].gateway = messages[m].gateway
      BY <1>1, <1>2 DEF Message
    <2>2. QED
      BY <2>1, RowsExist
  <1>3. \A m \in Messages : messages[m] = Absent => messages'[m] = Absent
    OBVIOUS
  <1>4. messages' \in [Messages -> Message \cup {Absent}]
    BY <1>2, <1>3
  <1>5. TypeOK'
    BY <1>4 DEF IInv, TypeOK
  <1>6. PartiesBeen'
    BY DEF IInv, PartiesBeen, NoOrder
  <1>7. GatewayBeen'
    BY <1>2, <1>3 DEF IInv, GatewayBeen, HasBeenParty
  <1>8. ASSUME NEW g \in Handlers, At(g, "broadcast")
        PROVE  task[g].message \in Messages
    BY <1>8 DEF IInv, TypeOK, At, Task, Idle
  <1>9. BroadcastStored'
    BY <1>2, <1>8 DEF IInv, BroadcastStored, At
  <1>10. SeenBeen'
    BY <1>2 DEF IInv, TypeOK, SeenBeen, HasBeenParty
  <1>11. QED
    BY <1>5, <1>6, <1>7, <1>9, <1>10 DEF IInv, RoomsBeen, TasksBeen, HasBeenParty

\* An order changes hands.
LEMMA PartiesStep ==
    ASSUME IInv, NEW o \in Orders, NEW ps \in SUBSET Users, ChangeParties(o, ps)
    PROVE  IInv'
  <1>1. been \subseteq been' /\ UNCHANGED <<messages, connected, rooms, task, seen, told>>
    BY DEF ChangeParties
  <1>2. TypeOK'
    BY DEF IInv, TypeOK, ChangeParties
  <1>3. PartiesBeen'
    BY DEF IInv, TypeOK, PartiesBeen, ChangeParties
  <1>4. TasksBeen' /\ RoomsBeen' /\ GatewayBeen' /\ SeenBeen'
    BY <1>1 DEF IInv, TasksBeen, RoomsBeen, GatewayBeen, SeenBeen, HasBeenParty
  <1>5. QED
    BY <1>1, <1>2, <1>3, <1>4 DEF IInv, BroadcastStored, At

\* A restart leaves rows and histories alone.
LEMMA CrashStep ==
    ASSUME IInv, Crash
    PROVE  IInv'
  <1>1. TypeOK'
    BY DEF IInv, TypeOK, Crash
  <1>2. TasksBeen' /\ RoomsBeen' /\ BroadcastStored'
    BY DEF Crash, TasksBeen, RoomsBeen, BroadcastStored, At
  <1>3. QED
    BY <1>1, <1>2 DEF IInv, Crash, PartiesBeen, GatewayBeen, SeenBeen, HasBeenParty

\* Every step keeps the invariant.
LEMMA NextIInv == IInv /\ [Next]_vars => IInv'
  <1> SUFFICES ASSUME IInv, [Next]_vars PROVE IInv'
    OBVIOUS
  <1>1. ASSUME NEW s \in Sockets, SocketStep(s) PROVE IInv'
    BY <1>1, ConnectionStep, LeaveStep, CheckStep DEF SocketStep
  <1>2. ASSUME NEW h \in Handlers, HandlerStep(h) PROVE IInv'
    BY <1>2, JoinStep, StoreStep, EndStep DEF HandlerStep
  <1>3. ASSUME NEW o \in Orders, OrderStep(o) PROVE IInv'
    <2>1. ASSUME NEW u \in Users, NEW v \in Users, ChangeParties(o, {u, v}) PROVE IInv'
      <3>1. {u, v} \in SUBSET Users
        OBVIOUS
      <3>2. QED
        BY <2>1, <3>1, PartiesStep
    <2>2. CASE RemoveOrder(o)
      <3> DEFINE gone == {m \in Messages : messages[m] # Absent /\ messages[m].order = o}
      <3>1. messages' = [m \in Messages |-> IF m \in gone THEN [messages[m] EXCEPT !.live = FALSE]
                                            ELSE messages[m]]
        BY <2>2 DEF RemoveOrder
      <3>2. /\ \A x \in Orders : parties'[x] \in {parties[x], NoOrder}
            /\ parties' \in [Orders -> SUBSET Users]
            /\ UNCHANGED <<connected, rooms, task, seen, told, been, late>>
        BY <2>2 DEF RemoveOrder, IInv, TypeOK, NoOrder
      <3>3. gone \in SUBSET Messages /\ \A m \in gone : messages[m] # Absent
        OBVIOUS
      <3> HIDE DEF gone
      <3>4. QED
        BY <3>1, <3>2, <3>3, RemoveStep
    <2>3. QED
      BY <1>3, <2>1, <2>2, PostStep DEF OrderStep
  <1>4. ASSUME NEW m \in Messages, RemoveMessage(m) PROVE IInv'
    <2>1. messages' = [x \in Messages |-> IF x \in {m} THEN [messages[x] EXCEPT !.live = FALSE]
                                          ELSE messages[x]]
      BY <1>4 DEF RemoveMessage, IInv, TypeOK
    <2>2. /\ \A x \in Orders : parties'[x] \in {parties[x], NoOrder}
          /\ parties' \in [Orders -> SUBSET Users]
          /\ UNCHANGED <<connected, rooms, task, seen, told, been, late>>
      BY <1>4 DEF RemoveMessage, IInv, TypeOK
    <2>3. QED
      BY <1>4, <2>1, <2>2, RemoveStep DEF RemoveMessage
  <1>5. CASE UNCHANGED vars
    BY <1>5 DEF vars, IInv, TypeOK, PartiesBeen, TasksBeen, RoomsBeen, GatewayBeen,
                BroadcastStored, SeenBeen, HasBeenParty, At
  <1>6. QED
    BY <1>1, <1>2, <1>3, <1>4, <1>5, CrashStep DEF Next

\* The inductive invariant holds in every reachable state of the gateway.
THEOREM Invariance == Spec => []IInv
  BY InitIInv, NextIInv, PTL DEF Spec

\* The variables of the gateway keep their types and rooms hold live connections only.
THEOREM TypeCorrect == Spec => []TypeOK
  <1>1. IInv => TypeOK
    BY DEF IInv
  <1>2. QED
    BY <1>1, Invariance, PTL

\* Messages reach nobody, and come from nobody, who was never a party of the order or
\* support, for any number of concurrent joins, messages and changes of the order.
THEOREM SeenByPartiesHolds == Spec => []SeenByParties
  <1>1. IInv => SeenByParties
    BY DEF IInv, TypeOK, SeenByParties, SeenBeen, GatewayBeen
  <1>2. QED
    BY <1>1, Invariance, PTL

\* Every message a client has received was stored by the gateway first.
THEOREM SeenWasStoredHolds == Spec => []SeenWasStored
  <1>1. IInv => SeenWasStored
    BY DEF IInv, SeenWasStored, SeenBeen
  <1>2. QED
    BY <1>1, Invariance, PTL

------------------------------------------------------------------------------------
(* Who is taken to be in a room *)

\* Steps that touch neither rooms nor what clients were told.
LEMMA PresenceFrame ==
    ASSUME Presence, UNCHANGED <<rooms, told>>, late \subseteq late'
    PROVE  Presence'
  BY DEF Presence, ToldHere, NoGhosts, MutualPresence, Alone

\* Socket w leaves the rooms os, and those it leaves behind are told.
LEMMA PresenceLeft ==
    ASSUME TypeOK, Presence, NEW w \in Sockets, NEW os \in SUBSET rooms[w],
           rooms' = [rooms EXCEPT ![w] = @ \ os], TellLeft(w, os), UNCHANGED late
    PROVE  Presence'
  <1>1. /\ rooms'[w] = rooms[w] \ os
        /\ \A t \in Sockets \ {w} : rooms'[t] = rooms[t]
    BY DEF TypeOK
  <1>2. /\ told'[w] = {x \in told[w] : x[1] \notin os}
        /\ \A t \in Sockets \ {w} :
               told'[t] = told[t] \ {<<o, UserOf[w]>> : o \in os \cap rooms[t]}
    BY DEF TellLeft
  <1>3. \A t \in Sockets : told'[t] \subseteq told[t]
    BY <1>2
  <1>4. ToldHere'
    BY <1>1, <1>2, <1>3 DEF Presence, ToldHere
  <1>5. NoGhosts'
    <2>1. SUFFICES ASSUME NEW s \in Sockets, NEW x \in told'[s], x \notin late
                   PROVE  \E t \in Sockets : UserOf[t] = x[2] /\ x[1] \in rooms'[t]
      BY DEF NoGhosts
    <2>2. x \in told[s] /\ x[1] \in rooms[s] /\ x \in Orders \X Users
      BY <1>3 DEF Presence, ToldHere, TypeOK
    <2>3. PICK t \in Sockets : UserOf[t] = x[2] /\ x[1] \in rooms[t]
      BY <2>1, <2>2 DEF Presence, NoGhosts
    <2>4. CASE t # w \/ x[1] \notin os
      BY <1>1, <2>3, <2>4
    <2>5. CASE t = w /\ x[1] \in os
      <3>1. x = <<x[1], UserOf[w]>>
        BY <2>2, <2>3, <2>5
      <3>2. x \notin told'[s]
        BY <1>2, <2>2, <2>5, <3>1
      <3>3. QED
        BY <3>2
    <2>6. QED
      BY <2>4, <2>5
  <1>6. MutualPresence'
    <2>1. SUFFICES ASSUME NEW s \in Sockets, NEW t \in Sockets, s # t, Alone(s), Alone(t),
                          NEW o \in rooms'[s] \cap rooms'[t]
                   PROVE  <<o, UserOf[t]>> \in told'[s] \/ <<o, UserOf[s]>> \in told'[t]
      BY DEF MutualPresence, Alone
    <2>2. o \in rooms[s] \cap rooms[t]
      BY <1>1
    <2>3. ASSUME NEW p \in Sockets, NEW q \in Sockets, p # q, Alone(q),
                 o \in rooms'[p], o \in rooms'[q], <<o, UserOf[q]>> \in told[p]
          PROVE  <<o, UserOf[q]>> \in told'[p]
      <3>1. CASE p = w
        BY <1>1, <1>2, <2>3, <3>1
      <3>2. CASE p # w /\ q = w
        BY <1>1, <1>2, <2>3, <3>2
      <3>3. CASE p # w /\ q # w
        BY <1>2, <2>3, <3>3 DEF Alone
      <3>4. QED
        BY <3>1, <3>2, <3>3
    <2>4. QED
      BY <2>1, <2>2, <2>3 DEF Presence, MutualPresence
  <1>7. QED
    BY <1>4, <1>5, <1>6 DEF Presence

\* A join that ends: its socket is in the room with everyone told, or has gone and is late.
LEMMA PresenceJoined ==
    ASSUME TypeOK, Presence, NEW h \in Handlers, JoinRoom(h)
    PROVE  Presence'
  <1>1. PICK w, o : w = task[h].socket /\ o = task[h].order
    OBVIOUS
  <1>2. w \in Sockets /\ o \in Orders
    BY <1>1 DEF TypeOK, JoinRoom, At, Task
  <1>3. late' = IF w \in connected THEN late ELSE late \cup {<<o, UserOf[w]>>}
    BY <1>1 DEF JoinRoom
  <1>4. CASE UNCHANGED <<rooms, told>>
    BY <1>3, <1>4, PresenceFrame
  <1>5. CASE /\ o \notin rooms[w]
             /\ rooms' = [rooms EXCEPT ![w] = IF w \in connected THEN @ \cup {o} ELSE @]
             /\ TellJoined(Others(w, o), o, UserOf[w])
    <2>1. /\ \A t \in Sockets : rooms[t] \subseteq rooms'[t]
          /\ \A t \in Sockets \ {w} : rooms'[t] = rooms[t]
          /\ rooms'[w] \subseteq rooms[w] \cup {o}
          /\ w \in connected => o \in rooms'[w]
      BY <1>2, <1>5 DEF TypeOK
    <2>2. /\ \A t \in Sockets : told[t] \subseteq told'[t]
          /\ \A t \in Sockets \ {w} : o \in rooms[t] => <<o, UserOf[w]>> \in told'[t]
          /\ \A t \in Sockets : \A x \in told'[t] \ told[t] : x = <<o, UserOf[w]>> /\ o \in rooms[t]
      BY <1>5 DEF TellJoined, Others
    <2>3. ToldHere'
      BY <2>1, <2>2 DEF Presence, ToldHere
    <2>4. NoGhosts'
      <3>1. SUFFICES ASSUME NEW s \in Sockets, NEW x \in told'[s], x \notin late'
                     PROVE  \E t \in Sockets : UserOf[t] = x[2] /\ x[1] \in rooms'[t]
        BY DEF NoGhosts
      <3>2. CASE x \in told[s]
        <4>1. x \notin late /\ x[1] \in rooms[s]
          BY <1>3, <3>1, <3>2 DEF Presence, ToldHere
        <4>2. PICK t \in Sockets : UserOf[t] = x[2] /\ x[1] \in rooms[t]
          BY <3>2, <4>1 DEF Presence, NoGhosts
        <4>3. QED
          BY <2>1, <4>2
      <3>3. CASE x \notin told[s]
        <4>1. x = <<o, UserOf[w]>>
          BY <2>2, <3>3
        <4>2. w \in connected
          BY <1>3, <3>1, <4>1
        <4>3. QED
          BY <1>2, <2>1, <4>1, <4>2
      <3>4. QED
        BY <3>2, <3>3
    <2>5. MutualPresence'
      <3>1. SUFFICES ASSUME NEW s \in Sockets, NEW t \in Sockets, s # t, Alone(s), Alone(t),
                            NEW p \in rooms'[s] \cap rooms'[t]
                     PROVE  <<p, UserOf[t]>> \in told'[s] \/ <<p, UserOf[s]>> \in told'[t]
        BY DEF MutualPresence, Alone
      <3>2. CASE p \in rooms[s] \cap rooms[t]
        BY <2>2, <3>1, <3>2 DEF Presence, MutualPresence
      <3>3. CASE p \notin rooms[s] \cap rooms[t]
        <4>1. p = o /\ (s = w \/ t = w)
          BY <2>1, <3>3
        <4>2. QED
          BY <2>1, <2>2, <3>1, <3>3, <4>1
      <3>4. QED
        BY <3>2, <3>3
    <2>6. QED
      BY <2>3, <2>4, <2>5 DEF Presence
  <1>6. QED
    BY <1>1, <1>4, <1>5 DEF JoinRoom

\* Every step keeps what clients know of each other true.
LEMMA NextPresence == TypeOK /\ Presence /\ [Next]_vars => Presence'
  <1> SUFFICES ASSUME TypeOK, Presence, [Next]_vars PROVE Presence'
    OBVIOUS
  <1>1. ASSUME NEW s \in Sockets, SocketStep(s) PROVE Presence'
    <2>1. CASE Disconnect(s)
      <3>1. rooms' = [rooms EXCEPT ![s] = @ \ rooms[s]] /\ TellLeft(s, rooms[s]) /\ UNCHANGED late
        BY <2>1 DEF Disconnect, TypeOK
      <3>2. QED
        BY <3>1, PresenceLeft
    <2>2. ASSUME NEW o \in Orders, LeaveOrder(s, o) PROVE Presence'
      <3>1. {o} \in SUBSET rooms[s]
        BY <2>2 DEF LeaveOrder
      <3>2. QED
        BY <2>2, <3>1, PresenceLeft DEF LeaveOrder
    <2>3. CASE UNCHANGED <<rooms, told, late>>
      BY <2>3, PresenceFrame
    <2>4. QED
      BY <1>1, <2>1, <2>2, <2>3 DEF SocketStep, Connect, JoinOrder, SendMessage
  <1>2. ASSUME NEW h \in Handlers, JoinRoom(h) PROVE Presence'
    BY <1>2, PresenceJoined
  <1>3. CASE UNCHANGED <<rooms, told, late>>
    BY <1>3, PresenceFrame
  <1>4. CASE Crash
    BY <1>4 DEF Crash, Presence, ToldHere, NoGhosts, MutualPresence
  <1>5. QED
    BY <1>1, <1>2, <1>3, <1>4
       DEF Next, HandlerStep, OrderStep, StoreMessage, StoreFails, Broadcast, ChangeParties,
           RemoveOrder, PostMessage, RemoveMessage, vars

\* The presence lists and the rooms agree in every state.
LEMMA PresenceInvariance == Spec => []Presence
  <1>1. Init => Presence
    BY DEF Init, Presence, ToldHere, NoGhosts, MutualPresence
  <1>2. QED
    BY <1>1, NextPresence, TypeCorrect, PTL DEF Spec

\* Nobody takes a user to be in a room who has left it, for any number of connections of the
\* same user, unless one of them ended while its joinOrder waited.
THEOREM NoGhostsHolds == Spec => []NoGhosts
  <1>1. Presence => NoGhosts
    BY DEF Presence
  <1>2. QED
    BY <1>1, PresenceInvariance, PTL

\* Of two people in a room, each on one connection, at least one was told of the
\* other, however often they join, leave and lose connections.
THEOREM MutualPresenceHolds == Spec => []MutualPresence
  <1>1. Presence => MutualPresence
    BY DEF Presence
  <1>2. QED
    BY <1>1, PresenceInvariance, PTL

====================================================================================
