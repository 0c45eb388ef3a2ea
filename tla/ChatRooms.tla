--------------------------------- MODULE ChatRooms ---------------------------------
(***************************************************************************)
(* The chat gateway: sockets, the rooms of orders, messages, and what the  *)
(* clients see of them.  joinOrder and sendMessage wait for the database   *)
(* between their checks and their effects; meanwhile the client may leave, *)
(* disconnect or send again, and the order may change hands or go.         *)
(*                                                                         *)
(* The in-memory adapter of socket.io joins and leaves at once, so the     *)
(* emit that follows is in the same step.  A socket that has disconnected  *)
(* cannot join any more, but what it emits still goes out.                 *)
(***************************************************************************)
CONSTANTS
    Sockets,       \* connections
    Users,         \* userIds
    UserOf,        \* UserOf[s]: the userId in the token of socket s
    Support,       \* users configured as support
    Orders,        \* orderIds
    Messages,      \* messageIds, never used twice
    Handlers       \* calls of joinOrder and sendMessage that may be waiting

ASSUME UserOfAssumption == UserOf \in [Sockets -> Users]

VARIABLES
    parties,      \* parties[o]: buyerId and sellerId, or NoOrder
    messages,     \* messages[m]: the row of chatmessage, if there is or was one
    connected,    \* sockets that are connected
    rooms,        \* rooms[s]: orders whose room the socket is in
    task,         \* task[h]: where a waiting call stands
    seen,         \* seen[s]: messages the client of s has received
    told,         \* told[s]: pairs of an order and a user the client takes to be in its room
    been,         \* history: pairs of an order and a user who has been a party of it
    late          \* history: pairs of an order and a user whose connection ended during a join

vars == <<parties, messages, connected, rooms, task, seen, told, been, late>>

NoOrder == {}
Absent == [row |-> "absent"]
Idle == [pc |-> "idle"]

Message == [order: Orders, sender: Users, gateway: BOOLEAN, live: BOOLEAN]

Task ==
    [pc: {"join"}, socket: Sockets, order: Orders]
        \cup [pc: {"store"}, socket: Sockets, order: Orders]
        \cup [pc: {"broadcast"}, socket: Sockets, order: Orders, message: Messages]

\* Every variable holds a value of its type, and only connected sockets are in rooms,
\* joins that end after their connection included.
TypeOK ==
    /\ parties \in [Orders -> SUBSET Users]
    /\ messages \in [Messages -> Message \cup {Absent}]
    /\ connected \in SUBSET Sockets
    /\ rooms \in [Sockets -> SUBSET Orders]
    /\ task \in [Handlers -> Task \cup {Idle}]
    /\ seen \in [Sockets -> SUBSET Messages]
    /\ told \in [Sockets -> SUBSET (Orders \X Users)]
    /\ been \in SUBSET (Orders \X Users)
    /\ late \in SUBSET (Orders \X Users)
    /\ \A s \in Sockets \ connected : rooms[s] = {}

At(h, pc) == task[h] # Idle /\ task[h].pc = pc

CanAccessOrder(u, o) == u \in parties[o]

\* getAccessError finds nothing wrong: support may enter the room of any order.
CanAccess(u, o) == parties[o] # NoOrder /\ (CanAccessOrder(u, o) \/ u \in Support)

Others(s, o) == {t \in Sockets \ {s} : o \in rooms[t]}

\* USER_JOINED and USER_LEFT to a set of sockets.
TellJoined(to, o, u) ==
    told' = [t \in Sockets |-> IF t \in to THEN told[t] \cup {<<o, u>>} ELSE told[t]]
TellLeft(s, os) ==
    told' = [t \in Sockets |->
                IF t = s THEN {x \in told[t] : x[1] \notin os}
                ELSE told[t] \ {<<o, UserOf[s]>> : o \in os \cap rooms[t]}]

------------------------------------------------------------------------------------
(* Connections *)

Busy(s) == \E h \in Handlers : task[h] # Idle /\ task[h].socket = s

\* A connection is used once: calls of an earlier one are over.
Connect(s) ==
    /\ s \notin connected
    /\ ~Busy(s)
    /\ connected' = connected \cup {s}
    /\ UNCHANGED <<parties, messages, rooms, task, seen, told, been, late>>

\* The handler of "disconnecting" tells every room, then socket.io leaves them all.
Disconnect(s) ==
    /\ s \in connected
    /\ TellLeft(s, rooms[s])
    /\ rooms' = [rooms EXCEPT ![s] = {}]
    /\ connected' = connected \ {s}
    /\ UNCHANGED <<parties, messages, task, seen, been, late>>

------------------------------------------------------------------------------------
(* joinOrder, leaveOrder *)

\* A join that lets everyone in whose order exists.
JoinOrderUnchecked(h, s, o) ==
    /\ s \in connected
    /\ task[h] = Idle
    /\ parties[o] # NoOrder
    /\ task' = [task EXCEPT ![h] = [pc |-> "join", socket |-> s, order |-> o]]
    /\ UNCHANGED <<parties, messages, connected, rooms, seen, told, been, late>>

JoinOrder(h, s, o) ==
    /\ s \in connected
    /\ task[h] = Idle
    /\ CanAccess(UserOf[s], o)
    /\ task' = [task EXCEPT ![h] = [pc |-> "join", socket |-> s, order |-> o]]
    /\ UNCHANGED <<parties, messages, connected, rooms, seen, told, been, late>>

\* A join that does not look at the connection again.
JoinRoomLate(h) ==
    /\ At(h, "join")
    /\ rooms' = [rooms EXCEPT ![task[h].socket] = @ \cup {task[h].order}]
    /\ TellJoined(Others(task[h].socket, task[h].order), task[h].order, UserOf[task[h].socket])
    /\ task' = [task EXCEPT ![h] = Idle]
    /\ UNCHANGED <<parties, messages, connected, seen, been, late>>

\* A join that tells nobody.
JoinRoomSilent(h) ==
    /\ At(h, "join")
    /\ task[h].socket \in connected
    /\ rooms' = [rooms EXCEPT ![task[h].socket] = @ \cup {task[h].order}]
    /\ task' = [task EXCEPT ![h] = Idle]
    /\ UNCHANGED <<parties, messages, connected, seen, told, been, late>>

\* The query has answered.  A socket already in the room is not announced again; one that
\* has disconnected meanwhile is announced although it cannot join.
JoinRoom(h) ==
    LET s == task[h].socket
        o == task[h].order
    IN /\ At(h, "join")
       /\ IF o \in rooms[s] THEN UNCHANGED <<rooms, told>>
          ELSE /\ rooms' = [rooms EXCEPT ![s] = IF s \in connected THEN @ \cup {o} ELSE @]
               /\ TellJoined(Others(s, o), o, UserOf[s])
       /\ late' = IF s \in connected THEN late ELSE late \cup {<<o, UserOf[s]>>}
       /\ task' = [task EXCEPT ![h] = Idle]
       /\ UNCHANGED <<parties, messages, connected, seen, been>>

\* A leave that forgets to tell the others.
LeaveOrderSilent(s, o) ==
    /\ s \in connected
    /\ o \in rooms[s]
    /\ rooms' = [rooms EXCEPT ![s] = @ \ {o}]
    /\ told' = [told EXCEPT ![s] = {x \in @ : x[1] # o}]
    /\ UNCHANGED <<parties, messages, connected, task, seen, been, late>>

LeaveOrder(s, o) ==
    /\ s \in connected
    /\ o \in rooms[s]
    /\ rooms' = [rooms EXCEPT ![s] = @ \ {o}]
    /\ TellLeft(s, {o})
    /\ UNCHANGED <<parties, messages, connected, task, seen, been, late>>

------------------------------------------------------------------------------------
(* sendMessage *)

SendMessage(h, s, o) ==
    /\ s \in connected
    /\ task[h] = Idle
    /\ o \in rooms[s]
    /\ CanAccess(UserOf[s], o)
    /\ task' = [task EXCEPT ![h] = [pc |-> "store", socket |-> s, order |-> o]]
    /\ UNCHANGED <<parties, messages, connected, rooms, seen, told, been, late>>

\* A row needs its order, which may have gone since the access check.
StoreMessage(h, m) ==
    LET o == task[h].order
    IN /\ At(h, "store")
       /\ parties[o] # NoOrder
       /\ messages[m] = Absent
       /\ messages' = [messages EXCEPT ![m] = [order |-> o, sender |-> UserOf[task[h].socket],
                                               gateway |-> TRUE, live |-> TRUE]]
       /\ task' = [task EXCEPT ![h] = [pc |-> "broadcast", socket |-> @.socket, order |-> o,
                                       message |-> m]]
       /\ UNCHANGED <<parties, connected, rooms, seen, told, been, late>>

\* A handler that broadcasts the message although it could not be saved.
StoreFailsQuietly(h) ==
    /\ At(h, "store")
    /\ \E m \in Messages :
          /\ messages[m] = Absent
          /\ task' = [task EXCEPT ![h] = [pc |-> "broadcast", socket |-> @.socket,
                                          order |-> @.order, message |-> m]]
    /\ UNCHANGED <<parties, messages, connected, rooms, seen, told, been, late>>

\* MESSAGE_PERSISTENCE_FAILED to the sender.
StoreFails(h) ==
    /\ At(h, "store")
    /\ task' = [task EXCEPT ![h] = Idle]
    /\ UNCHANGED <<parties, messages, connected, rooms, seen, told, been, late>>

\* MESSAGE_CREATED to whoever is in the room by now.
Broadcast(h) ==
    /\ At(h, "broadcast")
    /\ seen' = [t \in Sockets |-> IF task[h].order \in rooms[t]
                                  THEN seen[t] \cup {task[h].message} ELSE seen[t]]
    /\ task' = [task EXCEPT ![h] = Idle]
    /\ UNCHANGED <<parties, messages, connected, rooms, told, been, late>>

------------------------------------------------------------------------------------
(* What happens beside the gateway *)

\* POST /chat-messages stores a message and tells nobody.
PostMessage(m, o, u) ==
    /\ messages[m] = Absent
    /\ parties[o] # NoOrder
    /\ messages' = [messages EXCEPT ![m] = [order |-> o, sender |-> u,
                                            gateway |-> FALSE, live |-> TRUE]]
    /\ UNCHANGED <<parties, connected, rooms, task, seen, told, been, late>>

RemoveMessage(m) ==
    /\ messages[m] # Absent
    /\ messages[m].live
    /\ messages' = [messages EXCEPT ![m].live = FALSE]
    /\ UNCHANGED <<parties, connected, rooms, task, seen, told, been, late>>

\* OrderService.update takes buyerId and sellerId like any other field.
ChangeParties(o, ps) ==
    /\ parties[o] # NoOrder
    /\ parties' = [parties EXCEPT ![o] = ps]
    /\ been' = been \cup {<<o, u>> : u \in ps}
    /\ UNCHANGED <<messages, connected, rooms, task, seen, told, late>>

\* The messages of an order go with it.
RemoveOrder(o) ==
    /\ parties[o] # NoOrder
    /\ parties' = [parties EXCEPT ![o] = NoOrder]
    /\ messages' = [m \in Messages |->
                      IF messages[m] # Absent /\ messages[m].order = o
                      THEN [messages[m] EXCEPT !.live = FALSE] ELSE messages[m]]
    /\ UNCHANGED <<connected, rooms, task, seen, told, been, late>>

\* The process ends: the clients have to connect again and start afresh.
Crash ==
    /\ connected' = {}
    /\ rooms' = [s \in Sockets |-> {}]
    /\ task' = [h \in Handlers |-> Idle]
    /\ told' = [s \in Sockets |-> {}]
    /\ UNCHANGED <<parties, messages, seen, been, late>>

------------------------------------------------------------------------------------

Init ==
    /\ parties \in [Orders -> {{u, v} : u \in Users, v \in Users}]
    /\ messages = [m \in Messages |-> Absent]
    /\ connected = {}
    /\ rooms = [s \in Sockets |-> {}]
    /\ task = [h \in Handlers |-> Idle]
    /\ seen = [s \in Sockets |-> {}]
    /\ told = [s \in Sockets |-> {}]
    /\ been = {x \in Orders \X Users : x[2] \in parties[x[1]]}
    /\ late = {}

SocketStep(s) ==
    \/ Connect(s)
    \/ Disconnect(s)
    \/ \E o \in Orders :
          \/ LeaveOrder(s, o)
          \/ \E h \in Handlers : JoinOrder(h, s, o) \/ SendMessage(h, s, o)

HandlerStep(h) ==
    \/ JoinRoom(h)
    \/ \E m \in Messages : StoreMessage(h, m)
    \/ StoreFails(h)
    \/ Broadcast(h)

OrderStep(o) ==
    \/ \E u, v \in Users : ChangeParties(o, {u, v})
    \/ RemoveOrder(o)
    \/ \E m \in Messages, u \in Users : PostMessage(m, o, u)

Next ==
    \/ \E s \in Sockets : SocketStep(s)
    \/ \E h \in Handlers : HandlerStep(h)
    \/ \E o \in Orders : OrderStep(o)
    \/ \E m \in Messages : RemoveMessage(m)
    \/ Crash

Spec == Init /\ [][Next]_vars

------------------------------------------------------------------------------------
(* Properties *)

HasBeenParty(u, o) == <<o, u>> \in been \/ u \in Support

\* Whoever receives a message over the gateway has been a party of its order or is
\* support, and so has its sender, although rooms are checked only on entry and orders
\* change hands while joins and messages are under way.
SeenByParties ==
    \A s \in Sockets : \A m \in seen[s] :
        messages[m] # Absent =>
            /\ HasBeenParty(UserOf[s], messages[m].order)
            /\ HasBeenParty(messages[m].sender, messages[m].order)

\* What a client has received has been stored: no message is shown and then missing from
\* the history of the chat, unless somebody removed it.
SeenWasStored ==
    \A s \in Sockets : \A m \in seen[s] : messages[m] # Absent /\ messages[m].gateway

Alone(s) == \A t \in Sockets \ {s} : UserOf[t] # UserOf[s]

\* Of two people in a room, each on one connection, at least one has been told of the
\* other: repeated joins, leaves and lost connections never leave them unaware.
MutualPresence ==
    \A s, t \in Sockets : s # t /\ Alone(s) /\ Alone(t) =>
        \A o \in rooms[s] \cap rooms[t] : <<o, UserOf[t]>> \in told[s] \/ <<o, UserOf[s]>> \in told[t]

\* Nobody takes a user to be in the room who has gone, unless a connection of that user
\* ended while joinOrder waited for the database.
NoGhosts ==
    \A s \in Sockets : \A x \in told[s] \ late :
        x[1] \in rooms[s] => \E t \in Sockets : UserOf[t] = x[2] /\ x[1] \in rooms[t]

====================================================================================
