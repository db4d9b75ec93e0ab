------------------------------- MODULE EventBus -------------------------------
(***************************************************************************)
(* api/websocket.py (ConnectionManager), the endpoint loop of api/main.py  *)
(* and the REST handlers as callers of the bus.  All of them are           *)
(* coroutines of one thread: a step of the model is what a coroutine does  *)
(* between two awaits.  Several broadcasts can be suspended at once, each  *)
(* in the middle of its own walk over the one list of connections.         *)
(***************************************************************************)
EXTENDS Integers, Sequences, FiniteSets

CONSTANTS
  Clients,   \* WebSocket objects; a client that reconnects is a new one
  Requests,  \* requests to a handler that broadcasts an event and the state
  None       \* the payload of a DEM event, which carries no ECU state

ASSUME EventBusAssumption ==
  /\ Clients \cap Requests = {}
  /\ IsFiniteSet(Clients)
  /\ None \notin Nat

Tasks == Clients \cup Requests

VARIABLES
  connections,  \* ConnectionManager._connections
  gone,         \* clients on whose socket a send fails
  at,           \* where each coroutine stands
  walk,         \* its broadcast: next index, dead list, payload
  ecu,          \* handlers run so far: the age of the ECU state
  view,         \* the age of the ECU state each client was sent last
  answer,       \* what each request was answered
  reached,      \* history: the clients a coroutine's broadcast was sent to
  shifted       \* history: an entry was removed since its broadcast began

busVars == <<connections, gone, at, walk, ecu, view, answer, reached, shifted>>

Connected == {connections[i] : i \in DOMAIN connections}

\* The broadcasts of an endpoint: the greeting, outside its try, and the one of
\* every second; of a request: the event, then the ECU state.
Sending == {"greeting", "periodic", "event", "state"}
NoWalk == [next |-> 1, dead |-> <<>>, payload |-> None]

EventBusTypeOK ==
  /\ connections \in Seq(Clients)
  /\ Len(connections) = Cardinality(Connected)
  /\ gone \subseteq Clients
  /\ at \in [Tasks -> {"new", "asleep", "ended"} \cup Sending]
  /\ walk \in [Tasks -> [next    : 1..(Cardinality(Clients) + 1),
                         dead    : Seq(gone),
                         payload : 0..ecu \cup {None}]]
  /\ ecu \in Nat
  /\ view \in [Clients -> 0..ecu \cup {None}]
  /\ answer \in [Requests -> {"none", "ok", "error"}]
  /\ reached \in [Tasks -> SUBSET Clients]
  /\ shifted \in [Tasks -> BOOLEAN]

EventBusInit ==
  /\ connections = <<>>
  /\ gone = {}
  /\ at = [t \in Tasks |-> "new"]
  /\ walk = [t \in Tasks |-> NoWalk]
  /\ ecu = 0
  /\ view = [c \in Clients |-> None]
  /\ answer = [r \in Requests |-> "none"]
  /\ reached = [t \in Tasks |-> {}]
  /\ shifted = [t \in Tasks |-> FALSE]

-----------------------------------------------------------------------------
\* broadcast up to its first await: the payload is taken now.
Broadcast(t, which, payload) ==
  /\ at' = [at EXCEPT ![t] = which]
  /\ walk' = [walk EXCEPT ![t] = [NoWalk EXCEPT !.payload = payload]]
  /\ reached' = [reached EXCEPT ![t] = {}]

\* Mutant of Connect: a new connection is inserted at the front.
ConnectAtFront(c) ==
  /\ at[c] = "new"
  /\ connections' = <<c>> \o connections
  /\ Broadcast(c, "greeting", ecu)
  /\ UNCHANGED <<gone, ecu, view, answer, shifted>>

\* websocket_endpoint, accepted: connect appends, the greeting begins.
Connect(c) ==
  /\ at[c] = "new"
  /\ connections' = Append(connections, c)
  /\ Broadcast(c, "greeting", ecu)
  /\ UNCHANGED <<gone, ecu, view, answer, shifted>>

\* Mutant of Wake: the test of the client state is inverted.
WakeSilent(c) == at[c] = "asleep" /\ UNCHANGED busVars

\* The second is over.  The client state is compared with 3, a value it never
\* takes on an accepted socket, so a client that has gone does not end its loop.
Wake(c) ==
  /\ at[c] = "asleep"
  /\ Broadcast(c, "periodic", ecu)
  /\ UNCHANGED <<connections, gone, ecu, view, answer, shifted>>

\* A handler runs, a change of the ECU or not, and broadcasts the event it left;
\* what is read of the ECU from now on is as of this handler.
Arrive(r) ==
  /\ at[r] = "new"
  /\ ecu' = ecu + 1
  /\ Broadcast(r, "event", None)
  /\ UNCHANGED <<connections, gone, view, answer, shifted>>

\* A client's socket breaks; nobody is told before the next send.
SocketBreaks(c) ==
  /\ c \in Connected \ gone
  /\ gone' = gone \cup {c}
  /\ UNCHANGED <<connections, at, walk, ecu, view, answer, reached, shifted>>

-----------------------------------------------------------------------------
\* The list iterator has another entry: one send_text, which suspends.
Walking(t) == at[t] \in Sending /\ walk[t].next <= Len(connections)

\* Mutant of SendSucceeds: the entry is put on the dead list all the same.
SendMarksDead(t) ==
  /\ Walking(t)
  /\ connections[walk[t].next] \notin gone
  /\ walk' = [walk EXCEPT ![t].next = @ + 1,
                          ![t].dead = Append(@, connections[walk[t].next])]
  /\ UNCHANGED <<connections, gone, at, ecu, view, answer, reached, shifted>>

SendSucceeds(t) ==
  /\ Walking(t)
  /\ LET c == connections[walk[t].next] IN
     /\ c \notin gone
     /\ view' = [view EXCEPT ![c] =
                   IF walk[t].payload = None THEN view[c] ELSE walk[t].payload]
     /\ reached' = [reached EXCEPT ![t] = @ \cup {c}]
  /\ walk' = [walk EXCEPT ![t].next = @ + 1]
  /\ UNCHANGED <<connections, gone, at, ecu, answer, shifted>>

\* Mutant of SendFails: the entry is removed at once, under the own walk.
SendFailsRemoves(t) ==
  /\ Walking(t)
  /\ connections[walk[t].next] \in gone
  /\ connections' = SelectSeq(connections,
                              LAMBDA c : c # connections[walk[t].next])
  /\ walk' = [walk EXCEPT ![t].next = @ + 1]
  /\ UNCHANGED <<gone, at, ecu, view, answer, reached, shifted>>

SendFails(t) ==
  /\ Walking(t)
  /\ connections[walk[t].next] \in gone
  /\ walk' = [walk EXCEPT ![t].next = @ + 1,
                          ![t].dead = Append(@, connections[walk[t].next])]
  /\ UNCHANGED <<connections, gone, at, ecu, view, answer, reached, shifted>>

-----------------------------------------------------------------------------
\* The end of broadcast: list.remove for each dead entry, up to the first one
\* another coroutine has removed, where it raises ValueError.
Purgeable(t) == at[t] \in Sending /\ walk[t].next > Len(connections)

Missing(dead) == {i \in DOMAIN dead : dead[i] \notin Connected}
Raises(t) == Missing(walk[t].dead) # {}
Removed(dead) ==
  {dead[i] : i \in {j \in DOMAIN dead : \A k \in Missing(dead) : j < k}}

\* Mutant of Without: as many entries are dropped from the front.
WithoutFirst(clients) ==
  SubSeq(connections, Cardinality(clients) + 1, Len(connections))

\* The entries that stay, in their order.
Without(clients) ==
  LET kept[i \in 0..Len(connections)] ==
        IF i = 0 THEN <<>>
        ELSE IF connections[i] \in clients THEN kept[i - 1]
        ELSE Append(kept[i - 1], connections[i])
  IN kept[Len(connections)]

\* connections loses these entries, under every other walk still on its way.
Remove(t, clients) ==
  /\ connections' = Without(clients)
  /\ shifted' = [u \in Tasks |->
       u # t /\ at[u] \in Sending /\ (shifted[u] \/ clients \cap Connected # {})]

\* t's broadcast is over and t goes on elsewhere.
Leave(t, place) ==
  /\ at' = [at EXCEPT ![t] = place]
  /\ walk' = [walk EXCEPT ![t] = NoWalk]
  /\ reached' = [reached EXCEPT ![t] = {}]

\* An endpoint goes to sleep again.
EndpointSleeps(c) ==
  /\ Purgeable(c)
  /\ ~Raises(c)
  /\ Remove(c, Removed(walk[c].dead))
  /\ Leave(c, "asleep")
  /\ UNCHANGED <<gone, ecu, view, answer>>

\* ValueError in the greeting: nothing disconnects this client, its endpoint
\* ends and the server closes the socket.
GreetingRaises(c) ==
  /\ Purgeable(c)
  /\ at[c] = "greeting"
  /\ Raises(c)
  /\ Remove(c, Removed(walk[c].dead))
  /\ Leave(c, "ended")
  /\ gone' = gone \cup {c}
  /\ UNCHANGED <<ecu, view, answer>>

\* ValueError in the loop is taken for the client's own disconnection.
LoopRaises(c) ==
  /\ Purgeable(c)
  /\ at[c] = "periodic"
  /\ Raises(c)
  /\ Remove(c, Removed(walk[c].dead) \cup {c})
  /\ Leave(c, "ended")
  /\ gone' = gone \cup {c}
  /\ UNCHANGED <<ecu, view, answer>>

\* The event is out; the ECU state is read now and broadcast.
EventOut(r) ==
  /\ Purgeable(r)
  /\ at[r] = "event"
  /\ ~Raises(r)
  /\ Remove(r, Removed(walk[r].dead))
  /\ Broadcast(r, "state", ecu)
  /\ UNCHANGED <<gone, ecu, view, answer>>

\* The request is answered, with an error if the broadcast raised.
RequestAnswered(r) ==
  /\ Purgeable(r)
  /\ at[r] = "state" \/ Raises(r)
  /\ Remove(r, Removed(walk[r].dead))
  /\ answer' = [answer EXCEPT ![r] = IF Raises(r) THEN "error" ELSE "ok"]
  /\ Leave(r, "ended")
  /\ UNCHANGED <<gone, ecu, view>>

Purge(t) ==
  \/ t \in Clients /\ (EndpointSleeps(t) \/ GreetingRaises(t) \/ LoopRaises(t))
  \/ t \in Requests /\ (EventOut(t) \/ RequestAnswered(t))

-----------------------------------------------------------------------------
\* What a coroutine that was started does by itself.
Runs(t) ==
  \/ SendSucceeds(t) \/ SendFails(t) \/ Purge(t)
  \/ t \in Clients /\ Wake(t)

EventBusNext ==
  \/ \E c \in Clients : Connect(c) \/ SocketBreaks(c)
  \/ \E r \in Requests : Arrive(r)
  \/ \E t \in Tasks : Runs(t)

\* asyncio resumes every coroutine whose await is over.
EventBusSpec ==
  /\ EventBusInit
  /\ [][EventBusNext]_busVars
  /\ \A t \in Tasks : WF_busVars(Runs(t))

-----------------------------------------------------------------------------
\* No broadcast is sent to a client twice, however the list changes while the
\* walk is suspended: entries only ever move towards the front.
AtMostOnce ==
  [][\A t \in Tasks : SendSucceeds(t) =>
       connections[walk[t].next] \notin reached[t]]_busVars

\* A walk during which no other coroutine removed an entry has tried every
\* client connected at its end, the ones that came in the middle included.
UndisturbedReachesAll ==
  [][\A t \in Tasks : Purge(t) /\ ~shifted[t] =>
       Connected \subseteq
         reached[t] \cup {walk[t].dead[i] : i \in DOMAIN walk[t].dead}]_busVars

\* An entry leaves the list only if its socket is broken or its own endpoint
\* ends in this very step: no broadcast removes a client that works.
OnlyDeadRemoved ==
  [][\A c \in Connected :
       c \in {connections'[i] : i \in DOMAIN connections'}
         \/ c \in gone \/ at'[c] = "ended"]_busVars

\* Every client that stays connected is sent, again and again, an ECU state
\* read after the latest handler ran, though broadcasts overtake each other, carry
\* a state read before their first await and skip clients.
StateIsShown ==
  \A c \in Clients :
    c \in Connected ~> view[c] = ecu \/ c \in gone \/ c \notin Connected

=============================================================================
