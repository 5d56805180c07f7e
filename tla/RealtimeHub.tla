---------------------------- MODULE RealtimeHub ----------------------------
(***************************************************************************)
(* The websocket hub (internal/websocket/hub.go): one goroutine that       *)
(* selects between two unbuffered channels, on which the connection        *)
(* handlers register and unregister, and the buffered channel of events,   *)
(* and that writes every event itself to each socket of the company, with  *)
(* no deadline.  The websocket library takes a socket back as soon as its  *)
(* handler returns, so the hub must never write to it after that.          *)
(***************************************************************************)
EXTENDS Tenants, Integers, Sequences

CONSTANTS
  Sockets,     \* websocket connections; one is used again after its handler returned
  QueueSize    \* capacity of the channel of events (256)

ASSUME HubConstants == QueueSize \in Nat \ {0}

VARIABLES
  queue,      \* the channel of events: the company of each
  hub,        \* the hub goroutine: its event, the snapshot left to write, the failed writes
  clients,    \* h.clients
  rooms,      \* h.companies
  handler,    \* per socket: where its handler is, and its company
  sock,       \* per socket: what a read or a write of it meets
  owed        \* history, per handler that reads: events of its company it did not get

hubVars == <<queue, hub, clients, rooms, handler, sock, owed>>

Away == [pc |-> "away", company |-> NoCompany]
Selecting == [pc |-> "select", event |-> NoCompany, todo |-> {}, failed |-> {}]

HubTypeOK ==
  /\ queue \in Seq(Companies) /\ Len(queue) <= QueueSize
  /\ hub \in [pc : {"select", "write"}, event : Companies \cup {NoCompany},
              todo : SUBSET Sockets, failed : SUBSET Sockets]
  /\ clients \subseteq Sockets
  /\ rooms \in [Companies -> SUBSET Sockets]
  /\ handler \in [Sockets -> [pc : {"away", "register", "reading", "leaving"},
                              company : Companies \cup {NoCompany}]]
  /\ sock \in [Sockets -> {"open", "broken"}]
  /\ owed \in [Sockets -> Nat]

HubInit ==
  /\ queue = <<>>
  /\ hub = Selecting
  /\ clients = {}
  /\ rooms = [c \in Companies |-> {}]
  /\ handler = [s \in Sockets |-> Away]
  /\ sock = [s \in Sockets |-> "broken"]
  /\ owed = [s \in Sockets |-> 0]

\* Mutant of Broadcast: the channel takes whatever comes.
Broadcast_Unbounded(c) ==
  /\ queue' = Append(queue, c)
  /\ UNCHANGED <<hub, clients, rooms, handler, sock, owed>>

\* BroadcastToCompany: a send that waits while the channel is full.
Broadcast(c) ==
  /\ Len(queue) < QueueSize
  /\ queue' = Append(queue, c)
  /\ UNCHANGED <<hub, clients, rooms, handler, sock, owed>>

\* A browser connects with a valid token: the handler waits at the register channel.
Connect(s, c) ==
  /\ handler[s].pc = "away"
  /\ handler' = [handler EXCEPT ![s] = [pc |-> "register", company |-> c]]
  /\ sock' = [sock EXCEPT ![s] = "open"]
  /\ owed' = [owed EXCEPT ![s] = 0]
  /\ UNCHANGED <<queue, hub, clients, rooms>>

\* The browser leaves, or the network does.  Nobody looks at a socket before
\* it is registered: one that is gone by then is gone right after.
GoneAway(s) ==
  /\ handler[s].pc = "reading" /\ sock[s] = "open"
  /\ sock' = [sock EXCEPT ![s] = "broken"]
  /\ UNCHANGED <<queue, hub, clients, rooms, handler, owed>>

\* ReadMessage fails, and the deferred send to the unregister channel waits.
ReadFails(s) ==
  /\ handler[s].pc = "reading" /\ sock[s] = "broken"
  /\ handler' = [handler EXCEPT ![s].pc = "leaving"]
  /\ UNCHANGED <<queue, hub, clients, rooms, sock, owed>>

\* The three cases of the select.
Register(s) ==
  /\ hub.pc = "select"
  /\ handler[s].pc = "register"
  /\ clients' = clients \cup {s}
  /\ rooms' = [rooms EXCEPT ![handler[s].company] = @ \cup {s}]
  /\ handler' = [handler EXCEPT ![s].pc = "reading"]
  /\ UNCHANGED <<queue, hub, sock, owed>>

\* Mutant of Unregister: a buffered channel, the handler does not wait for the hub.
Unregister_Buffered(s) ==
  /\ handler[s].pc = "leaving"
  /\ clients' = clients \ {s}
  /\ rooms' = [rooms EXCEPT ![handler[s].company] = @ \ {s}]
  /\ handler' = [handler EXCEPT ![s] = Away]
  /\ sock' = [sock EXCEPT ![s] = "broken"]
  /\ owed' = [owed EXCEPT ![s] = 0]
  /\ UNCHANGED <<queue, hub>>

\* A client the hub has dropped already is not in the maps: nothing to delete.
\* The handler returns and the library takes the socket back.
Unregister(s) ==
  /\ hub.pc = "select"
  /\ handler[s].pc = "leaving"
  /\ clients' = clients \ {s}
  /\ rooms' = [rooms EXCEPT ![handler[s].company] = @ \ {s}]
  /\ handler' = [handler EXCEPT ![s] = Away]
  /\ sock' = [sock EXCEPT ![s] = "broken"]
  /\ owed' = [owed EXCEPT ![s] = 0]
  /\ UNCHANGED <<queue, hub>>

\* The snapshot of the company's clients, and what the event owes to every
\* handler that reads.
Dequeue ==
  LET c == Head(queue) IN
  /\ hub.pc = "select"
  /\ queue # <<>>
  /\ queue' = Tail(queue)
  /\ hub' = IF rooms[c] = {} THEN hub
            ELSE [pc |-> "write", event |-> c, todo |-> rooms[c], failed |-> {}]
  /\ owed' = [s \in Sockets |->
                IF handler[s].pc = "reading" /\ handler[s].company = c /\ sock[s] = "open"
                THEN owed[s] + 1 ELSE owed[s]]
  /\ UNCHANGED <<clients, rooms, handler, sock>>

\* Mutant of Write: a write that failed is tried again.
Write_Retry(s) ==
  /\ s \in hub.todo
  /\ hub' = IF sock[s] = "open" THEN [hub EXCEPT !.todo = @ \ {s}] ELSE hub
  /\ owed' = [owed EXCEPT ![s] = IF sock[s] = "open" /\ @ > 0 THEN @ - 1 ELSE @]
  /\ UNCHANGED <<queue, clients, rooms, handler, sock>>

\* WriteMessage to one client of the snapshot, in the order of a Go map.  There
\* is no deadline: to a peer that does not read, it lasts until TCP gives up.
Write(s) ==
  /\ s \in hub.todo
  /\ hub' = [hub EXCEPT !.todo = @ \ {s},
                        !.failed = IF sock[s] = "open" THEN @ ELSE @ \cup {s}]
  /\ owed' = [owed EXCEPT ![s] = IF sock[s] = "open" /\ @ > 0 THEN @ - 1 ELSE @]
  /\ UNCHANGED <<queue, clients, rooms, handler, sock>>

\* Mutant of DropFailed: one failed write empties the company's room.
DropFailed_Room ==
  LET gone == hub.failed \cap clients IN
  /\ hub.pc = "write" /\ hub.todo = {}
  /\ clients' = clients \ gone
  /\ rooms' = IF gone = {} THEN rooms ELSE [rooms EXCEPT ![hub.event] = {}]
  /\ sock' = [s \in Sockets |-> IF s \in gone THEN "broken" ELSE sock[s]]
  /\ hub' = Selecting
  /\ UNCHANGED <<queue, handler, owed>>

\* After the last write: the clients whose write failed are closed and deleted
\* from both maps, here and not through the unregister channel, which only
\* this goroutine receives from.
DropFailed ==
  LET gone == hub.failed \cap clients IN
  /\ hub.pc = "write" /\ hub.todo = {}
  /\ clients' = clients \ gone
  /\ rooms' = [c \in Companies |-> rooms[c] \ gone]
  /\ sock' = [s \in Sockets |-> IF s \in gone THEN "broken" ELSE sock[s]]
  /\ hub' = Selecting
  /\ UNCHANGED <<queue, handler, owed>>

HubWork == (\E s \in Sockets : Write(s)) \/ DropFailed

---------------------------------------------------------------------------
\* Isolation and lifetime: whatever the hub is about to write goes to a socket
\* of the event's company whose handler has not returned, so the socket is
\* neither closed by the library nor in use by another browser (hub.go:77-92
\* against 158-160).
WritesStayInCompany ==
  \A s \in hub.todo \cup hub.failed :
    /\ handler[s].company = hub.event
    /\ handler[s].pc \in {"reading", "leaving"}

\* Completeness: a browser that is connected and whose socket works has got
\* every event of its company dequeued since it registered, however other
\* clients come, fail and go (hub.go:71-108).
LiveClientsMissNothing ==
  \A s \in Sockets :
    handler[s].pc = "reading" /\ sock[s] = "open" =>
      owed[s] = IF s \in hub.todo THEN 1 ELSE 0
=============================================================================
