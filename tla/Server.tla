------------------------------- MODULE Server -------------------------------
(***************************************************************************)
(* One API process under load: the requests and background jobs of         *)
(* TenantPool publish their events to the queue of RealtimeHub, a request  *)
(* while it still holds its database connection.  A browser that stops     *)
(* reading therefore makes the hub wait, a full queue makes the requests   *)
(* wait, and their connections make everybody else wait.                   *)
(***************************************************************************)
EXTENDS TenantPool, RealtimeHub

CONSTANT Workloads    \* which requests, jobs and sockets show up together, with how many faults

ASSUME WorkloadsAssumption ==
  Workloads \subseteq [who : SUBSET (Actors \cup Sockets), faults : 0 .. MaxFaults]

VARIABLE load         \* the workload of this run of the process

vars == <<poolVars, hubVars, load>>

Init == PoolInit /\ HubInit /\ load \in Workloads /\ faults = load.faults

\* The two halves do not share a variable: a step of one leaves the other alone.
PoolOnly(A) == A /\ UNCHANGED <<hubVars, load>>
HubOnly(A) == A /\ UNCHANGED <<poolVars, load>>

\* BroadcastToCompany at the end of a handler or a job.
Notify(a) == Notified(a) /\ Broadcast(actor[a].company) /\ UNCHANGED load

\* json.Marshal refuses the event: it is logged and skipped.
SkipEvent ==
  /\ hub.pc = "select" /\ queue # <<>>
  /\ Fault
  /\ queue' = Tail(queue)
  /\ UNCHANGED <<pool, actor, hub, clients, rooms, handler, sock, owed, load>>

\* New work: a request, a webhook or goroutine, a browser.
Begin ==
  \/ \E r \in Requests \cap load.who, c \in Companies : PoolOnly(Arrive(r, c))
  \/ \E j \in Jobs \cap load.who : PoolOnly(StartJob(j))
  \/ \E s \in Sockets \cap load.who, c \in Companies : HubOnly(Connect(s, c))

GetConnection(a) == PoolOnly((\E k \in Conns : Reserve(a, k)) \/ ReserveFails(a))
OwnStep(a) == PoolOnly(IF a \in Requests THEN RequestStep(a) ELSE JobStep(a))
Trouble ==
  \/ \E k \in Conns : PoolOnly(Break(k) \/ Expire(k))
  \/ \E s \in Sockets : HubOnly(GoneAway(s))
  \/ SkipEvent

ActorStep(a) == GetConnection(a) \/ OwnStep(a) \/ Notify(a)
HandlerStep(s) == HubOnly(ReadFails(s) \/ Register(s) \/ Unregister(s))

Next ==
  \/ Begin
  \/ \E a \in Actors : ActorStep(a)
  \/ \E s \in Sockets : HandlerStep(s)
  \/ HubOnly(Dequeue) \/ HubOnly(HubWork)
  \/ Trouble

Spec == Init /\ [][Next]_vars

\* Fairness.  A goroutine that can run runs.  database/sql and Go's channels
\* serve those who wait in the order they came, and a select chooses among its
\* ready cases at random: nobody is overtaken for ever (SF; at any time only one
\* of its steps is possible to an actor or handler).  A write to a socket ends,
\* if only because TCP gives up on a peer that does not read.
Fairness ==
  /\ \A a \in Actors : SF_vars(ActorStep(a))
  /\ \A s \in Sockets : SF_vars(HandlerStep(s))
  /\ SF_vars(HubOnly(Dequeue))
  /\ WF_vars(HubOnly(HubWork))

FairSpec == Spec /\ Fairness

TypeOK == PoolTypeOK /\ HubTypeOK

\* Nobody waits for ever: with as few connections and as small a queue as
\* there can be, every request and job ends although the requests hold their
\* connection while they wait for the queue (tenant.go:174-181, hub.go:115), and
\* a websocket handler is registered by the hub and, when its socket is gone,
\* let go by it.
EverybodyIsServed ==
  /\ \A a \in Actors : actor[a].pc # "idle" ~> actor[a].pc = "idle"
  /\ \A s \in Sockets :
       handler[s].pc \in {"register", "leaving"} ~> handler[s].pc \in {"reading", "away"}
=============================================================================
