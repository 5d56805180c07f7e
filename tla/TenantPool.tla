---------------------------- MODULE TenantPool ----------------------------
(***************************************************************************)
(* The PostgreSQL connections of one API process (pkg/postgres): a pool of *)
(* at most Conns connections shared by the requests of logged-in users,    *)
(* which reserve one for their whole handler and scope it to their company *)
(* (tenant.go, internal/tenant/middleware.go), and by the webhooks and     *)
(* background goroutines, which take one per statement and must find it    *)
(* unscoped: the row level security policies read the setting.             *)
(*                                                                         *)
(* One action per statement on a connection.  What the statements of a     *)
(* handler read and write is left out; how a statement can fail is kept.   *)
(***************************************************************************)
EXTENDS Tenants, Integers

CONSTANTS
  Conns,        \* the slots of SetMaxOpenConns
  Requests,     \* workers of the HTTP server that serve logged-in users
  Jobs,         \* webhooks, dispatchOutbound and the other goroutines
  NoConn,
  RoleEnabled,  \* ConfigureTenantRole found the restricted role
  MaxFaults     \* bound: statements that fail, connections that break

ASSUME PoolConstants ==
  /\ NoConn \notin Conns
  /\ Requests \cap Jobs = {}
  /\ RoleEnabled \in BOOLEAN
  /\ MaxFaults \in Nat

VARIABLES
  pool,    \* per slot: its state, whether the server is gone, and its session settings
  actor,   \* per request and job: where it is, for whom, and the connection it holds
  faults   \* how many more things may go wrong

poolVars == <<pool, actor, faults>>

Actors == Requests \cup Jobs
PCs == {"idle", "reserve", "company", "role", "serve", "notify", "reset", "clear", "query"}

\* A slot without a connection, and a connection as PostgreSQL opens it.
Closed == [state |-> "closed", broken |-> FALSE, company |-> NoCompany, role |-> FALSE]
Fresh == [Closed EXCEPT !.state = "busy"]
Resting == [pc |-> "idle", company |-> NoCompany, conn |-> NoConn]

PoolTypeOK ==
  /\ pool \in [Conns -> [state : {"closed", "idle", "busy"}, broken : BOOLEAN,
                         company : Companies \cup {NoCompany}, role : BOOLEAN]]
  /\ actor \in [Actors -> [pc : PCs, company : Companies \cup {NoCompany},
                           conn : Conns \cup {NoConn}]]
  /\ faults \in 0 .. MaxFaults

PoolInit ==
  /\ pool = [k \in Conns |-> Closed]
  /\ actor = [a \in Actors |-> Resting]
  /\ faults \in 0 .. MaxFaults

Goto(a, pc) == actor' = [actor EXCEPT ![a].pc = pc]
Fault == faults > 0 /\ faults' = faults - 1

\* A statement succeeds on a live connection; it fails on a broken one, and
\* now and then on a live one, with or without having taken effect.
Succeeds(k) == ~pool[k].broken /\ UNCHANGED faults
Fails(k) == (pool[k].broken /\ UNCHANGED faults) \/ Fault

\* The end of a handler that could not use its connection: database/sql drops
\* it, so what its session holds no longer matters.
Discard(a) ==
  /\ pool' = [pool EXCEPT ![actor[a].conn] = Closed]
  /\ actor' = [actor EXCEPT ![a] = Resting]

\* A request with a valid token (its claims name the company), or a webhook or
\* goroutine that is about to use the database.
Arrive(r, c) ==
  /\ actor[r].pc = "idle"
  /\ actor' = [actor EXCEPT ![r].pc = "reserve", ![r].company = c]
  /\ UNCHANGED <<pool, faults>>

StartJob(j) == actor[j].pc = "idle" /\ Goto(j, "reserve") /\ UNCHANGED <<pool, faults>>

\* Connx, or the start of a statement on the pool: an idle connection if there
\* is one, else a new one while a slot is left; otherwise the caller waits.
Reserve(a, k) ==
  /\ actor[a].pc = "reserve"
  /\ \/ pool[k].state = "idle" /\ pool' = [pool EXCEPT ![k].state = "busy"]
     \/ /\ pool[k].state = "closed"
        /\ \A q \in Conns : pool[q].state # "idle"
        /\ pool' = [pool EXCEPT ![k] = Fresh]
  /\ actor' = [actor EXCEPT ![a].conn = k, ![a].pc = IF a \in Requests THEN "company" ELSE "query"]
  /\ UNCHANGED faults

\* The server refuses the new connection: 503 for a request, a log line for a job.
ReserveFails(a) ==
  /\ actor[a].pc = "reserve"
  /\ \E k \in Conns : pool[k].state = "closed"
  /\ \A q \in Conns : pool[q].state # "idle"
  /\ Fault
  /\ actor' = [actor EXCEPT ![a] = Resting]
  /\ UNCHANGED pool

\* BindTenant: the two statements that scope the connection ...
SetCompany(r) ==
  LET k == actor[r].conn IN
  /\ actor[r].pc = "company"
  /\ Succeeds(k)
  /\ pool' = [pool EXCEPT ![k].company = actor[r].company]
  /\ Goto(r, IF RoleEnabled THEN "role" ELSE "serve")

SetRole(r) ==
  LET k == actor[r].conn IN
  /\ actor[r].pc = "role"
  /\ Succeeds(k)
  /\ pool' = [pool EXCEPT ![k].role = TRUE]
  /\ Goto(r, "serve")

\* Mutant of BindFails: a connection whose scoping failed goes back to the pool.
BindFails_Pooled(r) ==
  LET k == actor[r].conn IN
  /\ actor[r].pc \in {"company", "role"}
  /\ Fails(k)
  /\ \E c \in {pool[k].company, actor[r].company} :
       pool' = [pool EXCEPT ![k].state = "idle", ![k].company = c]
  /\ actor' = [actor EXCEPT ![r] = Resting]

\* ... and what happens when one of them fails: fail closed, 503.
BindFails(r) ==
  /\ actor[r].pc \in {"company", "role"}
  /\ Fails(actor[r].conn)
  /\ Discard(r)

\* The handler runs its statements, transactions included, on the connection
\* of its context (ext, BeginTxx), and may publish an event at its end.
Serve(r) ==
  /\ actor[r].pc = "serve"
  /\ \E pc \in {"notify", "reset"} : Goto(r, pc)
  /\ UNCHANGED <<pool, faults>>

\* The event is in the queue of the hub: a request still holds its connection
\* and goes on to Release, a job is done.
Notified(a) ==
  /\ actor[a].pc = "notify"
  /\ actor' = IF a \in Requests THEN [actor EXCEPT ![a].pc = "reset"]
                                ELSE [actor EXCEPT ![a] = Resting]
  /\ UNCHANGED <<pool, faults>>

\* Release: two statements and the return to the pool, or Discard.
ResetRole(r) ==
  LET k == actor[r].conn IN
  /\ actor[r].pc = "reset"
  /\ Succeeds(k)
  /\ pool' = [pool EXCEPT ![k].role = FALSE]
  /\ Goto(r, "clear")

ClearCompany(r) ==
  LET k == actor[r].conn IN
  /\ actor[r].pc = "clear"
  /\ Succeeds(k)
  /\ pool' = [pool EXCEPT ![k].company = NoCompany, ![k].state = "idle"]
  /\ actor' = [actor EXCEPT ![r] = Resting]

\* Mutant of ReleaseFails: the error is logged and the connection never closed.
ReleaseFails_Kept(r) ==
  /\ actor[r].pc \in {"reset", "clear"}
  /\ Fails(actor[r].conn)
  /\ actor' = [actor EXCEPT ![r] = Resting]
  /\ UNCHANGED pool

ReleaseFails(r) ==
  /\ actor[r].pc \in {"reset", "clear"}
  /\ Fails(actor[r].conn)
  /\ Discard(r)

\* A statement outside a request: the connection goes back at once, and an
\* event may follow.
Query(j) ==
  /\ actor[j].pc = "query"
  /\ Succeeds(actor[j].conn)
  /\ pool' = [pool EXCEPT ![actor[j].conn].state = "idle"]
  /\ \/ actor' = [actor EXCEPT ![j] = Resting]
     \/ \E c \in Companies :
          actor' = [actor EXCEPT ![j] = [pc |-> "notify", company |-> c, conn |-> NoConn]]

QueryFails(j) ==
  /\ actor[j].pc = "query"
  /\ Fails(actor[j].conn)
  /\ Discard(j)

\* A connection dies (and nobody is told), or the pool closes an idle one:
\* its lifetime is over, or more are idle than SetMaxIdleConns allows.
Break(k) ==
  /\ pool[k].state # "closed" /\ ~pool[k].broken
  /\ Fault
  /\ pool' = [pool EXCEPT ![k].broken = TRUE]
  /\ UNCHANGED actor

Expire(k) ==
  /\ pool[k].state = "idle"
  /\ pool' = [pool EXCEPT ![k] = Closed]
  /\ UNCHANGED <<actor, faults>>

\* What an actor does on its own once it has started, the reservation and the
\* event apart.
RequestStep(r) ==
  \/ SetCompany(r) \/ SetRole(r) \/ BindFails(r) \/ Serve(r)
  \/ ResetRole(r) \/ ClearCompany(r) \/ ReleaseFails(r)
JobStep(j) == Query(j) \/ QueryFails(j)

---------------------------------------------------------------------------
Holds(a, k) == actor[a].conn = k

\* Isolation: the statements of a request run on a connection scoped to its
\* company (with the restricted role if there is one), and the statements of
\* a webhook or a goroutine never run under the company of somebody else's
\* request (tenant.go:81-106, migration 000016).
ScopedConnections ==
  /\ \A r \in Requests : actor[r].pc \in {"serve", "notify"} =>
       LET k == actor[r].conn IN
       /\ k # NoConn
       /\ pool[k].company = actor[r].company
       /\ pool[k].role = RoleEnabled
  /\ \A j \in Jobs : actor[j].pc = "query" =>
       LET k == actor[j].conn IN
       /\ k # NoConn
       /\ pool[k].company = NoCompany
       /\ ~pool[k].role

\* Accounting: a busy connection has exactly one holder (none is leaked, none
\* shared), and whoever holds a connection holds a busy one.
ConnectionsAccounted ==
  /\ \A k \in Conns : pool[k].state = "busy" => \E a \in Actors : Holds(a, k)
  /\ \A a \in Actors : \A k \in Conns : Holds(a, k) =>
       /\ pool[k].state = "busy"
       /\ \A b \in Actors : Holds(b, k) => a = b
=============================================================================
