--------------------------- MODULE ServerProofs ---------------------------
(***************************************************************************)
(* Proofs about Server, for any number of connections, requests, jobs,     *)
(* sockets and companies and a queue of any size.                          *)
(*                                                                         *)
(* The two halves share no variable, so the invariant is PoolInv /\ HubInv *)
(* and each half is proved against its own actions.  PoolInv adds to the   *)
(* properties what a connection's session holds at every step of its       *)
(* holder, and that it holds nothing while it has none.  HubInv adds that  *)
(* the maps of the hub name only handlers that have not returned, and every*)
(* handler that reads from a working socket.                               *)
(***************************************************************************)
EXTENDS Server, TLAPS

Clean(k) == pool[k].company = NoCompany /\ ~pool[k].role
Holding(a) ==
  actor[a].pc \notin {"idle", "reserve"} /\ (a \in Requests \/ actor[a].pc # "notify")

\* Who may be where, and whether it holds a connection there.
ActorShape ==
  \A a \in Actors :
    /\ a \in Requests => actor[a].pc # "query"
    /\ a \in Jobs => actor[a].pc \in {"idle", "reserve", "query", "notify"}
    /\ actor[a].conn # NoConn <=> Holding(a)
    /\ Holding(a) => actor[a].conn \in Conns
    /\ actor[a].pc # "idle" /\ (a \in Requests \/ actor[a].pc = "notify")
         => actor[a].company \in Companies

\* What the session of a held connection contains, step by step.
Session ==
  \A a \in Actors : Holding(a) =>
    LET k == actor[a].conn IN
    /\ actor[a].pc \in {"company", "query"} => Clean(k)
    /\ actor[a].pc \in {"role", "clear"} => pool[k].company = actor[a].company /\ ~pool[k].role
    /\ actor[a].pc \in {"serve", "notify", "reset"} =>
         pool[k].company = actor[a].company /\ pool[k].role = RoleEnabled
    /\ actor[a].pc = "role" => RoleEnabled = TRUE

RestingIsClean == \A k \in Conns : pool[k].state # "busy" => Clean(k)

PoolInv == PoolTypeOK /\ ActorShape /\ Session /\ RestingIsClean /\ ConnectionsAccounted

\* Everything that can happen to the pool.
PoolNext ==
  \/ \E r \in Requests, c \in Companies : Arrive(r, c)
  \/ \E j \in Jobs : StartJob(j)
  \/ \E a \in Actors, k \in Conns : Reserve(a, k)
  \/ \E a \in Actors : ReserveFails(a) \/ Notified(a)
  \/ \E r \in Requests : RequestStep(r)
  \/ \E j \in Jobs : JobStep(j)
  \/ \E k \in Conns : Break(k) \/ Expire(k)
  \/ UNCHANGED <<pool, actor>> /\ Fault

---------------------------------------------------------------------------
(* The pool *)

LEMMA PoolInitially == PoolInit => PoolInv
<1> SUFFICES ASSUME PoolInit PROVE PoolInv
  OBVIOUS
<1>1. PoolTypeOK
  BY PoolConstants DEF PoolInit, PoolTypeOK, Closed, Resting, PCs
<1>2. \A a \in Actors : actor[a].pc = "idle" /\ actor[a].conn = NoConn
  BY DEF PoolInit, Resting
<1>3. \A k \in Conns : pool[k].state = "closed" /\ Clean(k)
  BY DEF PoolInit, Closed, Clean
<1>4. ActorShape
  BY <1>2 DEF ActorShape, Holding
<1>5. Session
  BY <1>2 DEF Session, Holding
<1>6. RestingIsClean
  BY <1>3 DEF RestingIsClean
<1>7. ConnectionsAccounted
  BY <1>2, <1>3, PoolConstants DEF ConnectionsAccounted, Holds
<1> QED BY <1>1, <1>4, <1>5, <1>6, <1>7 DEF PoolInv

\* What the steps change, one actor and one connection at a time.
LEMMA OneActor ==
  ASSUME PoolTypeOK, NEW a \in Actors, NEW p, actor' = [actor EXCEPT ![a] = p]
  PROVE  actor'[a] = p /\ \A b \in Actors : b # a => actor'[b] = actor[b]
  BY DEF PoolTypeOK

LEMMA OneConn ==
  ASSUME PoolTypeOK, NEW k \in Conns, NEW x, pool' = [pool EXCEPT ![k] = x]
  PROVE  pool'[k] = x /\ \A q \in Conns : q # k => pool'[q] = pool[q]
  BY DEF PoolTypeOK

\* An actor that lets go of its connection, which is closed or clean in the
\* pool from then on, and rests or (a job) goes on to publish.
LEMMA LettingGo ==
  ASSUME PoolInv, NEW a \in Actors, Holding(a),
         NEW p \in [pc : {"idle", "notify"}, company : Companies \cup {NoCompany}, conn : {NoConn}],
         p.pc = "idle" \/ (a \in Jobs /\ p.company \in Companies),
         actor' = [actor EXCEPT ![a] = p],
         NEW x \in [state : {"closed", "idle"}, broken : BOOLEAN,
                    company : {NoCompany}, role : {FALSE}],
         pool' = [pool EXCEPT ![actor[a].conn] = x],
         faults' \in 0 .. MaxFaults
  PROVE  PoolInv'
<1> DEFINE k == actor[a].conn
<1>0. PoolTypeOK /\ ActorShape /\ Session /\ RestingIsClean /\ ConnectionsAccounted
  BY DEF PoolInv
<1>1. k \in Conns
  BY <1>0 DEF ActorShape
<1>2. actor'[a] = p /\ \A b \in Actors : b # a => actor'[b] = actor[b]
  BY <1>0, OneActor
<1>3. pool'[k] = x /\ \A q \in Conns : q # k => pool'[q] = pool[q]
  BY <1>0, <1>1, OneConn
<1>4. PoolTypeOK'
  <2>1. p \in [pc : PCs, company : Companies \cup {NoCompany}, conn : Conns \cup {NoConn}]
    BY DEF PCs
  <2>2. x \in [state : {"closed", "idle", "busy"}, broken : BOOLEAN,
               company : Companies \cup {NoCompany}, role : BOOLEAN]
    OBVIOUS
  <2> QED BY <1>0, <2>1, <2>2 DEF PoolTypeOK
<1>5. p.conn = NoConn /\ p.pc \in {"idle", "notify"}
  OBVIOUS
<1>6. \A b \in Actors : b # a => actor[b].conn # k
  BY <1>0, <1>1 DEF ConnectionsAccounted, Holds
<1>7. x.state # "busy" /\ x.company = NoCompany /\ ~x.role
  OBVIOUS
<1>8. \A b \in Actors : b # a => (Holding(b)' <=> Holding(b))
  BY <1>2 DEF Holding
<1>9. ~Holding(a)'
  BY <1>2, <1>5, PoolConstants DEF Holding
<1>10. ActorShape'
  <2>1. SUFFICES ASSUME NEW b \in Actors
        PROVE  /\ b \in Requests => actor'[b].pc # "query"
               /\ b \in Jobs => actor'[b].pc \in {"idle", "reserve", "query", "notify"}
               /\ actor'[b].conn # NoConn <=> Holding(b)'
               /\ Holding(b)' => actor'[b].conn \in Conns
               /\ actor'[b].pc # "idle" /\ (b \in Requests \/ actor'[b].pc = "notify")
                    => actor'[b].company \in Companies
    BY DEF ActorShape
  <2>2. CASE b = a
    BY <2>2, <1>2, <1>5, <1>9, PoolConstants
  <2>3. CASE b # a
    BY <2>3, <1>0, <1>2, <1>8 DEF ActorShape
  <2> QED BY <2>2, <2>3
<1>11. Session'
  <2>1. ASSUME NEW b \in Actors, Holding(b)'
        PROVE  /\ b # a /\ Holding(b) /\ actor'[b] = actor[b]
               /\ pool'[actor[b].conn] = pool[actor[b].conn]
    BY <2>1, <1>0, <1>2, <1>3, <1>6, <1>8, <1>9 DEF ActorShape
  <2> QED BY <2>1, <1>0 DEF Session, Clean
<1>12. RestingIsClean'
  BY <1>0, <1>3, <1>7 DEF RestingIsClean, Clean
<1>13. ConnectionsAccounted'
  <2>1. ASSUME NEW q \in Conns, pool'[q].state = "busy" PROVE \E b \in Actors : Holds(b, q)'
    <3>1. q # k /\ pool[q].state = "busy"
      BY <2>1, <1>3, <1>7
    <3>2. PICK b \in Actors : actor[b].conn = q
      BY <3>1, <1>0 DEF ConnectionsAccounted, Holds
    <3>3. b # a
      BY <3>1, <3>2
    <3> QED BY <3>2, <3>3, <1>2 DEF Holds
  <2>2. ASSUME NEW b \in Actors, NEW q \in Conns, Holds(b, q)'
        PROVE  pool'[q].state = "busy" /\ \A d \in Actors : Holds(d, q)' => b = d
    <3>1. b # a /\ Holds(b, q)
      BY <2>2, <1>2, <1>5, PoolConstants DEF Holds
    <3>2. q # k
      BY <3>1, <1>6 DEF Holds
    <3>3. pool'[q].state = "busy"
      BY <3>1, <3>2, <1>0, <1>3 DEF ConnectionsAccounted
    <3>4. ASSUME NEW d \in Actors, Holds(d, q)' PROVE b = d
      <4>1. d # a /\ Holds(d, q)
        BY <3>4, <1>2, <1>5, PoolConstants DEF Holds
      <4> QED BY <4>1, <3>1, <1>0 DEF ConnectionsAccounted
    <3> QED BY <3>3, <3>4
  <2> QED BY <2>1, <2>2 DEF ConnectionsAccounted
<1> QED BY <1>4, <1>10, <1>11, <1>12, <1>13 DEF PoolInv

\* A request whose statement succeeded keeps its connection and moves on: the
\* session is what the next step expects of it.
Expected(p, x) ==
  /\ p.pc \in {"role", "clear"} => x.company = p.company /\ ~x.role
  /\ p.pc \in {"serve", "notify", "reset"} => x.company = p.company /\ x.role = RoleEnabled
  /\ p.pc = "role" => RoleEnabled = TRUE

LEMMA MovingOn ==
  ASSUME PoolInv, NEW a \in Requests, Holding(a),
         NEW p \in [pc : {"role", "serve", "notify", "reset", "clear"},
                    company : {actor[a].company}, conn : {actor[a].conn}],
         actor' = [actor EXCEPT ![a] = p],
         NEW x \in [state : {"busy"}, broken : BOOLEAN,
                    company : Companies \cup {NoCompany}, role : BOOLEAN],
         pool' = [pool EXCEPT ![actor[a].conn] = x],
         Expected(p, x),
         faults' \in 0 .. MaxFaults
  PROVE  PoolInv'
<1> DEFINE k == actor[a].conn
<1>0. PoolTypeOK /\ ActorShape /\ Session /\ RestingIsClean /\ ConnectionsAccounted /\ a \in Actors
  BY DEF PoolInv, Actors
<1>1. k \in Conns
  BY <1>0 DEF ActorShape
<1>2. actor'[a] = p /\ \A b \in Actors : b # a => actor'[b] = actor[b]
  BY <1>0, OneActor
<1>3. pool'[k] = x /\ \A q \in Conns : q # k => pool'[q] = pool[q]
  BY <1>0, <1>1, OneConn
<1>4. PoolTypeOK'
  <2>1. actor[a].company \in Companies \cup {NoCompany}
    BY <1>0 DEF PoolTypeOK
  <2>2. p \in [pc : PCs, company : Companies \cup {NoCompany}, conn : Conns \cup {NoConn}]
    BY <1>1, <2>1 DEF PCs
  <2>3. x \in [state : {"closed", "idle", "busy"}, broken : BOOLEAN,
               company : Companies \cup {NoCompany}, role : BOOLEAN]
    OBVIOUS
  <2> QED BY <1>0, <2>2, <2>3 DEF PoolTypeOK
<1>5. /\ p.conn = k /\ p.company = actor[a].company
      /\ p.pc \in {"role", "serve", "notify", "reset", "clear"}
  OBVIOUS
<1>6. x.state = "busy"
  OBVIOUS
<1>7. \A b \in Actors : Holding(b)' <=> Holding(b)
  BY <1>2, <1>5 DEF Holding
<1>8. \A b \in Actors : actor'[b].conn = actor[b].conn
  BY <1>2, <1>5
<1>9. \A q \in Conns : pool'[q].state = pool[q].state
  BY <1>0, <1>1, <1>3, <1>6 DEF ConnectionsAccounted, Holds
<1>10. a \notin Jobs
  BY PoolConstants
<1>11. ActorShape'
  <2>1. SUFFICES ASSUME NEW b \in Actors
        PROVE  /\ b \in Requests => actor'[b].pc # "query"
               /\ b \in Jobs => actor'[b].pc \in {"idle", "reserve", "query", "notify"}
               /\ actor'[b].conn # NoConn <=> Holding(b)'
               /\ Holding(b)' => actor'[b].conn \in Conns
               /\ actor'[b].pc # "idle" /\ (b \in Requests \/ actor'[b].pc = "notify")
                    => actor'[b].company \in Companies
    BY DEF ActorShape
  <2>2. CASE b = a
    <3>1. actor[a].company \in Companies /\ k # NoConn
      BY <1>0 DEF ActorShape, Holding
    <3> QED BY <2>2, <3>1, <1>1, <1>2, <1>5, <1>7, <1>10
  <2>3. CASE b # a
    BY <2>3, <1>0, <1>2, <1>7 DEF ActorShape
  <2> QED BY <2>2, <2>3
<1>12. Session'
  <2>1. SUFFICES ASSUME NEW b \in Actors, Holding(b)'
        PROVE  LET q == actor'[b].conn IN
               /\ actor'[b].pc \in {"company", "query"} => pool'[q].company = NoCompany /\ ~pool'[q].role
               /\ actor'[b].pc \in {"role", "clear"} => pool'[q].company = actor'[b].company /\ ~pool'[q].role
               /\ actor'[b].pc \in {"serve", "notify", "reset"} =>
                    pool'[q].company = actor'[b].company /\ pool'[q].role = RoleEnabled
               /\ actor'[b].pc = "role" => RoleEnabled = TRUE
    BY DEF Session, Clean
  <2>2. CASE b = a
    BY <2>2, <1>2, <1>3, <1>5 DEF Expected
  <2>3. CASE b # a
    <3>1. actor'[b] = actor[b] /\ Holding(b) /\ actor[b].conn # k /\ actor[b].conn \in Conns
      BY <2>1, <2>3, <1>0, <1>1, <1>2, <1>7 DEF ConnectionsAccounted, Holds, ActorShape
    <3>2. pool'[actor[b].conn] = pool[actor[b].conn]
      BY <3>1, <1>3
    <3> QED BY <3>1, <3>2, <1>0 DEF Session, Clean
  <2> QED BY <2>2, <2>3
<1>13. RestingIsClean'
  <2>1. ASSUME NEW q \in Conns, pool'[q].state # "busy" PROVE q # k
    BY <2>1, <1>3, <1>6
  <2> QED BY <2>1, <1>0, <1>3 DEF RestingIsClean, Clean
<1>14. ConnectionsAccounted'
  BY <1>0, <1>8, <1>9 DEF ConnectionsAccounted, Holds
<1> QED BY <1>4, <1>11, <1>12, <1>13, <1>14 DEF PoolInv

\* An actor without a connection stays without one.
LEMMA EmptyHanded ==
  ASSUME PoolInv, NEW a \in Actors, ~Holding(a),
         NEW p \in [pc : {"idle", "reserve"}, company : Companies \cup {NoCompany}, conn : {NoConn}],
         p.pc # "idle" /\ a \in Requests => p.company \in Companies,
         actor' = [actor EXCEPT ![a] = p],
         UNCHANGED pool,
         faults' \in 0 .. MaxFaults
  PROVE  PoolInv'
<1>0. PoolTypeOK /\ ActorShape /\ Session /\ RestingIsClean /\ ConnectionsAccounted
  BY DEF PoolInv
<1>1. actor'[a] = p /\ \A b \in Actors : b # a => actor'[b] = actor[b]
  BY <1>0, OneActor
<1>2. p.pc \in {"idle", "reserve"} /\ p.conn = NoConn
  OBVIOUS
<1>3. PoolTypeOK'
  <2>1. p \in [pc : PCs, company : Companies \cup {NoCompany}, conn : Conns \cup {NoConn}]
    BY DEF PCs
  <2> QED BY <1>0, <2>1 DEF PoolTypeOK
<1>4. \A b \in Actors : (Holding(b)' <=> Holding(b)) /\ (Holding(b) => b # a)
  BY <1>1, <1>2 DEF Holding
<1>5. \A b \in Actors : actor'[b].conn = actor[b].conn
  BY <1>0, <1>1, <1>2 DEF ActorShape
<1>6. ActorShape'
  <2>1. SUFFICES ASSUME NEW b \in Actors
        PROVE  /\ b \in Requests => actor'[b].pc # "query"
               /\ b \in Jobs => actor'[b].pc \in {"idle", "reserve", "query", "notify"}
               /\ actor'[b].conn # NoConn <=> Holding(b)'
               /\ Holding(b)' => actor'[b].conn \in Conns
               /\ actor'[b].pc # "idle" /\ (b \in Requests \/ actor'[b].pc = "notify")
                    => actor'[b].company \in Companies
    BY DEF ActorShape
  <2>2. CASE b = a
    BY <2>2, <1>1, <1>2, <1>4
  <2>3. CASE b # a
    BY <2>3, <1>0, <1>1, <1>4 DEF ActorShape
  <2> QED BY <2>2, <2>3
<1>7. Session'
  BY <1>0, <1>1, <1>4 DEF Session, Clean
<1>8. RestingIsClean' /\ ConnectionsAccounted'
  BY <1>0, <1>5 DEF RestingIsClean, Clean, ConnectionsAccounted, Holds
<1> QED BY <1>3, <1>6, <1>7, <1>8 DEF PoolInv

\* An actor that waits gets a clean connection nobody holds.
LEMMA Taking ==
  ASSUME PoolInv, NEW a \in Actors, NEW k \in Conns, Reserve(a, k)
  PROVE  PoolInv'
<1> DEFINE p == [actor[a] EXCEPT !.conn = k, !.pc = IF a \in Requests THEN "company" ELSE "query"]
<1>0. PoolTypeOK /\ ActorShape /\ Session /\ RestingIsClean /\ ConnectionsAccounted
  BY DEF PoolInv
<1>1. actor[a] \in [pc : PCs, company : Companies \cup {NoCompany}, conn : Conns \cup {NoConn}]
      /\ pool[k] \in [state : {"closed", "idle", "busy"}, broken : BOOLEAN,
                      company : Companies \cup {NoCompany}, role : BOOLEAN]
  BY <1>0 DEF PoolTypeOK
<1>2. /\ p \in [pc : PCs, company : Companies \cup {NoCompany}, conn : Conns \cup {NoConn}]
      /\ p.pc = (IF a \in Requests THEN "company" ELSE "query")
      /\ p.company = actor[a].company /\ p.conn = k
  BY <1>1 DEF PCs
<1>3. actor' = [actor EXCEPT ![a] = p]
  BY DEF Reserve
<1>4. actor'[a] = p /\ \A b \in Actors : b # a => actor'[b] = actor[b]
  <2> HIDE DEF p
  <2> QED BY <1>0, <1>3, OneActor
<1>5. pool[k].state # "busy" /\ Clean(k)
  BY <1>0 DEF Reserve, RestingIsClean
<1>6. PICK x \in [state : {"busy"}, broken : BOOLEAN, company : {NoCompany}, role : {FALSE}] :
         pool' = [pool EXCEPT ![k] = x]
  <2>1. CASE pool[k].state = "idle" /\ pool' = [pool EXCEPT ![k].state = "busy"]
    <3>1. pool' = [pool EXCEPT ![k] = [pool[k] EXCEPT !.state = "busy"]]
      BY <2>1
    <3>2. [pool[k] EXCEPT !.state = "busy"] \in
            [state : {"busy"}, broken : BOOLEAN, company : {NoCompany}, role : {FALSE}]
      BY <1>1, <1>5 DEF Clean
    <3> QED BY <3>1, <3>2
  <2>2. CASE pool' = [pool EXCEPT ![k] = Fresh]
    <3>1. Fresh \in [state : {"busy"}, broken : BOOLEAN, company : {NoCompany}, role : {FALSE}]
      BY DEF Fresh, Closed
    <3> QED BY <2>2, <3>1
  <2> QED BY <2>1, <2>2 DEF Reserve
<1>7. pool'[k] = x /\ \A q \in Conns : q # k => pool'[q] = pool[q]
  BY <1>0, <1>6, OneConn
<1>8. x.state = "busy" /\ x.company = NoCompany /\ ~x.role
  OBVIOUS
<1>9. actor[a].pc = "reserve" /\ actor[a].conn = NoConn /\ ~Holding(a) /\ faults' = faults
  BY <1>0 DEF Reserve, ActorShape, Holding
<1>10. /\ p.pc \in {"company", "query"} /\ (a \in Requests <=> p.pc = "company")
       /\ (a \in Jobs => a \notin Requests)
  BY <1>2, PoolConstants
<1> HIDE DEF p
<1>11. Holding(a)' /\ \A b \in Actors : b # a => (Holding(b)' <=> Holding(b))
  BY <1>4, <1>10 DEF Holding
<1>12. PoolTypeOK'
  <2>1. x \in [state : {"closed", "idle", "busy"}, broken : BOOLEAN,
               company : Companies \cup {NoCompany}, role : BOOLEAN]
    OBVIOUS
  <2> QED BY <1>0, <1>2, <1>3, <1>6, <1>9, <2>1 DEF PoolTypeOK
<1>13. ActorShape'
  <2>1. SUFFICES ASSUME NEW b \in Actors
        PROVE  /\ b \in Requests => actor'[b].pc # "query"
               /\ b \in Jobs => actor'[b].pc \in {"idle", "reserve", "query", "notify"}
               /\ actor'[b].conn # NoConn <=> Holding(b)'
               /\ Holding(b)' => actor'[b].conn \in Conns
               /\ actor'[b].pc # "idle" /\ (b \in Requests \/ actor'[b].pc = "notify")
                    => actor'[b].company \in Companies
    BY DEF ActorShape
  <2>2. CASE b = a
    <3>1. a \in Requests => actor[a].company \in Companies
      BY <1>0, <1>9 DEF ActorShape
    <3> QED BY <2>2, <3>1, <1>2, <1>4, <1>10, <1>11, PoolConstants
  <2>3. CASE b # a
    BY <2>3, <1>0, <1>4, <1>11 DEF ActorShape
  <2> QED BY <2>2, <2>3
<1>14. \A b \in Actors : b # a => actor[b].conn # k
  BY <1>0, <1>5 DEF ConnectionsAccounted, Holds
<1>15. Session'
  <2>1. SUFFICES ASSUME NEW b \in Actors, Holding(b)'
        PROVE  LET q == actor'[b].conn IN
               /\ actor'[b].pc \in {"company", "query"} => pool'[q].company = NoCompany /\ ~pool'[q].role
               /\ actor'[b].pc \in {"role", "clear"} => pool'[q].company = actor'[b].company /\ ~pool'[q].role
               /\ actor'[b].pc \in {"serve", "notify", "reset"} =>
                    pool'[q].company = actor'[b].company /\ pool'[q].role = RoleEnabled
               /\ actor'[b].pc = "role" => RoleEnabled = TRUE
    BY DEF Session, Clean
  <2>2. CASE b = a
    BY <2>2, <1>2, <1>4, <1>7, <1>8, <1>10
  <2>3. CASE b # a
    <3>1. actor'[b] = actor[b] /\ Holding(b) /\ actor[b].conn # k /\ actor[b].conn \in Conns
      BY <2>1, <2>3, <1>0, <1>4, <1>11, <1>14 DEF ActorShape
    <3>2. pool'[actor[b].conn] = pool[actor[b].conn]
      BY <3>1, <1>7
    <3> QED BY <3>1, <3>2, <1>0 DEF Session, Clean
  <2> QED BY <2>2, <2>3
<1>16. RestingIsClean'
  BY <1>0, <1>7, <1>8 DEF RestingIsClean, Clean
<1>17. ConnectionsAccounted'
  <2>1. ASSUME NEW q \in Conns, pool'[q].state = "busy" PROVE \E b \in Actors : Holds(b, q)'
    <3>1. CASE q = k
      BY <3>1, <1>2, <1>4 DEF Holds
    <3>2. CASE q # k
      <4>1. PICK b \in Actors : actor[b].conn = q
        BY <2>1, <3>2, <1>0, <1>7 DEF ConnectionsAccounted, Holds
      <4>2. b # a
        BY <4>1, <1>9, PoolConstants
      <4> QED BY <4>1, <4>2, <1>4 DEF Holds
    <3> QED BY <3>1, <3>2
  <2>2. ASSUME NEW b \in Actors, NEW q \in Conns, Holds(b, q)'
        PROVE  pool'[q].state = "busy" /\ \A d \in Actors : Holds(d, q)' => b = d
    <3>1. CASE q = k
      <4>1. \A d \in Actors : Holds(d, k)' => d = a
        BY <1>4, <1>14 DEF Holds
      <4> QED BY <2>2, <3>1, <4>1, <1>7, <1>8
    <3>2. CASE q # k
      <4>1. \A d \in Actors : Holds(d, q)' => Holds(d, q)
        BY <3>2, <1>2, <1>4 DEF Holds
      <4> QED BY <2>2, <3>2, <4>1, <1>0, <1>7 DEF ConnectionsAccounted
    <3> QED BY <3>1, <3>2
  <2> QED BY <2>1, <2>2 DEF ConnectionsAccounted
<1> QED BY <1>12, <1>13, <1>15, <1>16, <1>17 DEF PoolInv

\* The pool closes an idle connection, or a connection breaks.
LEMMA PoolAlone ==
  ASSUME PoolInv, NEW k \in Conns, Break(k) \/ Expire(k)
  PROVE  PoolInv'
<1>0. PoolTypeOK /\ ActorShape /\ Session /\ RestingIsClean /\ ConnectionsAccounted
  BY DEF PoolInv
<1>1. pool[k] \in [state : {"closed", "idle", "busy"}, broken : BOOLEAN,
                   company : Companies \cup {NoCompany}, role : BOOLEAN]
  BY <1>0 DEF PoolTypeOK
<1>2. actor' = actor /\ faults' \in 0 .. MaxFaults
  BY <1>0, PoolConstants DEF Break, Expire, Fault, PoolTypeOK
<1>3. CASE Break(k)
  <2>1. pool' = [pool EXCEPT ![k] = [pool[k] EXCEPT !.broken = TRUE]]
    BY <1>3 DEF Break
  <2>2. [pool[k] EXCEPT !.broken = TRUE] \in
          [state : {"closed", "idle", "busy"}, broken : BOOLEAN,
           company : Companies \cup {NoCompany}, role : BOOLEAN]
    BY <1>1
  <2>3. \A q \in Conns : /\ pool'[q].state = pool[q].state
                         /\ pool'[q].company = pool[q].company
                         /\ pool'[q].role = pool[q].role
    BY <2>1, <1>0, <1>1 DEF PoolTypeOK
  <2>4. PoolTypeOK'
    BY <2>1, <2>2, <1>0, <1>2 DEF PoolTypeOK
  <2>5. ActorShape'
    BY <1>0, <1>2 DEF ActorShape, Holding
  <2>6. Session'
    BY <1>0, <1>2, <2>3 DEF Session, Clean, Holding, ActorShape
  <2>7. RestingIsClean' /\ ConnectionsAccounted'
    BY <1>0, <1>2, <2>3 DEF RestingIsClean, Clean, ConnectionsAccounted, Holds
  <2> QED BY <2>4, <2>5, <2>6, <2>7 DEF PoolInv
<1>4. CASE Expire(k)
  <2>1. pool' = [pool EXCEPT ![k] = Closed] /\ pool[k].state = "idle"
    BY <1>4 DEF Expire
  <2>2. pool'[k] = Closed /\ \A q \in Conns : q # k => pool'[q] = pool[q]
    BY <2>1, <1>0, OneConn
  <2>3. Closed.state = "closed" /\ Closed.company = NoCompany /\ ~Closed.role
    BY DEF Closed
  <2>4. PoolTypeOK'
    BY <2>1, <1>0, <1>2 DEF PoolTypeOK, Closed
  <2>5. ActorShape'
    BY <1>0, <1>2 DEF ActorShape, Holding
  <2>6. \A a \in Actors : actor[a].conn # k
    BY <1>0, <2>1 DEF ConnectionsAccounted, Holds
  <2>7. Session'
    BY <1>0, <1>2, <2>2, <2>6 DEF Session, Clean, Holding, ActorShape
  <2>8. RestingIsClean' /\ ConnectionsAccounted'
    BY <1>0, <1>2, <2>2, <2>3, <2>6 DEF RestingIsClean, Clean, ConnectionsAccounted, Holds
  <2> QED BY <2>4, <2>5, <2>7, <2>8 DEF PoolInv
<1> QED BY <1>3, <1>4

LEMMA RequestSteps ==
  ASSUME PoolInv, NEW r \in Requests, RequestStep(r)
  PROVE  PoolInv'
<1> DEFINE k == actor[r].conn
<1>0. PoolTypeOK /\ ActorShape /\ Session /\ RestingIsClean /\ ConnectionsAccounted /\ r \in Actors
  BY DEF PoolInv, Actors
<1>1. actor[r] \in [pc : PCs, company : Companies \cup {NoCompany}, conn : Conns \cup {NoConn}]
  BY <1>0 DEF PoolTypeOK
<1>2. Holding(r) /\ k \in Conns
  BY <1>0 DEF RequestStep, SetCompany, SetRole, BindFails, Serve, ResetRole, ClearCompany,
              ReleaseFails, Holding, ActorShape
<1>3. pool[k] \in [state : {"busy"}, broken : BOOLEAN,
                   company : Companies \cup {NoCompany}, role : BOOLEAN]
  BY <1>0, <1>2 DEF PoolTypeOK, ConnectionsAccounted, Holds
<1>4. faults' \in 0 .. MaxFaults
  BY <1>0, PoolConstants DEF PoolTypeOK, RequestStep, SetCompany, SetRole, BindFails, Serve, ResetRole,
              ClearCompany, ReleaseFails, Succeeds, Fails, Fault
<1>5. ASSUME BindFails(r) \/ ReleaseFails(r) PROVE PoolInv'
  <2>1. actor' = [actor EXCEPT ![r] = Resting] /\ pool' = [pool EXCEPT ![k] = Closed]
    BY <1>5 DEF BindFails, ReleaseFails, Discard
  <2>2. Resting \in [pc : {"idle", "notify"}, company : Companies \cup {NoCompany}, conn : {NoConn}]
        /\ Resting.pc = "idle"
    BY DEF Resting
  <2>3. Closed \in [state : {"closed", "idle"}, broken : BOOLEAN, company : {NoCompany}, role : {FALSE}]
    BY DEF Closed
  <2> QED BY <1>0, <1>2, <1>4, <2>1, <2>2, <2>3, LettingGo
<1>6. ASSUME ClearCompany(r) PROVE PoolInv'
  <2> DEFINE x == [pool[k] EXCEPT !.company = NoCompany, !.state = "idle"]
  <2>1. actor' = [actor EXCEPT ![r] = Resting] /\ pool' = [pool EXCEPT ![k] = x]
    BY <1>6 DEF ClearCompany
  <2>2. Resting \in [pc : {"idle", "notify"}, company : Companies \cup {NoCompany}, conn : {NoConn}]
        /\ Resting.pc = "idle"
    BY DEF Resting
  <2>3. pool[k].role = FALSE
    BY <1>0, <1>2, <1>3, <1>6 DEF Session, ClearCompany
  <2>4. x \in [state : {"closed", "idle"}, broken : BOOLEAN, company : {NoCompany}, role : {FALSE}]
    BY <1>3, <2>3
  <2> HIDE DEF x
  <2> QED BY <1>0, <1>2, <1>4, <2>1, <2>2, <2>4, LettingGo
<1>7. ASSUME NEW q \in {"role", "serve", "notify", "reset", "clear"}, Goto(r, q),
             NEW x \in [state : {"busy"}, broken : BOOLEAN,
                        company : Companies \cup {NoCompany}, role : BOOLEAN],
             pool' = [pool EXCEPT ![k] = x],
             Expected([actor[r] EXCEPT !.pc = q], x)
      PROVE  PoolInv'
  <2> DEFINE p == [actor[r] EXCEPT !.pc = q]
  <2>1. actor' = [actor EXCEPT ![r] = p]
    BY <1>7 DEF Goto
  <2>2. p \in [pc : {"role", "serve", "notify", "reset", "clear"},
               company : {actor[r].company}, conn : {actor[r].conn}]
    BY <1>1
  <2>3. Expected(p, x)
    BY <1>7
  <2> HIDE DEF p
  <2> QED BY <1>2, <1>4, <1>7, <2>1, <2>2, <2>3, MovingOn
<1>8. \A q : [actor[r] EXCEPT !.pc = q].company = actor[r].company
             /\ [actor[r] EXCEPT !.pc = q].pc = q
  BY <1>1
<1>9. ASSUME SetCompany(r) PROVE PoolInv'
  <2> DEFINE x == [pool[k] EXCEPT !.company = actor[r].company]
             q == IF RoleEnabled THEN "role" ELSE "serve"
  <2>1. pool' = [pool EXCEPT ![k] = x] /\ Goto(r, q)
    BY <1>9 DEF SetCompany
  <2>2. x \in [state : {"busy"}, broken : BOOLEAN, company : Companies \cup {NoCompany}, role : BOOLEAN]
        /\ x.company = actor[r].company /\ x.role = pool[k].role
    BY <1>1, <1>3
  <2>3. ~pool[k].role /\ pool[k].role \in BOOLEAN
    BY <1>0, <1>2, <1>3, <1>9 DEF Session, SetCompany, Clean
  <2>4. /\ q \in {"role", "serve", "notify", "reset", "clear"}
        /\ (q = "role" /\ RoleEnabled = TRUE) \/ (q = "serve" /\ RoleEnabled = FALSE)
    BY PoolConstants
  <2> HIDE DEF x, q
  <2>5. Expected([actor[r] EXCEPT !.pc = q], x)
    BY <1>8, <2>2, <2>3, <2>4 DEF Expected
  <2> QED BY <1>7, <2>1, <2>2, <2>4, <2>5
<1>10. ASSUME SetRole(r) PROVE PoolInv'
  <2> DEFINE x == [pool[k] EXCEPT !.role = TRUE]
  <2>1. pool' = [pool EXCEPT ![k] = x] /\ Goto(r, "serve")
    BY <1>10 DEF SetRole
  <2>2. x \in [state : {"busy"}, broken : BOOLEAN, company : Companies \cup {NoCompany}, role : BOOLEAN]
        /\ x.company = pool[k].company /\ x.role = TRUE
    BY <1>3
  <2>3. pool[k].company = actor[r].company
    BY <1>0, <1>2, <1>10 DEF Session, SetRole
  <2>4. RoleEnabled = TRUE
    BY <1>0, <1>2, <1>10 DEF SetRole, Session
  <2> HIDE DEF x
  <2>5. Expected([actor[r] EXCEPT !.pc = "serve"], x)
    BY <1>8, <2>2, <2>3, <2>4 DEF Expected
  <2> QED BY <1>7, <2>1, <2>2, <2>5
<1>11. ASSUME Serve(r) PROVE PoolInv'
  <2>1. PICK q \in {"notify", "reset"} : Goto(r, q)
    BY <1>11 DEF Serve
  <2>2. pool' = [pool EXCEPT ![k] = pool[k]]
    BY <1>0, <1>11 DEF Serve, PoolTypeOK
  <2>3. pool[k].company = actor[r].company /\ pool[k].role = RoleEnabled
    BY <1>0, <1>2, <1>11 DEF Session, Serve
  <2>4. Expected([actor[r] EXCEPT !.pc = q], pool[k])
    BY <1>8, <2>3 DEF Expected
  <2> QED BY <1>3, <1>7, <2>1, <2>2, <2>4
<1>12. ASSUME ResetRole(r) PROVE PoolInv'
  <2> DEFINE x == [pool[k] EXCEPT !.role = FALSE]
  <2>1. pool' = [pool EXCEPT ![k] = x] /\ Goto(r, "clear")
    BY <1>12 DEF ResetRole
  <2>2. x \in [state : {"busy"}, broken : BOOLEAN, company : Companies \cup {NoCompany}, role : BOOLEAN]
        /\ x.company = pool[k].company /\ ~x.role
    BY <1>3
  <2>3. pool[k].company = actor[r].company
    BY <1>0, <1>2, <1>12 DEF Session, ResetRole
  <2> HIDE DEF x
  <2>4. Expected([actor[r] EXCEPT !.pc = "clear"], x)
    BY <1>8, <2>2, <2>3 DEF Expected
  <2> QED BY <1>7, <2>1, <2>2, <2>4
<1> QED BY <1>5, <1>6, <1>9, <1>10, <1>11, <1>12 DEF RequestStep

LEMMA JobSteps ==
  ASSUME PoolInv, NEW j \in Jobs, JobStep(j)
  PROVE  PoolInv'
<1> DEFINE k == actor[j].conn
<1>0. PoolTypeOK /\ ActorShape /\ Session /\ RestingIsClean /\ ConnectionsAccounted /\ j \in Actors
  BY DEF PoolInv, Actors
<1>1. Holding(j) /\ k \in Conns /\ actor[j].pc = "query"
  BY <1>0 DEF JobStep, Query, QueryFails, Holding, ActorShape
<1>2. pool[k] \in [state : {"busy"}, broken : BOOLEAN,
                   company : Companies \cup {NoCompany}, role : BOOLEAN]
  BY <1>0, <1>1 DEF PoolTypeOK, ConnectionsAccounted, Holds
<1>3. pool[k].company = NoCompany /\ pool[k].role = FALSE
  BY <1>0, <1>1, <1>2 DEF Session, Clean
<1>4. faults' \in 0 .. MaxFaults
  BY <1>0, PoolConstants DEF PoolTypeOK, JobStep, Query, QueryFails, Succeeds, Fails, Fault
<1>5. Resting \in [pc : {"idle", "notify"}, company : Companies \cup {NoCompany}, conn : {NoConn}]
      /\ Resting.pc = "idle"
  BY DEF Resting
<1>6. CASE Query(j)
  <2> DEFINE x == [pool[k] EXCEPT !.state = "idle"]
  <2>1. pool' = [pool EXCEPT ![k] = x]
    BY <1>6 DEF Query
  <2>2. x \in [state : {"closed", "idle"}, broken : BOOLEAN, company : {NoCompany}, role : {FALSE}]
    BY <1>2, <1>3
  <2> HIDE DEF x
  <2>3. CASE actor' = [actor EXCEPT ![j] = Resting]
    BY <1>0, <1>1, <1>4, <1>5, <2>1, <2>2, <2>3, LettingGo
  <2>4. ASSUME NEW c \in Companies,
               actor' = [actor EXCEPT ![j] = [pc |-> "notify", company |-> c, conn |-> NoConn]]
        PROVE  PoolInv'
    <3> DEFINE p == [pc |-> "notify", company |-> c, conn |-> NoConn]
    <3>1. p \in [pc : {"idle", "notify"}, company : Companies \cup {NoCompany}, conn : {NoConn}]
          /\ p.company \in Companies /\ actor' = [actor EXCEPT ![j] = p]
      BY <2>4
    <3> HIDE DEF p
    <3> QED BY <1>0, <1>1, <1>4, <2>1, <2>2, <3>1, LettingGo
  <2> QED BY <1>6, <2>3, <2>4 DEF Query
<1>7. CASE QueryFails(j)
  <2>1. actor' = [actor EXCEPT ![j] = Resting] /\ pool' = [pool EXCEPT ![k] = Closed]
    BY <1>7 DEF QueryFails, Discard
  <2>2. Closed \in [state : {"closed", "idle"}, broken : BOOLEAN, company : {NoCompany}, role : {FALSE}]
    BY DEF Closed
  <2> QED BY <1>0, <1>1, <1>4, <1>5, <2>1, <2>2, LettingGo
<1> QED BY <1>6, <1>7 DEF JobStep

\* The steps of an actor that has no connection, and the end of a publication.
LEMMA Arrivals ==
  ASSUME PoolInv, NEW a \in Actors,
         \/ a \in Requests /\ \E c \in Companies : Arrive(a, c)
         \/ a \in Jobs /\ StartJob(a)
         \/ ReserveFails(a)
  PROVE  PoolInv'
<1>0. PoolTypeOK /\ ActorShape
  BY DEF PoolInv
<1>1. actor[a] \in [pc : PCs, company : Companies \cup {NoCompany}, conn : Conns \cup {NoConn}]
  BY <1>0 DEF PoolTypeOK
<1>2. ~Holding(a) /\ actor[a].conn = NoConn /\ UNCHANGED pool
  BY <1>0 DEF Arrive, StartJob, ReserveFails, Holding, ActorShape
<1>3. faults' \in 0 .. MaxFaults
  BY <1>0, PoolConstants DEF PoolTypeOK, Arrive, StartJob, ReserveFails, Fault
<1>4. ASSUME NEW c \in Companies, Arrive(a, c) PROVE PoolInv'
  <2> DEFINE p == [actor[a] EXCEPT !.pc = "reserve", !.company = c]
  <2>1. actor' = [actor EXCEPT ![a] = p]
    BY <1>4 DEF Arrive
  <2>2. p \in [pc : {"idle", "reserve"}, company : Companies \cup {NoCompany}, conn : {NoConn}]
        /\ p.company \in Companies
    BY <1>1, <1>2
  <2> HIDE DEF p
  <2> QED BY <1>2, <1>3, <2>1, <2>2, EmptyHanded
<1>5. ASSUME a \in Jobs, StartJob(a) PROVE PoolInv'
  <2> DEFINE p == [actor[a] EXCEPT !.pc = "reserve"]
  <2>1. actor' = [actor EXCEPT ![a] = p]
    BY <1>5 DEF StartJob, Goto
  <2>2. p \in [pc : {"idle", "reserve"}, company : Companies \cup {NoCompany}, conn : {NoConn}]
    BY <1>1, <1>2
  <2>3. a \notin Requests
    BY <1>5, PoolConstants
  <2> HIDE DEF p
  <2> QED BY <1>2, <1>3, <2>1, <2>2, <2>3, EmptyHanded
<1>6. ASSUME ReserveFails(a) PROVE PoolInv'
  <2>1. actor' = [actor EXCEPT ![a] = Resting]
    BY <1>6 DEF ReserveFails
  <2>2. Resting \in [pc : {"idle", "reserve"}, company : Companies \cup {NoCompany}, conn : {NoConn}]
        /\ Resting.pc = "idle"
    BY DEF Resting
  <2> QED BY <1>2, <1>3, <2>1, <2>2, EmptyHanded
<1> QED BY <1>4, <1>5, <1>6

LEMMA Publication ==
  ASSUME PoolInv, NEW a \in Actors, Notified(a)
  PROVE  PoolInv'
<1> DEFINE k == actor[a].conn
<1>0. PoolTypeOK /\ ActorShape /\ Session /\ RestingIsClean /\ ConnectionsAccounted
  BY DEF PoolInv
<1>1. actor[a] \in [pc : PCs, company : Companies \cup {NoCompany}, conn : Conns \cup {NoConn}]
  BY <1>0 DEF PoolTypeOK
<1>2. actor[a].pc = "notify" /\ pool' = pool /\ faults' \in 0 .. MaxFaults
  BY <1>0 DEF Notified, PoolTypeOK
<1>3. CASE a \in Requests
  <2> DEFINE p == [actor[a] EXCEPT !.pc = "reset"]
  <2>1. actor' = [actor EXCEPT ![a] = p]
    BY <1>3 DEF Notified
  <2>2. Holding(a) /\ k \in Conns
    BY <1>0, <1>2, <1>3 DEF Holding, ActorShape
  <2>3. pool[k] \in [state : {"busy"}, broken : BOOLEAN,
                     company : Companies \cup {NoCompany}, role : BOOLEAN]
    BY <1>0, <2>2 DEF PoolTypeOK, ConnectionsAccounted, Holds
  <2>4. pool' = [pool EXCEPT ![k] = pool[k]]
    BY <1>0, <1>2 DEF PoolTypeOK
  <2>5. p \in [pc : {"role", "serve", "notify", "reset", "clear"},
               company : {actor[a].company}, conn : {actor[a].conn}]
        /\ p.pc = "reset" /\ p.company = actor[a].company
    BY <1>1
  <2>6. pool[k].company = actor[a].company /\ pool[k].role = RoleEnabled
    BY <1>0, <1>2, <2>2 DEF Session
  <2> HIDE DEF p
  <2>7. Expected(p, pool[k])
    BY <2>5, <2>6 DEF Expected
  <2> QED BY <1>2, <1>3, <2>1, <2>2, <2>3, <2>4, <2>5, <2>7, MovingOn
<1>4. CASE a \notin Requests
  <2>1. actor' = [actor EXCEPT ![a] = Resting]
    BY <1>4 DEF Notified
  <2>2. Resting \in [pc : {"idle", "reserve"}, company : Companies \cup {NoCompany}, conn : {NoConn}]
        /\ Resting.pc = "idle"
    BY DEF Resting
  <2>3. ~Holding(a)
    BY <1>2, <1>4 DEF Holding
  <2> QED BY <1>2, <2>1, <2>2, <2>3, EmptyHanded
<1> QED BY <1>3, <1>4

LEMMA PoolStep == PoolInv /\ [PoolNext]_poolVars => PoolInv'
<1> SUFFICES ASSUME PoolInv, [PoolNext]_poolVars PROVE PoolInv'
  OBVIOUS
<1>1. ASSUME UNCHANGED <<pool, actor>>, faults' \in 0 .. MaxFaults PROVE PoolInv'
  BY <1>1 DEF PoolInv, PoolTypeOK, ActorShape, Session, RestingIsClean, ConnectionsAccounted,
              Holding, Holds, Clean
<1>2. faults \in 0 .. MaxFaults
  BY DEF PoolInv, PoolTypeOK
<1>3. CASE UNCHANGED poolVars
  BY <1>1, <1>2, <1>3 DEF poolVars
<1>4. CASE UNCHANGED <<pool, actor>> /\ Fault
  BY <1>1, <1>2, <1>4, PoolConstants DEF Fault
<1>5. Requests \subseteq Actors /\ Jobs \subseteq Actors
  BY DEF Actors
<1> QED BY <1>3, <1>4, <1>5, Arrivals, Taking, Publication, RequestSteps, JobSteps, PoolAlone DEF PoolNext

---------------------------------------------------------------------------
(* The hub *)

\* The maps name live handlers under their company, every handler that reads
\* from a working socket is in its room, and what the hub still has to write
\* is only there while it writes.
RoomsAreLive ==
  /\ \A c \in Companies : \A s \in rooms[c] :
       s \in clients /\ handler[s].company = c
  /\ \A s \in clients : handler[s].pc \in {"reading", "leaving"}
  /\ \A s \in Sockets : handler[s].pc # "away" => handler[s].company \in Companies
  /\ \A s \in Sockets : handler[s].pc = "reading" /\ sock[s] = "open" => s \in rooms[handler[s].company]
  /\ \A s \in Sockets : handler[s].pc = "register" => owed[s] = 0

SnapshotIsCurrent ==
  /\ hub.pc = "select" => hub.todo = {} /\ hub.failed = {}
  /\ \A s \in hub.failed : sock[s] = "broken"

HubInv == HubTypeOK /\ RoomsAreLive /\ SnapshotIsCurrent /\ WritesStayInCompany /\ LiveClientsMissNothing

HubNext ==
  \/ \E c \in Companies : Broadcast(c)
  \/ \E s \in Sockets : \/ \E c \in Companies : Connect(s, c)
                       \/ GoneAway(s) \/ ReadFails(s) \/ Register(s) \/ Unregister(s) \/ Write(s)
  \/ Dequeue \/ DropFailed
  \/ queue # <<>> /\ queue' = Tail(queue) /\ UNCHANGED <<hub, clients, rooms, handler, sock, owed>>

LEMMA HubInitially == HubInit => HubInv
<1> SUFFICES ASSUME HubInit PROVE HubInv
  OBVIOUS
<1>1. HubTypeOK
  BY HubConstants DEF HubInit, HubTypeOK, Selecting, Away
<1>2. \A s \in Sockets : handler[s].pc = "away" /\ owed[s] = 0
  BY DEF HubInit, Away
<1>3. hub.todo = {} /\ hub.failed = {} /\ clients = {} /\ \A c \in Companies : rooms[c] = {}
  BY DEF HubInit, Selecting
<1>4. RoomsAreLive /\ SnapshotIsCurrent
  BY <1>2, <1>3 DEF RoomsAreLive, SnapshotIsCurrent
<1>5. WritesStayInCompany /\ LiveClientsMissNothing
  BY <1>2, <1>3 DEF WritesStayInCompany, LiveClientsMissNothing
<1> QED BY <1>1, <1>4, <1>5 DEF HubInv

LEMMA HubTypeStep == HubTypeOK /\ HubNext => HubTypeOK'
<1> SUFFICES ASSUME HubTypeOK, HubNext PROVE HubTypeOK'
  OBVIOUS
<1> USE HubConstants, TenantsAssumption
<1>0. \A s \in Sockets : handler[s] \in [pc : {"away", "register", "reading", "leaving"},
                                        company : Companies \cup {NoCompany}]
  BY DEF HubTypeOK
<1>1. ASSUME NEW c \in Companies, Broadcast(c) PROVE HubTypeOK'
  BY <1>1 DEF HubTypeOK, Broadcast
<1>2. ASSUME NEW s \in Sockets, NEW c \in Companies, Connect(s, c) PROVE HubTypeOK'
  BY <1>2 DEF HubTypeOK, Connect
<1>3. ASSUME NEW s \in Sockets, GoneAway(s) PROVE HubTypeOK'
  BY <1>3 DEF HubTypeOK, GoneAway
<1>4. ASSUME NEW s \in Sockets, ReadFails(s) PROVE HubTypeOK'
  BY <1>4 DEF HubTypeOK, ReadFails
<1>5. ASSUME NEW s \in Sockets, Register(s) PROVE HubTypeOK'
  BY <1>5 DEF HubTypeOK, Register
<1>6. ASSUME NEW s \in Sockets, Unregister(s) PROVE HubTypeOK'
  BY <1>6 DEF HubTypeOK, Unregister, Away
<1>7. ASSUME NEW s \in Sockets, Write(s) PROVE HubTypeOK'
  <2>1. hub' \in [pc : {"select", "write"}, event : Companies \cup {NoCompany},
                  todo : SUBSET Sockets, failed : SUBSET Sockets]
    BY <1>7 DEF HubTypeOK, Write
  <2>2. owed' \in [Sockets -> Nat]
    BY <1>7 DEF HubTypeOK, Write
  <2> QED BY <1>7, <2>1, <2>2 DEF HubTypeOK, Write
<1>8. ASSUME queue # <<>>, queue' = Tail(queue) PROVE queue' \in Seq(Companies) /\ Len(queue') <= QueueSize
  BY <1>8 DEF HubTypeOK
<1>9. ASSUME Dequeue PROVE HubTypeOK'
  <2>1. Head(queue) \in Companies
    BY <1>9 DEF HubTypeOK, Dequeue
  <2>2. hub' \in [pc : {"select", "write"}, event : Companies \cup {NoCompany},
                  todo : SUBSET Sockets, failed : SUBSET Sockets]
    BY <1>9, <2>1 DEF HubTypeOK, Dequeue
  <2>3. owed' \in [Sockets -> Nat]
    BY <1>9 DEF HubTypeOK, Dequeue
  <2> QED BY <1>8, <1>9, <2>2, <2>3 DEF HubTypeOK, Dequeue
<1>10. ASSUME DropFailed PROVE HubTypeOK'
  BY <1>10 DEF HubTypeOK, DropFailed, Selecting
<1>11. ASSUME queue # <<>>, queue' = Tail(queue), UNCHANGED <<hub, clients, rooms, handler, sock, owed>>
       PROVE HubTypeOK'
  BY <1>8, <1>11 DEF HubTypeOK
<1> QED BY <1>1, <1>2, <1>3, <1>4, <1>5, <1>6, <1>7, <1>9, <1>10, <1>11 DEF HubNext

LEMMA HubStep == HubInv /\ [HubNext]_hubVars => HubInv'
<1> SUFFICES ASSUME HubInv, [HubNext]_hubVars PROVE HubInv'
  OBVIOUS
<1> DEFINE Rest == RoomsAreLive /\ SnapshotIsCurrent /\ WritesStayInCompany /\ LiveClientsMissNothing
<1>0. HubTypeOK /\ RoomsAreLive /\ SnapshotIsCurrent /\ WritesStayInCompany /\ LiveClientsMissNothing
  BY DEF HubInv
<1>1. ASSUME NEW c \in Companies, Broadcast(c) PROVE Rest'
  <2>1. RoomsAreLive'
    BY <1>0, <1>1 DEF HubTypeOK, RoomsAreLive, Broadcast
  <2>2. SnapshotIsCurrent'
    BY <1>0, <1>1 DEF HubTypeOK, SnapshotIsCurrent, Broadcast
  <2>3. WritesStayInCompany'
    BY <1>0, <1>1 DEF HubTypeOK, RoomsAreLive, SnapshotIsCurrent, WritesStayInCompany, Broadcast
  <2>4. LiveClientsMissNothing'
    BY <1>0, <1>1 DEF HubTypeOK, RoomsAreLive, SnapshotIsCurrent, WritesStayInCompany, LiveClientsMissNothing, Broadcast
  <2> QED BY <2>1, <2>2, <2>3, <2>4
<1>2. ASSUME NEW s \in Sockets, NEW c \in Companies, Connect(s, c) PROVE Rest'
  <2>1. RoomsAreLive'
    BY <1>0, <1>2 DEF HubTypeOK, RoomsAreLive, Connect
  <2>2. SnapshotIsCurrent'
    BY <1>0, <1>2 DEF HubTypeOK, SnapshotIsCurrent, WritesStayInCompany, Connect
  <2>3. WritesStayInCompany'
    BY <1>0, <1>2 DEF HubTypeOK, RoomsAreLive, SnapshotIsCurrent, WritesStayInCompany, Connect
  <2>4. LiveClientsMissNothing'
    BY <1>0, <1>2 DEF HubTypeOK, RoomsAreLive, SnapshotIsCurrent, WritesStayInCompany, LiveClientsMissNothing, Connect
  <2> QED BY <2>1, <2>2, <2>3, <2>4
<1>3. ASSUME NEW s \in Sockets, GoneAway(s) PROVE Rest'
  <2>1. RoomsAreLive'
    BY <1>0, <1>3 DEF HubTypeOK, RoomsAreLive, GoneAway
  <2>2. SnapshotIsCurrent'
    BY <1>0, <1>3 DEF HubTypeOK, SnapshotIsCurrent, GoneAway
  <2>3. WritesStayInCompany'
    BY <1>0, <1>3 DEF HubTypeOK, RoomsAreLive, SnapshotIsCurrent, WritesStayInCompany, GoneAway
  <2>4. LiveClientsMissNothing'
    BY <1>0, <1>3 DEF HubTypeOK, RoomsAreLive, SnapshotIsCurrent, WritesStayInCompany, LiveClientsMissNothing, GoneAway
  <2> QED BY <2>1, <2>2, <2>3, <2>4
<1>4. ASSUME NEW s \in Sockets, ReadFails(s) PROVE Rest'
  <2>1. RoomsAreLive'
    BY <1>0, <1>4 DEF HubTypeOK, RoomsAreLive, ReadFails
  <2>2. SnapshotIsCurrent'
    BY <1>0, <1>4 DEF HubTypeOK, SnapshotIsCurrent, ReadFails
  <2>3. WritesStayInCompany'
    BY <1>0, <1>4 DEF HubTypeOK, RoomsAreLive, SnapshotIsCurrent, WritesStayInCompany, ReadFails
  <2>4. LiveClientsMissNothing'
    BY <1>0, <1>4 DEF HubTypeOK, RoomsAreLive, SnapshotIsCurrent, WritesStayInCompany, LiveClientsMissNothing, ReadFails
  <2> QED BY <2>1, <2>2, <2>3, <2>4
<1>5. ASSUME NEW s \in Sockets, Register(s) PROVE Rest'
  <2>1. RoomsAreLive'
    BY <1>0, <1>5 DEF HubTypeOK, RoomsAreLive, Register
  <2>2. SnapshotIsCurrent'
    BY <1>0, <1>5 DEF HubTypeOK, SnapshotIsCurrent, Register
  <2>3. WritesStayInCompany'
    BY <1>0, <1>5 DEF HubTypeOK, RoomsAreLive, SnapshotIsCurrent, WritesStayInCompany, Register
  <2>4. LiveClientsMissNothing'
    BY <1>0, <1>5 DEF HubTypeOK, RoomsAreLive, SnapshotIsCurrent, WritesStayInCompany, LiveClientsMissNothing, Register
  <2> QED BY <2>1, <2>2, <2>3, <2>4
<1>6. ASSUME NEW s \in Sockets, Unregister(s) PROVE Rest'
  <2>1. RoomsAreLive'
    BY <1>0, <1>6 DEF HubTypeOK, RoomsAreLive, Unregister, Away
  <2>2. SnapshotIsCurrent'
    BY <1>0, <1>6 DEF HubTypeOK, SnapshotIsCurrent, Unregister, Away
  <2>3. WritesStayInCompany'
    BY <1>0, <1>6 DEF HubTypeOK, RoomsAreLive, SnapshotIsCurrent, WritesStayInCompany, Unregister, Away
  <2>4. LiveClientsMissNothing'
    BY <1>0, <1>6 DEF HubTypeOK, RoomsAreLive, SnapshotIsCurrent, WritesStayInCompany, LiveClientsMissNothing, Unregister, Away
  <2> QED BY <2>1, <2>2, <2>3, <2>4
<1>7. ASSUME NEW s \in Sockets, Write(s) PROVE Rest'
  <2>1. RoomsAreLive'
    BY <1>0, <1>7 DEF HubTypeOK, RoomsAreLive, Write
  <2>2. SnapshotIsCurrent'
    BY <1>0, <1>7 DEF HubTypeOK, SnapshotIsCurrent, Write
  <2>3. WritesStayInCompany'
    BY <1>0, <1>7 DEF HubTypeOK, RoomsAreLive, SnapshotIsCurrent, WritesStayInCompany, Write
  <2>4. LiveClientsMissNothing'
    BY <1>0, <1>7 DEF HubTypeOK, RoomsAreLive, SnapshotIsCurrent, WritesStayInCompany, LiveClientsMissNothing, Write
  <2> QED BY <2>1, <2>2, <2>3, <2>4
<1>8. ASSUME Dequeue PROVE Rest'
  <2>1. RoomsAreLive'
    BY <1>0, <1>8 DEF HubTypeOK, RoomsAreLive, Dequeue
  <2>2. SnapshotIsCurrent'
    BY <1>0, <1>8 DEF HubTypeOK, SnapshotIsCurrent, Dequeue
  <2>3. WritesStayInCompany'
    BY <1>0, <1>8 DEF HubTypeOK, RoomsAreLive, SnapshotIsCurrent, WritesStayInCompany, Dequeue
  <2>4. LiveClientsMissNothing'
    BY <1>0, <1>8 DEF HubTypeOK, RoomsAreLive, SnapshotIsCurrent, WritesStayInCompany, LiveClientsMissNothing, Dequeue
  <2> QED BY <2>1, <2>2, <2>3, <2>4
<1>9. ASSUME DropFailed PROVE Rest'
  <2>1. RoomsAreLive'
    BY <1>0, <1>9 DEF HubTypeOK, RoomsAreLive, DropFailed, Selecting
  <2>2. SnapshotIsCurrent'
    BY <1>0, <1>9 DEF HubTypeOK, SnapshotIsCurrent, DropFailed, Selecting
  <2>3. WritesStayInCompany'
    BY <1>0, <1>9 DEF HubTypeOK, RoomsAreLive, SnapshotIsCurrent, WritesStayInCompany, DropFailed, Selecting
  <2>4. LiveClientsMissNothing'
    BY <1>0, <1>9 DEF HubTypeOK, RoomsAreLive, SnapshotIsCurrent, WritesStayInCompany, LiveClientsMissNothing, DropFailed, Selecting
  <2> QED BY <2>1, <2>2, <2>3, <2>4
<1>10. ASSUME UNCHANGED <<hub, clients, rooms, handler, sock, owed>> PROVE Rest'
  <2>1. RoomsAreLive'
    BY <1>0, <1>10 DEF HubTypeOK, RoomsAreLive
  <2>2. SnapshotIsCurrent'
    BY <1>0, <1>10 DEF HubTypeOK, SnapshotIsCurrent
  <2>3. WritesStayInCompany'
    BY <1>0, <1>10 DEF HubTypeOK, RoomsAreLive, SnapshotIsCurrent, WritesStayInCompany
  <2>4. LiveClientsMissNothing'
    BY <1>0, <1>10 DEF HubTypeOK, RoomsAreLive, SnapshotIsCurrent, WritesStayInCompany, LiveClientsMissNothing
  <2> QED BY <2>1, <2>2, <2>3, <2>4
<1>11. CASE UNCHANGED hubVars
  BY <1>0, <1>11 DEF HubInv, HubTypeOK, RoomsAreLive, SnapshotIsCurrent, WritesStayInCompany,
                  LiveClientsMissNothing, hubVars
<1>12. CASE HubNext
  <2>1. HubTypeOK'
    BY <1>0, <1>12, HubTypeStep
  <2>2. Rest'
    <3> HIDE DEF Rest
    <3> QED BY <1>1, <1>2, <1>3, <1>4, <1>5, <1>6, <1>7, <1>8, <1>9, <1>10, <1>12 DEF HubNext
  <2> QED BY <2>1, <2>2 DEF HubInv
<1> QED BY <1>11, <1>12

---------------------------------------------------------------------------
(* The process *)

Inv == PoolInv /\ HubInv

LEMMA Initially == Init => Inv
  BY PoolInitially, HubInitially DEF Init, Inv

\* A step of the process is a step of the pool or leaves it alone, and a step
\* of the hub or leaves it alone.
LEMMA Halves == Inv /\ [Next]_vars => [PoolNext]_poolVars /\ [HubNext]_hubVars
<1> SUFFICES ASSUME Inv, [Next]_vars PROVE [PoolNext]_poolVars /\ [HubNext]_hubVars
  OBVIOUS
<1>1. ASSUME Begin PROVE [PoolNext]_poolVars /\ [HubNext]_hubVars
  BY <1>1 DEF Begin, PoolOnly, HubOnly, PoolNext, HubNext
<1>2. ASSUME NEW a \in Actors, ActorStep(a) PROVE [PoolNext]_poolVars /\ [HubNext]_hubVars
  <2>1. CASE GetConnection(a)
    BY <2>1 DEF GetConnection, PoolOnly, PoolNext
  <2>2. CASE OwnStep(a)
    BY <2>2 DEF OwnStep, PoolOnly, PoolNext, Actors
  <2>3. CASE Notify(a)
    <3>1. actor[a].company \in Companies
      BY <2>3 DEF Notify, Notified, Inv, PoolInv, ActorShape, Actors
    <3> QED BY <2>3, <3>1 DEF Notify, PoolNext, HubNext
  <2> QED BY <1>2, <2>1, <2>2, <2>3 DEF ActorStep
<1>3. ASSUME NEW s \in Sockets, HandlerStep(s) PROVE [PoolNext]_poolVars /\ [HubNext]_hubVars
  BY <1>3 DEF HandlerStep, HubOnly, HubNext
<1>4. ASSUME HubOnly(Dequeue) \/ HubOnly(HubWork) PROVE [PoolNext]_poolVars /\ [HubNext]_hubVars
  BY <1>4 DEF HubOnly, HubWork, HubNext
<1>5. ASSUME Trouble PROVE [PoolNext]_poolVars /\ [HubNext]_hubVars
  BY <1>5 DEF Trouble, PoolOnly, HubOnly, SkipEvent, PoolNext, HubNext
<1>6. CASE UNCHANGED vars
  BY <1>6 DEF vars
<1> QED BY <1>1, <1>2, <1>3, <1>4, <1>5, <1>6 DEF Next

LEMMA Inductive == Inv /\ [Next]_vars => Inv'
  BY Halves, PoolStep, HubStep DEF Inv

THEOREM Invariance == Spec => []Inv
<1> QED BY Initially, Inductive, PTL DEF Spec

\* However requests, goroutines, faults and browsers interleave, every variable
\* of the pool and of the hub keeps its type.
THEOREM ServerTypeCorrect == Spec => []TypeOK
<1>1. Inv => TypeOK
  BY DEF Inv, PoolInv, HubInv, TypeOK
<1> QED BY <1>1, Invariance, PTL

\* Tenant isolation at the database: no statement of a request runs outside its
\* company, and none of a webhook or goroutine inside one.
THEOREM TenantIsolation == Spec => []ScopedConnections
<1>1. Inv => ScopedConnections
  <2> SUFFICES ASSUME Inv PROVE ScopedConnections
    OBVIOUS
  <2>1. PoolTypeOK /\ ActorShape /\ Session
    BY DEF Inv, PoolInv
  <2>2. ASSUME NEW r \in Requests, actor[r].pc \in {"serve", "notify"}
        PROVE  /\ actor[r].conn # NoConn
               /\ pool[actor[r].conn].company = actor[r].company
               /\ pool[actor[r].conn].role = RoleEnabled
    BY <2>1, <2>2 DEF ActorShape, Session, Holding, Actors
  <2>3. ASSUME NEW j \in Jobs, actor[j].pc = "query"
        PROVE  /\ actor[j].conn # NoConn
               /\ pool[actor[j].conn].company = NoCompany
               /\ ~pool[actor[j].conn].role
    BY <2>1, <2>3 DEF ActorShape, Session, Holding, Clean, Actors
  <2> QED BY <2>2, <2>3 DEF ScopedConnections
<1> QED BY <1>1, Invariance, PTL

\* No connection is leaked by a failed step and none is shared.
THEOREM Accounting == Spec => []ConnectionsAccounted
<1>1. Inv => ConnectionsAccounted
  BY DEF Inv, PoolInv
<1> QED BY <1>1, Invariance, PTL

\* The hub never writes an event of one company to a browser of another, nor to
\* a socket whose handler has returned.
THEOREM HubIsolation == Spec => []WritesStayInCompany
<1>1. Inv => WritesStayInCompany
  BY DEF Inv, HubInv
<1> QED BY <1>1, Invariance, PTL

\* A browser with a working socket gets every event of its company.
THEOREM HubCompleteness == Spec => []LiveClientsMissNothing
<1>1. Inv => LiveClientsMissNothing
  BY DEF Inv, HubInv
<1> QED BY <1>1, Invariance, PTL
=============================================================================
