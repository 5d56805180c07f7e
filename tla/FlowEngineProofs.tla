-------------------------- MODULE FlowEngineProofs --------------------------
(***************************************************************************)
(* For any number of flows, conversations, goroutines, editors and faults, *)
(* and for flow definitions of any size: one bot per conversation, one     *)
(* runner per run, no resurrection, at most one node after the end.        *)
(***************************************************************************)
EXTENDS FlowEngine, FlowGraphProofs

HasDefinition == {"loop", "act", "save"}

(* What a goroutine knows at each of its statements.                       *)
GoroutineKnows(t) ==
  /\ thread[t].pc \in Entering => thread[t].conv \in Convs
  /\ thread[t].pc \in {"cancel", "insert"} =>
       /\ thread[t].flow \in Flows
       /\ thread[t].def \in FlowDefinition
       /\ StartNode(thread[t].def) # NoNode
  /\ IsRunner(t) => thread[t].exec \in Execs /\ thread[t].flow \in Flows
  /\ thread[t].pc \in HasDefinition =>
       /\ thread[t].def \in FlowDefinition
       /\ thread[t].node \in DOMAIN thread[t].def.nodes \cup {NoNode}
  /\ thread[t].pc \in {"act", "save"} =>
       thread[t].node # NoNode /\ thread[t].steps < MaxSteps

(* What the row of a run says about its flow and its late nodes.           *)
RowTells(x) ==
  /\ IsActive(x) => row[x].flow \in Flows
  /\ row[x].status = "absent" => row[x].flow = 0
  /\ IsActive(x) \/ row[x].status = "absent" => late[x] = 0

(* A node takes effect late only after a check that found the run alive.   *)
CheckedIsClean == \A t \in Threads : thread[t].pc = "act" => late[thread[t].exec] = 0

EditKnows(e) == edit[e].pc # "idle" => edit[e].flow \in Flows

Known ==
  /\ \A t \in Threads : GoroutineKnows(t)
  /\ \A e \in Editors : EditKnows(e)

Safe ==
  /\ \A x \in Execs : RowTells(x)
  /\ OneRunnerPerRun
  /\ OneBotPerConversation
  /\ CheckedIsClean
  /\ AtMostOneLateNode

IndInv ==
  /\ TypeOK
  /\ Known
  /\ Safe

-----------------------------------------------------------------------------
(* What the saved definition of a flow is good for.                        *)

LEMMA SavedIsADefinition ==
  ASSUME CatalogTypeOK, NEW f \in Flows, Stored(f)
  PROVE  Saved(f) \in FlowDefinition
<1>1. flow[f].def \in FlowDefinition
  BY CatalogAssumption DEF CatalogTypeOK
<1>2. QED
  BY <1>1, NormalizeKeepsShape DEF Saved

LEMMA ContinuationIsAPosition ==
  ASSUME NEW def \in FlowDefinition, NEW n \in DOMAIN def.nodes, NEW why
  PROVE  Continuation(def, n, why) \in DOMAIN def.nodes \cup {NoNode}
<1>1. \A handle : NextNode(def, n, handle) \in DOMAIN def.nodes \cup {NoNode}
  BY NextNodeFollowsAnEdge
<1>2. QED
  BY <1>1, Zenon DEF Continuation

LEMMA FollowingIsAPosition ==
  ASSUME NEW def \in FlowDefinition, NEW n \in DOMAIN def.nodes, NEW out
  PROVE  Following(def, n, out) \in DOMAIN def.nodes \cup {NoNode}
<1>1. \A handle : NextNode(def, n, handle) \in DOMAIN def.nodes \cup {NoNode}
  BY NextNodeFollowsAnEdge
<1>2. QED
  BY <1>1, Zenon DEF Following

LEMMA NodesHaveNames ==
  ASSUME NEW def \in FlowDefinition, NEW n \in DOMAIN def.nodes
  PROVE  n \in Nat /\ def.nodes[n].id \in Names
  BY PositionsAreNumbers DEF FlowNode

LEMMA MatchedFlowStarts ==
  ASSUME CatalogTypeOK, NEW ev
  PROVE  LET active == {f \in Flows : flow[f].status = "active"}
             best == BestFlow([f \in active |-> Saved(f)], ev)
         IN best # 0 => /\ best \in Flows
                        /\ Saved(best) \in FlowDefinition
                        /\ StartNode(Saved(best)) # NoNode
<1> DEFINE active == {f \in Flows : flow[f].status = "active"}
           defs == [f \in active |-> Saved(f)]
<1>1. active \in SUBSET (Nat \ {0})
  BY CatalogAssumption
<1>2. \A f \in active : Saved(f) \in FlowDefinition
  BY SavedIsADefinition DEF Stored, Requested
<1>3. defs \in [active -> FlowDefinition]
  BY <1>2
<1>4. /\ BestFlow(defs, ev) \in active \cup {0}
      /\ BestFlow(defs, ev) # 0 => StartNode(defs[BestFlow(defs, ev)]) # NoNode
  <2> HIDE DEF active, defs
  <2>1. QED
    BY <1>1, <1>3, BestFlowStarts
<1>5. QED
  BY <1>2, <1>4

-----------------------------------------------------------------------------
LEMMA KnownInit == Init => IndInv
<1> SUFFICES ASSUME Init PROVE IndInv
  OBVIOUS
<1>1. CatalogTypeOK
  BY CatalogAssumption DEF Init, CatalogInit, CatalogTypeOK, NoEdit, Edits, Stored, FlowStatus, Requested, Rows
<1>2. TypeOK
  <2>1. NoRow \in Row
    BY DEF NoRow, Row, ExecStatus
  <2>2. Idle \in Goroutine
    BY EngineAssumption DEF Idle, Goroutine, NoNode, Statements, Reasons, Outputs
  <2>3. QED
    BY <1>1, <2>1, <2>2, EngineAssumption DEF Init, TypeOK
<1>3. Known
  <2>1. \A t \in Threads : GoroutineKnows(t)
    BY DEF Init, GoroutineKnows, Idle, Entering, Running, HasDefinition, IsRunner
  <2>2. \A e \in Editors : EditKnows(e)
    BY DEF Init, CatalogInit, EditKnows, NoEdit
  <2>3. QED
    BY <2>1, <2>2 DEF Known
<1>4. /\ \A t \in Threads : thread[t].pc = "idle"
      /\ \A x \in Execs : row[x].status = "absent" /\ late[x] = 0
  BY DEF Init, Idle, NoRow
<1>5. OneRunnerPerRun /\ OneBotPerConversation
  BY <1>4 DEF OneRunnerPerRun, OneBotPerConversation, IsRunner, IsActive, Running, Active
<1>6. CheckedIsClean /\ AtMostOneLateNode
  BY <1>4 DEF CheckedIsClean, AtMostOneLateNode
<1>7. \A x \in Execs : RowTells(x)
  BY DEF Init, RowTells, NoRow, IsActive, Active
<1>8. QED
  BY <1>2, <1>3, <1>5, <1>6, <1>7 DEF IndInv, Safe

-----------------------------------------------------------------------------
(* Types of what the helpers write.                                        *)

RowsTyped == row \in [Execs -> Row] /\ faults \in 0..MaxFaults
ThreadsTyped == thread \in [Threads -> Goroutine]

LEMMA StatementType ==
  ASSUME faults \in 0..MaxFaults, NEW ok \in BOOLEAN, Statement(ok)
  PROVE  faults' \in 0..MaxFaults
  BY EngineAssumption DEF Statement

LEMMA SaveType ==
  ASSUME RowsTyped, NEW x, NEW at \in Names \cup {""}, NEW status \in ExecStatus,
         NEW armed \in BOOLEAN, Save(x, at, status, armed)
  PROVE  RowsTyped'
<1>1. faults' \in 0..MaxFaults
  BY StatementType DEF Save, RowsTyped
<1>2. \A y \in Execs : [row[y] EXCEPT !.status = status, !.node = at, !.armed = armed] \in Row
  BY DEF RowsTyped, Row
<1>3. row' \in [Execs -> Row]
  BY <1>2 DEF Save, RowsTyped
<1>4. QED
  BY <1>1, <1>3 DEF RowsTyped

LEMMA FailRawType ==
  ASSUME RowsTyped, NEW x, FailRaw(x)
  PROVE  RowsTyped'
<1>1. faults' \in 0..MaxFaults
  BY StatementType DEF FailRaw, RowsTyped
<1>2. \A y \in Execs : [row[y] EXCEPT !.status = "failed"] \in Row
  BY DEF RowsTyped, Row, ExecStatus, Ended
<1>3. row' \in [Execs -> Row]
  BY <1>2 DEF FailRaw, RowsTyped
<1>4. QED
  BY <1>1, <1>3 DEF RowsTyped

LEMMA CancelRunsType ==
  ASSUME RowsTyped, NEW X, CancelRuns(X)
  PROVE  row' \in [Execs -> Row]
<1>1. \A x \in Execs : [row[x] EXCEPT !.status = "cancelled", !.armed = FALSE] \in Row
  BY DEF RowsTyped, Row, ExecStatus, Ended
<1>2. \A x \in Execs : row[x] \in Row
  BY DEF RowsTyped
<1>3. QED
  BY <1>1, <1>2 DEF CancelRuns

LEMMA BecomeType ==
  ASSUME ThreadsTyped, NEW t, NEW r \in Goroutine, Become(t, r)
  PROVE  ThreadsTyped'
  BY DEF ThreadsTyped, Become

LEMMA GotoType ==
  ASSUME ThreadsTyped, NEW t \in Threads, NEW s \in Statements, Goto(t, s)
  PROVE  ThreadsTyped'
<1>1. ASSUME NEW g \in Goroutine
      PROVE  [g EXCEPT !.pc = s] \in Goroutine
  BY Zenon DEF Goroutine
<1>2. QED
  BY <1>1, BecomeType DEF ThreadsTyped, Goto

LEMMA IdleType == Idle \in Goroutine
  BY EngineAssumption DEF Idle, Goroutine, NoNode, Statements, Reasons, Outputs

LEMMA StatementNames ==
  /\ Entering \subseteq Statements /\ Running \subseteq Statements
  /\ {"claim", "busy", "owner", "match", "cancel", "insert"} \subseteq Statements
  /\ {"load", "loop", "act", "save", "idle"} \subseteq Statements
  /\ {"", "reply", "timeout", "delay"} \subseteq Reasons
  BY DEF Statements, Entering, Running, Reasons, Outputs, Waits

(* The catalog keeps its type, whoever edits it.                           *)
LEMMA CatalogTypeStep ==
  ASSUME CatalogTypeOK, \A e \in Editors : EditKnows(e),
         EditorStep \/ (\E e \in Editors : EndEdit(e)) \/ (\E f \in Flows : RemoveFlow(f))
  PROVE  CatalogTypeOK'
<1> USE DEF CatalogTypeOK, Rows, Edits, FlowStatus, Requested, Stored
<1>1. ASSUME NEW f \in Flows, NEW def \in Definitions, CreateFlow(f, def)
      PROVE  CatalogTypeOK'
  BY <1>1 DEF CreateFlow
<1>2. ASSUME NEW e \in Editors, NEW f \in Flows, NEW req \in Requests, ReadCurrent(e, f, req)
      PROVE  CatalogTypeOK'
  BY <1>2, CatalogAssumption DEF ReadCurrent
<1>3. ASSUME NEW e \in Editors, WriteFlow(e)
      PROVE  CatalogTypeOK'
  <2> DEFINE r == edit[e]
             new == [status |-> IF r.status = "" THEN flow[r.flow].status ELSE r.status,
                     def |-> IF r.def = NoDefinition THEN flow[r.flow].def ELSE r.def]
  <2>1. r.flow \in Flows /\ r \in Edits
    BY <1>3 DEF WriteFlow, EditKnows
  <2>2. NoEdit \in Edits /\ [r EXCEPT !.pc = "stop"] \in Edits
    BY <2>1 DEF NoEdit
  <2>3. edit' \in [Editors -> Edits]
    <3>1. edit' = [edit EXCEPT ![e] = NoEdit] \/ edit' = [edit EXCEPT ![e] = [r EXCEPT !.pc = "stop"]]
      BY <1>3 DEF WriteFlow
    <3>2. QED
      BY <2>2, <3>1
  <2>4. Stored(r.flow) => new \in Rows /\ new.def \in Definitions
    BY <2>1
  <2>5. CASE Stored(r.flow) /\ flow' = [flow EXCEPT ![r.flow] = new]
    BY <2>1, <2>3, <2>4, <2>5
  <2>6. CASE flow' = flow
    BY <2>3, <2>6
  <2>7. QED
    BY <1>3, <2>5, <2>6 DEF WriteFlow
<1>4. ASSUME NEW e \in Editors, EndEdit(e)
      PROVE  CatalogTypeOK'
  BY <1>4 DEF EndEdit, NoEdit
<1>5. ASSUME NEW f \in Flows, RemoveFlow(f)
      PROVE  CatalogTypeOK'
  <2>1. flow' = [flow EXCEPT ![f].status = "deleted"] /\ edit' = edit
    BY <1>5 DEF RemoveFlow
  <2>2. [flow[f] EXCEPT !.status = "deleted"] \in Rows
    OBVIOUS
  <2>3. \A g \in Flows : g # f => flow'[g] = flow[g]
    BY <2>1
  <2>4. QED
    BY <2>1, <2>2, <2>3
<1>6. QED
  BY <1>1, <1>2, <1>3, <1>4, <1>5 DEF EditorStep

(* Every goroutine keeps its type, one step at a time.                     *)

EnginesTyped == TypeOK /\ Known

LEMMA InboundType ==
  ASSUME EnginesTyped, NEW t \in Handlers, NEW c \in Convs, NEW m \in Texts, Inbound(t, c, m)
  PROVE  ThreadsTyped'
<1> DEFINE ev == [channel |-> m.channel, words |-> m.words, isNew |-> c \notin seen]
<1>1. ev \in Events
  BY DEF Events
<1>2. QuestionOpen(c) \in BOOLEAN
  BY DEF QuestionOpen
<1>3. "claim" \in Statements
  BY StatementNames
<1> HIDE DEF ev
<1>4. [Idle EXCEPT !.pc = "claim", !.conv = c, !.answers = QuestionOpen(c), !.ev = ev] \in Goroutine
  BY <1>1, <1>2, <1>3, IdleType, Zenon DEF Goroutine
<1>5. QED
  BY <1>4, BecomeType DEF Inbound, EnginesTyped, TypeOK, ThreadsTyped, ev

LEMMA WokenType ==
  ASSUME EnginesTyped, NEW x \in Execs, NEW why \in Reasons
  PROVE  [Idle EXCEPT !.pc = "load", !.exec = x, !.flow = row[x].flow, !.at = row[x].node,
                      !.out = why] \in Goroutine
<1>1. row[x].flow \in Flows \cup {0} /\ row[x].node \in Names \cup {""}
  BY DEF EnginesTyped, TypeOK, Row
<1>2. "load" \in Statements
  BY StatementNames
<1>3. QED
  BY <1>1, <1>2, IdleType, Zenon DEF Goroutine

LEMMA ClaimType ==
  ASSUME EnginesTyped, NEW t \in Threads, ClaimWaiting(t)
  PROVE  ThreadsTyped'
<1>1. ThreadsTyped
  BY DEF EnginesTyped, TypeOK, ThreadsTyped
<1>2. "busy" \in Statements /\ "reply" \in Reasons
  BY StatementNames
<1>3. CASE Goto(t, "busy")
  BY <1>1, <1>2, <1>3, GotoType
<1>4. CASE ~Goto(t, "busy")
  BY <1>1, <1>2, <1>4, WokenType, BecomeType DEF ClaimWaiting, RunsOf
<1>5. QED
  BY <1>3, <1>4

LEMMA ResumeDueType ==
  ASSUME EnginesTyped, NEW t \in Threads, NEW x \in Execs, ResumeDue(t, x)
  PROVE  ThreadsTyped'
<1> DEFINE why == IF row[x].status = "waiting_input" THEN "timeout" ELSE "delay"
<1>1. why \in Reasons
  BY StatementNames
<1> HIDE DEF why
<1>2. QED
  BY <1>1, WokenType, BecomeType DEF ResumeDue, EnginesTyped, TypeOK, ThreadsTyped, why

LEMMA ReadType ==
  ASSUME EnginesTyped, NEW t \in Threads, ReadBusy(t) \/ ReadOwner(t)
  PROVE  ThreadsTyped'
<1>1. ThreadsTyped
  BY DEF EnginesTyped, TypeOK, ThreadsTyped
<1>2. Become(t, Idle) \/ Goto(t, "owner") \/ Goto(t, "match")
  BY DEF ReadBusy, ReadOwner
<1>3. QED
  BY <1>1, <1>2, IdleType, StatementNames, BecomeType, GotoType

LEMMA MatchFlowType ==
  ASSUME EnginesTyped, NEW t \in Threads, MatchFlow(t)
  PROVE  ThreadsTyped'
<1> DEFINE active == {f \in Flows : flow[f].status = "active"}
           best == BestFlow([f \in active |-> Saved(f)], thread[t].ev)
<1>1. ThreadsTyped /\ CatalogTypeOK
  BY DEF EnginesTyped, TypeOK, ThreadsTyped
<1>2. best # 0 => best \in Flows /\ Saved(best) \in FlowDefinition
  BY <1>1, MatchedFlowStarts
<1> HIDE DEF best
<1>3. best # 0 => [thread[t] EXCEPT !.pc = "insert", !.flow = best, !.def = Saved(best)] \in Goroutine
  <2>1. thread[t] \in Goroutine /\ "insert" \in Statements
    BY <1>1, StatementNames DEF ThreadsTyped
  <2>2. QED
    BY <1>2, <2>1, Zenon DEF Goroutine
<1>4. \/ Become(t, Idle)
      \/ best # 0 /\ Become(t, [thread[t] EXCEPT !.pc = "insert", !.flow = best, !.def = Saved(best)])
  BY Zenon DEF MatchFlow, best
<1>5. QED
  BY <1>1, <1>3, <1>4, IdleType, BecomeType

LEMMA ExecuteFlowType ==
  ASSUME EnginesTyped, NEW t \in Handlers, NEW f \in Flows, NEW c \in Convs, ExecuteFlow(t, f, c)
  PROVE  ThreadsTyped'
<1>1. ThreadsTyped /\ CatalogTypeOK /\ Stored(f)
  BY DEF EnginesTyped, TypeOK, ThreadsTyped, ExecuteFlow
<1>2. Saved(f) \in FlowDefinition
  BY <1>1, SavedIsADefinition
<1>3. [Idle EXCEPT !.pc = "cancel", !.conv = c, !.flow = f, !.def = Saved(f)] \in Goroutine
  <2>1. "cancel" \in Statements
    BY StatementNames
  <2>2. QED
    BY <1>2, <2>1, IdleType, Zenon DEF Goroutine
<1>4. QED
  BY <1>1, <1>3, BecomeType DEF ExecuteFlow

LEMMA InsertRunType ==
  ASSUME EnginesTyped, NEW t \in Threads, InsertRun(t)
  PROVE  ThreadsTyped'
<1> DEFINE r == thread[t]
           start == StartNode(r.def)
<1>1. ThreadsTyped /\ r \in Goroutine
  BY DEF EnginesTyped, TypeOK, ThreadsTyped
<1>2. r.flow \in Flows /\ r.def \in FlowDefinition /\ start \in DOMAIN r.def.nodes
  BY StartNodeStarts DEF EnginesTyped, Known, GoroutineKnows, InsertRun
<1>3. start \in Nat /\ r.def.nodes[start].id \in Names
  BY <1>2, NodesHaveNames
<1>4. \/ Become(t, Idle)
      \/ \E x \in Execs : Become(t, [Idle EXCEPT !.pc = "loop", !.exec = x, !.flow = r.flow, !.def = r.def,
                                        !.node = start, !.at = r.def.nodes[start].id])
  BY Zenon DEF InsertRun
<1> HIDE DEF start, r
<1>5. ASSUME NEW x \in Execs
      PROVE  [Idle EXCEPT !.pc = "loop", !.exec = x, !.flow = r.flow, !.def = r.def,
                          !.node = start, !.at = r.def.nodes[start].id] \in Goroutine
  <2>1. "loop" \in Statements
    BY StatementNames
  <2>2. QED
    BY <1>2, <1>3, <2>1, IdleType, Zenon DEF Goroutine
<1>6. QED
  BY <1>1, <1>4, <1>5, IdleType, BecomeType

LEMMA LoadFlowType ==
  ASSUME EnginesTyped, NEW t \in Threads, LoadFlow(t)
  PROVE  ThreadsTyped'
<1> DEFINE r == thread[t]
           n == FindNode(Saved(r.flow), r.at)
           next == Continuation(Saved(r.flow), n, r.out)
<1>1. ThreadsTyped /\ r \in Goroutine /\ CatalogTypeOK
  BY DEF EnginesTyped, TypeOK, ThreadsTyped
<1>2. r.flow \in Flows
  BY DEF EnginesTyped, Known, GoroutineKnows, LoadFlow, IsRunner, Running
<1>3. ASSUME Stored(r.flow), n # NoNode
      PROVE  [r EXCEPT !.pc = "loop", !.def = Saved(r.flow), !.out = "", !.node = next] \in Goroutine
  <2>1. Saved(r.flow) \in FlowDefinition
    BY <1>1, <1>2, <1>3, SavedIsADefinition
  <2>2. n \in DOMAIN Saved(r.flow).nodes
    BY <1>3, <2>1, FindNodeFinds
  <2>3. next \in DOMAIN Saved(r.flow).nodes \cup {NoNode}
    BY <2>1, <2>2, ContinuationIsAPosition
  <2>4. next \in Nat
    BY <2>1, <2>3, NodesHaveNames DEF NoNode
  <2>5. "loop" \in Statements /\ "" \in Reasons
    BY StatementNames
  <2> HIDE DEF r, n, next
  <2>6. QED
    BY <1>1, <2>1, <2>4, <2>5, Zenon DEF Goroutine
<1>4. \/ Become(t, Idle)
      \/ /\ Stored(r.flow) /\ n # NoNode
         /\ Become(t, [r EXCEPT !.pc = "loop", !.def = Saved(r.flow), !.out = "", !.node = next])
  BY Zenon DEF LoadFlow
<1> HIDE DEF r, n, next
<1>5. QED
  BY <1>1, <1>3, <1>4, IdleType, BecomeType

LEMMA CheckCancelledType ==
  ASSUME EnginesTyped, NEW t \in Threads, CheckCancelled(t)
  PROVE  ThreadsTyped'
<1> DEFINE r == thread[t]
<1>1. ThreadsTyped /\ r \in Goroutine
  BY DEF EnginesTyped, TypeOK, ThreadsTyped
<1>2. r.def \in FlowDefinition /\ r.node \in DOMAIN r.def.nodes
  BY DEF EnginesTyped, Known, GoroutineKnows, CheckCancelled, HasDefinition
<1>3. NodeOf(t).id \in Names
  BY <1>2, NodesHaveNames DEF NodeOf
<1>4. [r EXCEPT !.pc = "act", !.at = NodeOf(t).id] \in Goroutine
  <2>1. "act" \in Statements
    BY StatementNames
  <2> HIDE DEF r
  <2>2. QED
    BY <1>1, <1>3, <2>1, Zenon DEF Goroutine
<1>5. Become(t, Idle) \/ Become(t, [r EXCEPT !.pc = "act", !.at = NodeOf(t).id])
  BY Zenon DEF CheckCancelled
<1>6. QED
  BY <1>1, <1>4, <1>5, IdleType, BecomeType

LEMMA RunNodeType ==
  ASSUME EnginesTyped, NEW t \in Threads, NEW out \in Outputs \cup Waits \cup {"fail"}, NEW u,
         RunNode(t, out, u)
  PROVE  ThreadsTyped'
<1>1. ThreadsTyped /\ thread[t] \in Goroutine
  BY DEF EnginesTyped, TypeOK, ThreadsTyped
<1>2. out \in Reasons
  BY DEF Reasons
<1>3. "save" \in Statements
  BY StatementNames
<1>4. [thread[t] EXCEPT !.pc = "save", !.out = out] \in Goroutine
  BY <1>1, <1>2, <1>3, Zenon DEF Goroutine
<1>5. QED
  BY <1>1, <1>4, BecomeType DEF RunNode

LEMMA AdvanceType ==
  ASSUME EnginesTyped, NEW t \in Threads, Advance(t)
  PROVE  ThreadsTyped'
<1> DEFINE r == thread[t]
           next == Following(r.def, r.node, r.out)
<1>1. ThreadsTyped /\ r \in Goroutine
  BY DEF EnginesTyped, TypeOK, ThreadsTyped
<1>2. r.def \in FlowDefinition /\ r.node \in DOMAIN r.def.nodes
  BY DEF EnginesTyped, Known, GoroutineKnows, Advance, HasDefinition
<1>3. next \in DOMAIN r.def.nodes \cup {NoNode}
  BY <1>2, FollowingIsAPosition
<1>4. "loop" \in Statements /\ "" \in Reasons /\ NoNode \in Nat
  BY StatementNames DEF NoNode
<1>5. CASE /\ next = NoNode
           /\ Become(t, [r EXCEPT !.pc = "loop", !.node = NoNode, !.out = ""])
  <2>1. [r EXCEPT !.pc = "loop", !.node = NoNode, !.out = ""] \in Goroutine
    <3> HIDE DEF r
    <3>1. QED
      BY <1>1, <1>4, Zenon DEF Goroutine
  <2>2. QED
    BY <1>1, <1>5, <2>1, BecomeType
<1>6. CASE /\ next # NoNode
           /\ thread[t].steps < MaxSteps
           /\ Become(t, [r EXCEPT !.pc = "loop", !.node = next, !.steps = @ + 1,
                                  !.at = r.def.nodes[next].id, !.out = ""])
  <2>1. next \in Nat /\ r.def.nodes[next].id \in Names
    BY <1>2, <1>3, <1>6, NodesHaveNames
  <2>2. r.steps + 1 \in 0..MaxSteps
    <3>1. r.steps \in 0..MaxSteps
      BY <1>1 DEF Goroutine
    <3>2. QED
      BY <1>6, <3>1, EngineAssumption
  <2>3. [r EXCEPT !.pc = "loop", !.node = next, !.steps = @ + 1,
                  !.at = r.def.nodes[next].id, !.out = ""] \in Goroutine
    <3> DEFINE more == r.steps + 1
    <3>1. [r EXCEPT !.pc = "loop", !.node = next, !.steps = more,
                    !.at = r.def.nodes[next].id, !.out = ""] \in Goroutine
      <4> HIDE DEF r, next, more
      <4>1. more \in 0..MaxSteps
        BY <2>2 DEF more
      <4>2. QED
        BY <1>1, <1>4, <2>1, <4>1, Zenon DEF Goroutine
    <3>2. QED
      BY <3>1
  <2>4. QED
    BY <1>1, <1>6, <2>3, BecomeType
<1>7. thread[t].steps < MaxSteps
  BY DEF EnginesTyped, Known, GoroutineKnows, Advance
<1>8. QED
  BY <1>5, <1>6, <1>7, Zenon DEF Advance

LEMMA CancelForTestType ==
  ASSUME EnginesTyped, NEW t \in Threads, CancelForTest(t)
  PROVE  ThreadsTyped'
  BY StatementNames, GotoType DEF CancelForTest, EnginesTyped, TypeOK, ThreadsTyped

LEMMA ThreadsTypeStep ==
  ASSUME EnginesTyped, Next
  PROVE  ThreadsTyped'
<1>1. ThreadsTyped
  BY DEF EnginesTyped, TypeOK, ThreadsTyped
<1>2. CASE UNCHANGED thread
  BY <1>1, <1>2 DEF ThreadsTyped
<1>3. ASSUME NEW t \in Threads, Become(t, Idle)
      PROVE  ThreadsTyped'
  BY <1>1, <1>3, IdleType, BecomeType
<1>4. CASE Arrive
  BY <1>4, InboundType, ExecuteFlowType DEF Arrive
<1>5. ASSUME NEW t \in Threads, Enter(t)
      PROVE  ThreadsTyped'
  BY <1>5, ClaimType, ReadType, MatchFlowType, CancelForTestType, InsertRunType DEF Enter
<1>6. ASSUME NEW t \in Threads, RunStep(t)
      PROVE  ThreadsTyped'
  <2>1. CASE Finish(t) \/ StepLimit(t) \/ Pause(t)
    BY <1>3, <2>1 DEF Finish, StepLimit, Pause
  <2>2. QED
    BY <1>6, <2>1, LoadFlowType, CheckCancelledType, AdvanceType, RunNodeType DEF RunStep
<1>7. ASSUME NEW x \in Execs, Wake(x)
      PROVE  ThreadsTyped'
  BY <1>7, ResumeDueType DEF Wake, Threads
<1>8. CASE Outside
  BY <1>2, <1>3, <1>8 DEF Outside, CancelForConversation, CancelExecution, AssignUser, EditFlow, StopRuns,
                         DeleteFlow, Crash, engineVars
<1>9. QED
  BY <1>4, <1>5, <1>6, <1>7, <1>8 DEF Next

(* Rows keep their type; every statement that touches them is one of five. *)
LEMMA RowsTypeStep ==
  ASSUME EnginesTyped, Next
  PROVE  RowsTyped'
<1>1. RowsTyped
  BY DEF EnginesTyped, TypeOK, RowsTyped
<1>2. CASE UNCHANGED <<row, faults>>
  BY <1>1, <1>2 DEF RowsTyped
<1>3. ASSUME row' \in [Execs -> Row], UNCHANGED faults \/ \E ok \in BOOLEAN : Statement(ok)
      PROVE  RowsTyped'
  BY <1>1, <1>3, StatementType DEF RowsTyped
<1>4. ASSUME UNCHANGED row, \E ok \in BOOLEAN : Statement(ok)
      PROVE  RowsTyped'
  BY <1>1, <1>3, <1>4 DEF RowsTyped
<1>5. ASSUME NEW x \in Execs,
             row' = [row EXCEPT ![x] = [@ EXCEPT !.status = "running", !.armed = FALSE]]
      PROVE  row' \in [Execs -> Row]
  <2>1. [row[x] EXCEPT !.status = "running", !.armed = FALSE] \in Row
    BY <1>1 DEF RowsTyped, Row, ExecStatus, Active
  <2>2. QED
    BY <1>1, <1>5, <2>1 DEF RowsTyped
<1>6. CASE Arrive
  BY <1>2, <1>6 DEF Arrive, Inbound, ExecuteFlow
<1>7. ASSUME NEW t \in Threads, Enter(t)
      PROVE  RowsTyped'
  <2>1. CASE ClaimWaiting(t)
    <3>1. CASE UNCHANGED row /\ \E ok \in BOOLEAN : Statement(ok)
      BY <1>4, <3>1
    <3>2. ASSUME NEW x \in Execs, UNCHANGED faults,
                 row' = [row EXCEPT ![x] = [@ EXCEPT !.status = "running", !.armed = FALSE]]
          PROVE  RowsTyped'
      BY <1>3, <1>5, <3>2
    <3>3. QED
      BY <2>1, <3>1, <3>2 DEF ClaimWaiting, RunsOf
  <2>2. CASE ReadBusy(t) \/ ReadOwner(t) \/ MatchFlow(t)
    BY <1>4, <2>2 DEF ReadBusy, ReadOwner, MatchFlow
  <2>3. CASE CancelForTest(t)
    <3>1. row' \in [Execs -> Row]
      BY <1>1, <2>3, CancelRunsType DEF CancelForTest, RowsTyped
    <3>2. QED
      BY <1>3, <2>3, <3>1 DEF CancelForTest
  <2>4. CASE InsertRun(t)
    <3> DEFINE r == thread[t]
               new == [status |-> "running", conv |-> r.conv, flow |-> r.flow, armed |-> FALSE,
                       node |-> r.def.nodes[StartNode(r.def)].id, manual |-> r.ev = NoEvent]
    <3>1. r.conv \in Convs /\ r.flow \in Flows /\ r.def \in FlowDefinition
          /\ StartNode(r.def) \in DOMAIN r.def.nodes
      BY <2>4, StartNodeStarts DEF EnginesTyped, Known, GoroutineKnows, InsertRun, Entering
    <3>2. r.def.nodes[StartNode(r.def)].id \in Names
      BY <3>1, NodesHaveNames
    <3>3. new \in Row
      BY <3>1, <3>2 DEF Row, ExecStatus, Active
    <3>4. CASE UNCHANGED row
      BY <1>2, <1>4, <2>4, <3>4 DEF InsertRun
    <3>5. ASSUME NEW x \in Execs, row' = [row EXCEPT ![x] = new]
          PROVE  row' \in [Execs -> Row]
      BY <1>1, <3>3, <3>5 DEF RowsTyped
    <3>6. UNCHANGED row \/ \E x \in Execs : row' = [row EXCEPT ![x] = new] /\ UNCHANGED faults
      BY <2>4, Zenon DEF InsertRun
    <3>7. QED
      BY <1>3, <3>4, <3>5, <3>6
  <2>5. QED
    BY <1>7, <2>1, <2>2, <2>3, <2>4 DEF Enter
<1>8. ASSUME NEW t \in Threads, RunStep(t)
      PROVE  RowsTyped'
  <2>1. /\ thread[t].at \in Names \cup {""}
        /\ {"completed", "failed", "waiting_input", "waiting_delay", "running"} \subseteq ExecStatus
    BY DEF EnginesTyped, TypeOK, Goroutine, ExecStatus, Active, Ended
  <2>2. CASE LoadFlow(t)
    BY <1>1, <1>2, <2>2, FailRawType DEF LoadFlow
  <2>3. CASE Finish(t)
    BY <1>1, <2>1, <2>3, SaveType DEF Finish
  <2>4. CASE StepLimit(t)
    BY <1>1, <2>1, <2>4, SaveType DEF StepLimit
  <2>5. CASE CheckCancelled(t)
    BY <1>4, <2>5 DEF CheckCancelled
  <2>6. CASE Pause(t)
    BY <1>1, <2>1, <2>6, SaveType DEF Pause
  <2>7. CASE Advance(t)
    <3> DEFINE r == thread[t]
               next == Following(r.def, r.node, r.out)
    <3>1. r.def \in FlowDefinition /\ r.node \in DOMAIN r.def.nodes
      BY <2>7 DEF EnginesTyped, Known, GoroutineKnows, Advance, HasDefinition
    <3>2. next # NoNode => r.def.nodes[next].id \in Names
      BY <3>1, FollowingIsAPosition, NodesHaveNames
    <3>3. \/ UNCHANGED <<row, faults>>
          \/ next # NoNode /\ Save(r.exec, r.def.nodes[next].id, "running", FALSE)
      BY <2>7, Zenon DEF Advance
    <3> HIDE DEF r, next
    <3>4. QED
      BY <1>1, <1>2, <2>1, <3>2, <3>3, SaveType
  <2>8. CASE \E out \in Outputs \cup Waits \cup {"fail"}, u \in Users \cup {NoUser} : RunNode(t, out, u)
    BY <1>2, <2>8 DEF RunNode
  <2>9. QED
    BY <1>8, <2>2, <2>3, <2>4, <2>5, <2>6, <2>7, <2>8 DEF RunStep
<1>9. ASSUME NEW x \in Execs, Wake(x)
      PROVE  RowsTyped'
  BY <1>3, <1>5, <1>9 DEF Wake, ResumeDue
<1>10. CASE Outside
  <2>1. CASE (\E c \in Convs : CancelForConversation(c)) \/ (\E x \in Execs : CancelExecution(x))
             \/ (\E e \in Editors : StopRuns(e))
    BY <1>1, <1>3, <2>1, CancelRunsType DEF CancelForConversation, CancelExecution, StopRuns
  <2>2. CASE (\E c \in Convs, u \in Users \cup {NoUser} : AssignUser(c, u)) \/ EditFlow
    BY <1>2, <2>2 DEF AssignUser, EditFlow, engineVars
  <2>3. ASSUME NEW f \in Flows, DeleteFlow(f)
        PROVE  RowsTyped'
    <3>1. \A x \in Execs : [row[x] EXCEPT !.status = "deleted"] \in Row
      BY <1>1 DEF RowsTyped, Row, ExecStatus, Ended
    <3>2. row' \in [Execs -> Row] /\ UNCHANGED faults
      BY <1>1, <2>3, <3>1 DEF DeleteFlow, RowsTyped
    <3>3. QED
      BY <1>3, <3>2
  <2>4. CASE \E t \in Threads : Crash(t)
    BY <1>4, <2>4 DEF Crash
  <2>5. QED
    BY <1>10, <2>1, <2>2, <2>3, <2>4 DEF Outside
<1>11. QED
  BY <1>6, <1>7, <1>8, <1>9, <1>10 DEF Next

(* What the steps of the goroutines leave alone.                           *)
LEMMA CatalogUntouched ==
  ASSUME Next, ~EditFlow, \A e \in Editors : ~StopRuns(e), \A f \in Flows : ~DeleteFlow(f)
  PROVE  UNCHANGED catalogVars
  BY DEF Next, Arrive, Inbound, ExecuteFlow, Enter, ClaimWaiting, ReadBusy, ReadOwner, MatchFlow,
         CancelForTest, InsertRun, RunStep, LoadFlow, Finish, StepLimit, CheckCancelled, RunNode, Pause,
         Advance, Wake, ResumeDue, Outside, CancelForConversation, CancelExecution, AssignUser, Crash

LEMMA ConversationsTypeStep ==
  ASSUME EnginesTyped, Next
  PROVE  /\ (seen \subseteq Convs)'
         /\ (owner \in [Convs -> Users \cup {NoUser}])'
         /\ (late \in [Execs -> Nat])'
<1> USE DEF EnginesTyped, TypeOK, engineVars
<1>1. CASE Arrive
  BY <1>1 DEF Arrive, Inbound, ExecuteFlow
<1>2. ASSUME NEW t \in Threads, Enter(t)
      PROVE  UNCHANGED <<seen, owner, late>>
  BY <1>2 DEF Enter, ClaimWaiting, ReadBusy, ReadOwner, MatchFlow, CancelForTest, InsertRun
<1>3. ASSUME NEW t \in Threads, LoadFlow(t) \/ Finish(t) \/ StepLimit(t) \/ CheckCancelled(t) \/ Pause(t) \/ Advance(t)
      PROVE  UNCHANGED <<seen, owner, late>>
  BY <1>3 DEF LoadFlow, Finish, StepLimit, CheckCancelled, Pause, Advance
<1>4. ASSUME NEW t \in Threads, NEW out \in Outputs \cup Waits \cup {"fail"},
             NEW u \in Users \cup {NoUser}, RunNode(t, out, u)
      PROVE  /\ UNCHANGED seen
             /\ owner' \in [Convs -> Users \cup {NoUser}]
             /\ late' \in [Execs -> Nat]
  <2>1. owner' \in [Convs -> Users \cup {NoUser}]
    BY <1>4 DEF RunNode
  <2>2. late' \in [Execs -> Nat]
    <3>1. \A x \in Execs : late[x] + 1 \in Nat
      OBVIOUS
    <3>2. late' = late \/ \E x : late' = [late EXCEPT ![x] = @ + 1]
      BY <1>4 DEF RunNode
    <3>3. QED
      BY <3>1, <3>2
  <2>3. QED
    BY <1>4, <2>1, <2>2 DEF RunNode
<1>5. ASSUME NEW x \in Execs, Wake(x)
      PROVE  UNCHANGED <<seen, owner, late>>
  BY <1>5 DEF Wake, ResumeDue
<1>6. CASE Outside
  BY <1>6 DEF Outside, CancelForConversation, CancelExecution, AssignUser, EditFlow, StopRuns, DeleteFlow, Crash
<1>7. QED
  BY <1>1, <1>2, <1>3, <1>4, <1>5, <1>6 DEF Next, RunStep

LEMMA TypeStep ==
  ASSUME TypeOK, Known, [Next]_vars
  PROVE  TypeOK'
<1>1. CASE UNCHANGED vars
  BY <1>1 DEF vars, TypeOK, CatalogTypeOK, Stored
<1>2. CASE Next
  <2>1. EnginesTyped
    BY DEF EnginesTyped
  <2>2. CatalogTypeOK'
    <3>1. CASE UNCHANGED catalogVars
      BY <3>1 DEF TypeOK, CatalogTypeOK, catalogVars, Stored
    <3>2. CASE EditFlow \/ (\E e \in Editors : StopRuns(e)) \/ (\E f \in Flows : DeleteFlow(f))
      BY <3>2, CatalogTypeStep DEF TypeOK, Known, EditFlow, StopRuns, DeleteFlow
    <3>3. QED
      BY <1>2, <3>1, <3>2, CatalogUntouched
  <2>3. QED
    BY <1>2, <2>1, <2>2, RowsTypeStep, ThreadsTypeStep, ConversationsTypeStep DEF RowsTyped, ThreadsTyped, TypeOK
<1>3. QED
  BY <1>1, <1>2

-----------------------------------------------------------------------------
(* How a step can touch what makes the engine safe: it moves one goroutine *)
(* and leaves the rows, or saves the row of a runner, or claims a waiting  *)
(* row, or inserts one, or cancels some.                                   *)

LEMMA QuietStep ==
  ASSUME TypeOK, Safe, UNCHANGED <<row, late>>, NEW t \in Threads, NEW r, Become(t, r),
         r.pc \in Running => IsRunner(t) /\ r.exec = thread[t].exec,
         r.pc = "act" => late[r.exec] = 0
  PROVE  Safe'
<1>1. /\ thread' = [thread EXCEPT ![t] = r] /\ DOMAIN thread = Threads
      /\ row' = row /\ late' = late
  BY DEF Become, TypeOK
<1>2. \A u \in Threads : IsRunner(u)' => IsRunner(u) /\ thread'[u].exec = thread[u].exec
  BY <1>1 DEF IsRunner
<1>3. OneRunnerPerRun'
  BY <1>1, <1>2 DEF Safe, OneRunnerPerRun
<1>4. CheckedIsClean'
  BY <1>1 DEF Safe, CheckedIsClean
<1>5. QED
  BY <1>1, <1>3, <1>4 DEF Safe, RowTells, OneBotPerConversation, AtMostOneLateNode, IsActive

(* The status a runner's row may get from its own statements.              *)
SavedAs(x, status) ==
  /\ \A y \in Execs : y # x => row'[y] = row[y]
  /\ row'[x].conv = row[x].conv /\ row'[x].flow = row[x].flow
  /\ \/ row'[x].status = row[x].status
     \/ row[x].status = "running" /\ row'[x].status = status

LEMMA SaveSaves ==
  ASSUME TypeOK, NEW x \in Execs, row[x].status \in {"running", "cancelled", "deleted"},
         NEW at, NEW status, NEW armed, Save(x, at, status, armed)
  PROVE  SavedAs(x, status)
<1>1. \/ row' = row
      \/ /\ row[x].status = "running"
         /\ row' = [row EXCEPT ![x] = [@ EXCEPT !.status = status, !.node = at, !.armed = armed]]
  BY Zenon DEF Save, Writable
<1>2. row[x] \in Row /\ DOMAIN row = Execs
  BY DEF TypeOK
<1>3. QED
  BY <1>1, <1>2 DEF SavedAs, Row

LEMMA FailRawSaves ==
  ASSUME TypeOK, NEW x \in Execs, row[x].status \in {"running", "cancelled", "deleted"}, FailRaw(x)
  PROVE  SavedAs(x, "failed")
<1>1. \/ row' = row
      \/ row[x].status = "running" /\ row' = [row EXCEPT ![x].status = "failed"]
  BY Zenon DEF FailRaw, Writable
<1>2. row[x] \in Row /\ DOMAIN row = Execs
  BY DEF TypeOK
<1>3. QED
  BY <1>1, <1>2 DEF SavedAs, Row

LEMMA SavingStep ==
  ASSUME TypeOK, Known, Safe, UNCHANGED late, NEW t \in Threads, IsRunner(t), NEW r,
         Become(t, r), r.pc # "act", NEW status \in ExecStatus \ {"absent"},
         SavedAs(thread[t].exec, status),
         r.pc \in Running => r.exec = thread[t].exec /\ status = "running"
  PROVE  Safe'
<1> DEFINE x == thread[t].exec
<1>1. /\ thread' = [thread EXCEPT ![t] = r] /\ DOMAIN thread = Threads
      /\ late' = late /\ x \in Execs
  BY DEF Become, TypeOK, Known, GoroutineKnows
<1>2. \A u \in Threads : IsRunner(u)' => IsRunner(u) /\ thread'[u].exec = thread[u].exec
  BY <1>1 DEF IsRunner
<1>3. \A y \in Execs : /\ row'[y].conv = row[y].conv /\ row'[y].flow = row[y].flow
                       /\ IsActive(y)' => IsActive(y)
                       /\ row'[y].status = "absent" => row[y].status = "absent"
  BY DEF SavedAs, IsActive, Active
<1>4. ASSUME NEW u \in Threads, IsRunner(u)'
      PROVE  row'[thread'[u].exec].status \in {"running", "cancelled", "deleted"}
  <2>1. row[thread[u].exec].status \in {"running", "cancelled", "deleted"}
    BY <1>2, <1>4 DEF Safe, OneRunnerPerRun
  <2>2. CASE u = t
    BY <1>1, <2>1, <1>4, <2>2 DEF SavedAs, IsRunner
  <2>3. CASE u # t
    <3>1. thread[u].exec # x /\ thread'[u] = thread[u]
      BY <1>1, <1>2, <1>4, <2>3 DEF Safe, OneRunnerPerRun
    <3>2. thread[u].exec \in Execs
      BY <1>2, <1>4 DEF Known, GoroutineKnows
    <3>3. QED
      BY <2>1, <3>1, <3>2 DEF SavedAs
  <2>4. QED
    BY <2>2, <2>3
<1>5. OneRunnerPerRun'
  BY <1>2, <1>4 DEF Safe, OneRunnerPerRun
<1>6. CheckedIsClean'
  BY <1>1 DEF Safe, CheckedIsClean
<1>7. \A y \in Execs : RowTells(y)'
  BY <1>1, <1>3 DEF Safe, RowTells
<1>8. OneBotPerConversation'
  BY <1>3 DEF Safe, OneBotPerConversation
<1>9. QED
  BY <1>1, <1>5, <1>6, <1>7, <1>8 DEF Safe, AtMostOneLateNode

LEMMA CancellingStep ==
  ASSUME TypeOK, Known, Safe, UNCHANGED late, NEW X, CancelRuns(X),
         \A u \in Threads : /\ IsRunner(u)' <=> IsRunner(u)
                            /\ thread'[u].exec = thread[u].exec
                            /\ thread'[u].pc = "act" => thread[u].pc = "act"
  PROVE  Safe'
<1>1. \A y \in Execs : row'[y] = IF y \in X /\ IsActive(y)
                                THEN [row[y] EXCEPT !.status = "cancelled", !.armed = FALSE]
                                ELSE row[y]
  BY DEF CancelRuns
<1>2. \A y \in Execs : row[y] \in Row
  BY DEF TypeOK
<1>3. \A y \in Execs : /\ row'[y].conv = row[y].conv /\ row'[y].flow = row[y].flow
                       /\ row'[y].status \in {row[y].status, "cancelled"}
                       /\ row'[y].status # row[y].status => IsActive(y)
  BY <1>1, <1>2 DEF Row
<1>4. \A y \in Execs : IsActive(y)' => IsActive(y)
  BY <1>3 DEF IsActive, Active
<1>5. ASSUME NEW u \in Threads, IsRunner(u)'
      PROVE  row'[thread'[u].exec].status \in {"running", "cancelled", "deleted"}
  <2>1. row[thread[u].exec].status \in {"running", "cancelled", "deleted"}
    BY <1>5 DEF Safe, OneRunnerPerRun
  <2>2. thread[u].exec \in Execs
    BY <1>5 DEF Known, GoroutineKnows
  <2>3. QED
    BY <1>3, <2>1, <2>2
<1>6. OneRunnerPerRun'
  BY <1>5 DEF Safe, OneRunnerPerRun
<1>7. CheckedIsClean'
  BY DEF Safe, CheckedIsClean
<1>8. \A y \in Execs : RowTells(y)'
  BY <1>3, <1>4 DEF Safe, RowTells
<1>9. OneBotPerConversation'
  BY <1>3, <1>4 DEF Safe, OneBotPerConversation
<1>10. QED
  BY <1>6, <1>7, <1>8, <1>9 DEF Safe, AtMostOneLateNode

LEMMA ClaimingStep ==
  ASSUME TypeOK, Safe, UNCHANGED late, NEW t \in Threads, NEW r, Become(t, r),
         NEW x \in Execs, row[x].status \in {"waiting_input", "waiting_delay"},
         row' = [row EXCEPT ![x] = [@ EXCEPT !.status = "running", !.armed = FALSE]],
         r.pc = "load", r.exec = x
  PROVE  Safe'
<1>1. thread' = [thread EXCEPT ![t] = r] /\ DOMAIN thread = Threads /\ DOMAIN row = Execs
  BY DEF Become, TypeOK
<1>2. row[x] \in Row
  BY DEF TypeOK
<1>3. /\ \A y \in Execs : y # x => row'[y] = row[y]
      /\ row'[x].status = "running" /\ row'[x].conv = row[x].conv /\ row'[x].flow = row[x].flow
  BY <1>1, <1>2 DEF Row
<1>4. \A u \in Threads : IsRunner(u) => thread[u].exec # x
  BY DEF Safe, OneRunnerPerRun
<1>5. \A u \in Threads : /\ u # t => thread'[u] = thread[u]
                         /\ thread'[t] = r
  BY <1>1
<1>6. ASSUME NEW u \in Threads, IsRunner(u)'
      PROVE  row'[thread'[u].exec].status \in {"running", "cancelled", "deleted"}
  <2>1. CASE u = t
    BY <1>3, <1>5, <2>1
  <2>2. CASE u # t
    <3>1. IsRunner(u) /\ thread'[u] = thread[u] /\ thread[u].exec # x
      BY <1>4, <1>5, <1>6, <2>2 DEF IsRunner
    <3>2. row[thread[u].exec].status \in {"running", "cancelled", "deleted"}
      BY <3>1 DEF Safe, OneRunnerPerRun
    <3>3. row'[thread[u].exec] = row[thread[u].exec]
      BY <3>1
    <3>4. QED
      BY <3>1, <3>2, <3>3
  <2>3. QED
    BY <2>1, <2>2
<1>7. OneRunnerPerRun'
  BY <1>4, <1>5, <1>6 DEF Safe, OneRunnerPerRun, IsRunner
<1>8. CheckedIsClean'
  BY <1>5 DEF Safe, CheckedIsClean
<1>9. \A y \in Execs : RowTells(y)'
  BY <1>3 DEF Safe, RowTells, IsActive, Active
<1>10. OneBotPerConversation'
  BY <1>3 DEF Safe, OneBotPerConversation, IsActive, Active
<1>11. QED
  BY <1>7, <1>8, <1>9, <1>10 DEF Safe, AtMostOneLateNode

LEMMA InsertingStep ==
  ASSUME TypeOK, Safe, UNCHANGED late, NEW t \in Threads, NEW r, Become(t, r),
         NEW x \in Execs, row[x].status = "absent", NEW new \in Row, row' = [row EXCEPT ![x] = new],
         new.status = "running", new.flow \in Flows,
         \A y \in RunsOf(new.conv) : ~IsActive(y),
         r.pc = "loop", r.exec = x
  PROVE  Safe'
<1>1. thread' = [thread EXCEPT ![t] = r] /\ DOMAIN thread = Threads /\ DOMAIN row = Execs
  BY DEF Become, TypeOK
<1>2. row'[x] = new /\ \A y \in Execs : y # x => row'[y] = row[y]
  BY <1>1
<1>3. \A u \in Threads : IsRunner(u) => thread[u].exec # x
  BY DEF Safe, OneRunnerPerRun
<1>4. \A u \in Threads : u # t => thread'[u] = thread[u]
  BY <1>1
<1>5. thread'[t] = r
  BY <1>1
<1>6. ASSUME NEW u \in Threads, IsRunner(u)'
      PROVE  row'[thread'[u].exec].status \in {"running", "cancelled", "deleted"}
  <2>1. CASE u = t
    BY <1>2, <1>5, <2>1
  <2>2. CASE u # t
    <3>1. IsRunner(u) /\ thread'[u] = thread[u] /\ thread[u].exec # x
      BY <1>3, <1>4, <1>6, <2>2 DEF IsRunner
    <3>2. row[thread[u].exec].status \in {"running", "cancelled", "deleted"}
      BY <3>1 DEF Safe, OneRunnerPerRun
    <3>3. row'[thread[u].exec] = row[thread[u].exec]
      BY <3>1
    <3>4. QED
      BY <3>1, <3>2, <3>3
  <2>3. QED
    BY <2>1, <2>2
<1>7. OneRunnerPerRun'
  BY <1>3, <1>4, <1>5, <1>6 DEF Safe, OneRunnerPerRun, IsRunner
<1>8. CheckedIsClean'
  BY <1>4, <1>5 DEF Safe, CheckedIsClean
<1>9. \A y \in Execs : RowTells(y)'
  BY <1>2 DEF Safe, RowTells, IsActive, Active
<1>10. \A y \in Execs : y # x /\ IsActive(y) => row[y].conv # new.conv
  BY DEF RunsOf, IsActive, Active
<1>11. OneBotPerConversation'
  BY <1>2, <1>10 DEF Safe, OneBotPerConversation, IsActive
<1>12. QED
  BY <1>7, <1>8, <1>9, <1>11 DEF Safe, AtMostOneLateNode

LEMMA ActingStep ==
  ASSUME TypeOK, Known, Safe, NEW t \in Threads, NEW out, NEW u, RunNode(t, out, u)
  PROVE  Safe'
<1> DEFINE x == thread[t].exec
           r == [thread[t] EXCEPT !.pc = "save", !.out = out]
<1>1. thread' = [thread EXCEPT ![t] = r] /\ DOMAIN thread = Threads /\ row' = row /\ thread[t].pc = "act"
  BY DEF RunNode, Become, TypeOK
<1>2. x \in Execs /\ thread[t] \in Goroutine
  BY <1>1 DEF Known, GoroutineKnows, IsRunner, Running, TypeOK
<1>3. r.exec = x /\ r.pc = "save"
  BY <1>2 DEF Goroutine
<1> HIDE DEF r
<1>4. late[x] = 0
  BY <1>1 DEF Safe, CheckedIsClean
<1>5. /\ \A y \in Execs : y # x => late'[y] = late[y]
      /\ late'[x] \in {0, 1}
      /\ late'[x] # 0 => row[x].status \in Ended
  BY <1>2, <1>4 DEF RunNode, TypeOK
<1>6. \A v \in Threads : v # t => thread'[v] = thread[v]
  BY <1>1
<1>7. \A v \in Threads : (IsRunner(v)' <=> IsRunner(v)) /\ thread'[v].exec = thread[v].exec
  BY <1>1, <1>3 DEF IsRunner, Running
<1>8. OneRunnerPerRun'
  BY <1>1, <1>7 DEF Safe, OneRunnerPerRun
<1>9. CheckedIsClean'
  <2>1. ASSUME NEW v \in Threads, thread'[v].pc = "act"
        PROVE  late'[thread'[v].exec] = 0
    <3>1. v # t /\ thread'[v] = thread[v]
      BY <1>1, <1>3, <1>6, <2>1
    <3>2. IsRunner(v) /\ IsRunner(t) /\ thread[v].exec \in Execs
      BY <1>1, <2>1, <3>1 DEF IsRunner, Running, Known, GoroutineKnows
    <3>3. thread[v].exec # x
      BY <3>1, <3>2 DEF Safe, OneRunnerPerRun
    <3>4. QED
      BY <1>5, <2>1, <3>1, <3>2, <3>3 DEF Safe, CheckedIsClean
  <2>2. QED
    BY <2>1 DEF CheckedIsClean
<1>10. \A y \in Execs : RowTells(y)'
  BY <1>1, <1>5 DEF Safe, RowTells, IsActive, Active, Ended
<1>11. AtMostOneLateNode'
  BY <1>5 DEF Safe, AtMostOneLateNode
<1>12. OneBotPerConversation'
  BY <1>1 DEF Safe, OneBotPerConversation, IsActive
<1>13. QED
  BY <1>8, <1>9, <1>10, <1>11, <1>12 DEF Safe

LEMMA DeletingStep ==
  ASSUME TypeOK, Known, Safe, NEW f \in Flows, DeleteFlow(f)
  PROVE  Safe'
<1>1. UNCHANGED <<thread, late>>
  BY DEF DeleteFlow
<1>2. \A y \in Execs : row'[y] = IF row[y].flow = f THEN [row[y] EXCEPT !.status = "deleted"] ELSE row[y]
  BY DEF DeleteFlow
<1>3. \A y \in Execs : row[y] \in Row
  BY DEF TypeOK
<1>4. \A y \in Execs : /\ row'[y].conv = row[y].conv /\ row'[y].flow = row[y].flow
                       /\ row'[y].status \in {row[y].status, "deleted"}
                       /\ row'[y].status # row[y].status => row[y].flow = f
  BY <1>2, <1>3 DEF Row
<1>5. \A y \in Execs : IsActive(y)' => IsActive(y)
  BY <1>4 DEF IsActive, Active
<1>6. \A u \in Threads : IsRunner(u)' => IsRunner(u) /\ thread[u].exec \in Execs
  BY <1>1 DEF IsRunner, Known, GoroutineKnows
<1>7. OneRunnerPerRun'
  BY <1>1, <1>4, <1>6 DEF Safe, OneRunnerPerRun
<1>8. CheckedIsClean'
  BY <1>1 DEF Safe, CheckedIsClean
<1>9. f # 0
  BY CatalogAssumption
<1>10. \A y \in Execs : RowTells(y)'
  BY <1>1, <1>4, <1>5, <1>9 DEF Safe, RowTells
<1>11. OneBotPerConversation'
  BY <1>4, <1>5 DEF Safe, OneBotPerConversation
<1>12. QED
  BY <1>1, <1>7, <1>8, <1>10, <1>11 DEF Safe, AtMostOneLateNode

LEMMA IdleIsQuiet == Idle.pc = "idle" /\ "idle" \notin Running /\ "idle" # "act"
  BY DEF Idle, Running

LEMMA SafeStep ==
  ASSUME TypeOK, Known, Safe, Next
  PROVE  Safe'
<1>1. ASSUME NEW t \in Threads, UNCHANGED <<row, late>>, Become(t, Idle)
      PROVE  Safe'
  BY <1>1, IdleIsQuiet, QuietStep
<1>2. ASSUME NEW t \in Threads, UNCHANGED <<row, late>>, NEW s \in Entering, Goto(t, s)
      PROVE  Safe'
  <2>1. [thread[t] EXCEPT !.pc = s].pc = s
    BY DEF TypeOK, Goroutine
  <2>2. s \notin Running /\ s # "act"
    BY DEF Entering, Running
  <2>3. QED
    BY <1>2, <2>1, <2>2, QuietStep DEF Goto
<1>3. CASE UNCHANGED <<row, late, thread>>
  BY <1>3 DEF Safe, RowTells, OneRunnerPerRun, OneBotPerConversation, CheckedIsClean, AtMostOneLateNode,
     IsRunner, IsActive
<1>4. ASSUME NEW t \in Handlers, NEW c \in Convs, NEW m \in Texts, Inbound(t, c, m)
      PROVE  Safe'
  <2> DEFINE ev == [channel |-> m.channel, words |-> m.words, isNew |-> c \notin seen]
             r == [Idle EXCEPT !.pc = "claim", !.conv = c, !.answers = QuestionOpen(c), !.ev = ev]
  <2>1. r.pc = "claim"
    BY Zenon, IdleType DEF Goroutine, Idle
  <2>2. Become(t, r) /\ UNCHANGED <<row, late>> /\ t \in Threads
    BY <1>4 DEF Inbound, Threads
  <2> HIDE DEF r
  <2>3. QED
    BY <2>1, <2>2, QuietStep DEF Running
<1>5. ASSUME NEW t \in Handlers, NEW f \in Flows, NEW c \in Convs, ExecuteFlow(t, f, c)
      PROVE  Safe'
  <2> DEFINE r == [Idle EXCEPT !.pc = "cancel", !.conv = c, !.flow = f, !.def = Saved(f)]
  <2>1. r.pc = "cancel"
    BY DEF Idle
  <2>2. Become(t, r) /\ UNCHANGED <<row, late>> /\ t \in Threads
    BY <1>5 DEF ExecuteFlow, Threads
  <2> HIDE DEF r
  <2>3. QED
    BY <2>1, <2>2, QuietStep DEF Running
<1>6. ASSUME NEW t \in Threads, NEW x \in Execs, NEW why, UNCHANGED late,
             row[x].status \in {"waiting_input", "waiting_delay"},
             row' = [row EXCEPT ![x] = [@ EXCEPT !.status = "running", !.armed = FALSE]],
             Become(t, [Idle EXCEPT !.pc = "load", !.exec = x, !.flow = row[x].flow,
                                    !.at = row[x].node, !.out = why])
      PROVE  Safe'
  <2> DEFINE r == [Idle EXCEPT !.pc = "load", !.exec = x, !.flow = row[x].flow,
                               !.at = row[x].node, !.out = why]
  <2>1. r.pc = "load" /\ r.exec = x
    BY DEF Idle
  <2> HIDE DEF r
  <2>2. Become(t, r)
    BY <1>6 DEF r
  <2>3. QED
    BY <1>6, <2>1, <2>2, ClaimingStep
<1>7. ASSUME NEW t \in Threads, ClaimWaiting(t)
      PROVE  Safe'
  <2>1. "busy" \in Entering
    BY DEF Entering
  <2>2. CASE UNCHANGED row /\ Goto(t, "busy")
    BY <1>2, <1>7, <2>1, <2>2 DEF ClaimWaiting
  <2>3. CASE ~(UNCHANGED row /\ Goto(t, "busy"))
    BY <1>6, <1>7, <2>3 DEF ClaimWaiting, RunsOf
  <2>4. QED
    BY <2>2, <2>3
<1>8. ASSUME NEW x \in Execs, Wake(x)
      PROVE  Safe'
  BY <1>6, <1>8 DEF Wake, ResumeDue, IsDue, Threads
<1>9. ASSUME NEW t \in Threads, ReadBusy(t) \/ ReadOwner(t)
      PROVE  Safe'
  <2>1. "owner" \in Entering /\ "match" \in Entering
    BY DEF Entering
  <2>2. UNCHANGED <<row, late>> /\ (Become(t, Idle) \/ Goto(t, "owner") \/ Goto(t, "match"))
    BY <1>9 DEF ReadBusy, ReadOwner
  <2>3. QED
    BY <1>1, <1>2, <2>1, <2>2
<1>10. ASSUME NEW t \in Threads, MatchFlow(t)
       PROVE  Safe'
  <2>1. UNCHANGED <<row, late>>
    BY <1>10 DEF MatchFlow
  <2>2. Become(t, Idle) \/ \E best : Become(t, [thread[t] EXCEPT !.pc = "insert", !.flow = best, !.def = Saved(best)])
    BY <1>10, Zenon DEF MatchFlow
  <2>3. ASSUME NEW best, Become(t, [thread[t] EXCEPT !.pc = "insert", !.flow = best, !.def = Saved(best)])
        PROVE  Safe'
    <3>1. [thread[t] EXCEPT !.pc = "insert", !.flow = best, !.def = Saved(best)].pc = "insert"
      BY DEF TypeOK, Goroutine
    <3>2. QED
      BY <2>1, <2>3, <3>1, QuietStep DEF Running
  <2>4. QED
    BY <1>1, <2>1, <2>2, <2>3
<1>11. ASSUME NEW t \in Threads, CancelForTest(t)
       PROVE  Safe'
  <2>1. "insert" \in Entering /\ "insert" \notin Running /\ "insert" # "act"
    BY DEF Entering, Running
  <2>2. UNCHANGED late /\ Goto(t, "insert") /\ thread[t].pc = "cancel"
    BY <1>11 DEF CancelForTest
  <2>3. CASE UNCHANGED row
    BY <1>2, <2>1, <2>2, <2>3
  <2>4. CASE CancelRuns(RunsOf(thread[t].conv))
    <3>1. \A u \in Threads : /\ IsRunner(u)' <=> IsRunner(u)
                             /\ thread'[u].exec = thread[u].exec
                             /\ thread'[u].pc = "act" => thread[u].pc = "act"
      BY <2>1, <2>2 DEF Goto, Become, TypeOK, Goroutine, IsRunner, Running
    <3>2. QED
      BY <2>2, <2>4, <3>1, CancellingStep
  <2>5. QED
    BY <1>11, <2>3, <2>4 DEF CancelForTest
<1>12. ASSUME NEW t \in Threads, InsertRun(t)
       PROVE  Safe'
  <2> DEFINE r == thread[t]
             start == StartNode(r.def)
             new == [status |-> "running", conv |-> r.conv, flow |-> r.flow, armed |-> FALSE,
                     node |-> r.def.nodes[start].id, manual |-> r.ev = NoEvent]
             next(x) == [Idle EXCEPT !.pc = "loop", !.exec = x, !.flow = r.flow, !.def = r.def,
                                     !.node = start, !.at = r.def.nodes[start].id]
  <2>1. UNCHANGED late
    BY <1>12 DEF InsertRun
  <2>2. CASE UNCHANGED row /\ Become(t, Idle)
    BY <1>1, <2>1, <2>2
  <2>3. ASSUME NEW x \in Execs, row[x].status = "absent", row' = [row EXCEPT ![x] = new],
               Become(t, next(x)), ~\E y \in RunsOf(r.conv) : IsActive(y)
        PROVE  Safe'
    <3>1. next(x).pc = "loop" /\ next(x).exec = x
      BY DEF Idle
    <3>2. r.conv \in Convs /\ r.flow \in Flows /\ r.def \in FlowDefinition /\ start \in DOMAIN r.def.nodes
      BY <1>12, StartNodeStarts DEF Known, GoroutineKnows, InsertRun, Entering
    <3>3. r.def.nodes[start].id \in Names
      BY <3>2, NodesHaveNames
    <3>4. new \in Row /\ new.status = "running" /\ new.flow \in Flows /\ new.conv = r.conv
      BY <3>2, <3>3 DEF Row, ExecStatus, Active
    <3> HIDE DEF new, next
    <3>5. QED
      BY <2>1, <2>3, <3>1, <3>4, InsertingStep
  <2>4. \/ UNCHANGED row /\ Become(t, Idle)
        \/ \E x \in Execs : /\ row[x].status = "absent" /\ row' = [row EXCEPT ![x] = new]
                             /\ Become(t, next(x)) /\ ~\E y \in RunsOf(r.conv) : IsActive(y)
    BY <1>12, Zenon DEF InsertRun
  <2>5. QED
    BY <2>2, <2>3, <2>4
<1>13. ASSUME NEW t \in Threads, IsRunner(t)
       PROVE  /\ thread[t].exec \in Execs
              /\ row[thread[t].exec].status \in {"running", "cancelled", "deleted"}
  BY <1>13 DEF Known, GoroutineKnows, Safe, OneRunnerPerRun
<1>14. ASSUME NEW t \in Threads, IsRunner(t), UNCHANGED late, Become(t, Idle),
              NEW at, NEW armed, NEW status \in ExecStatus \ {"absent"},
              Save(thread[t].exec, at, status, armed)
       PROVE  Safe'
  <2>1. SavedAs(thread[t].exec, status)
    BY <1>13, <1>14, SaveSaves
  <2>2. QED
    BY <1>14, <2>1, IdleIsQuiet, SavingStep
<1>15. {"completed", "failed", "waiting_input", "waiting_delay", "running"} \subseteq ExecStatus \ {"absent"}
  BY DEF ExecStatus, Active, Ended
<1>16. ASSUME NEW t \in Threads, Finish(t) \/ StepLimit(t) \/ Pause(t)
       PROVE  Safe'
  BY <1>14, <1>15, <1>16 DEF Finish, StepLimit, Pause, IsRunner, Running
<1>17. ASSUME NEW t \in Threads, LoadFlow(t)
       PROVE  Safe'
  <2> DEFINE r == thread[t]
             next == [r EXCEPT !.pc = "loop", !.def = Saved(r.flow), !.out = "",
                               !.node = Continuation(Saved(r.flow), FindNode(Saved(r.flow), r.at), r.out)]
  <2>1. UNCHANGED late /\ IsRunner(t)
    BY <1>17 DEF LoadFlow, IsRunner, Running
  <2>2. \/ FailRaw(r.exec) /\ Become(t, Idle)
        \/ UNCHANGED row /\ Become(t, next)
    BY <1>17, Zenon DEF LoadFlow
  <2>3. CASE FailRaw(r.exec) /\ Become(t, Idle)
    <3>1. SavedAs(r.exec, "failed")
      BY <1>13, <2>1, <2>3, FailRawSaves
    <3>2. QED
      BY <1>15, <2>1, <2>3, <3>1, IdleIsQuiet, SavingStep
  <2>4. CASE UNCHANGED row /\ Become(t, next)
    <3>1. next.pc = "loop" /\ next.exec = r.exec
      BY DEF TypeOK, Goroutine
    <3> HIDE DEF next
    <3>2. QED
      BY <2>1, <2>4, <3>1, QuietStep
  <2>5. QED
    BY <2>2, <2>3, <2>4
<1>18. ASSUME NEW t \in Threads, CheckCancelled(t)
       PROVE  Safe'
  <2> DEFINE next == [thread[t] EXCEPT !.pc = "act", !.at = NodeOf(t).id]
  <2>1. UNCHANGED <<row, late>> /\ IsRunner(t)
    BY <1>18 DEF CheckCancelled, IsRunner, Running
  <2>2. \/ Become(t, Idle)
        \/ row[thread[t].exec].status \notin {"cancelled", "deleted"} /\ Become(t, next)
    BY <1>18, Zenon DEF CheckCancelled
  <2>3. CASE row[thread[t].exec].status \notin {"cancelled", "deleted"} /\ Become(t, next)
    <3>1. next.pc = "act" /\ next.exec = thread[t].exec
      BY DEF TypeOK, Goroutine
    <3>2. late[thread[t].exec] = 0
      BY <1>13, <2>1, <2>3 DEF Safe, RowTells, IsActive, Active
    <3> HIDE DEF next
    <3>3. QED
      BY <2>1, <2>3, <3>1, <3>2, QuietStep
  <2>4. QED
    BY <1>1, <2>1, <2>2, <2>3
<1>19. ASSUME NEW t \in Threads, Advance(t)
       PROVE  Safe'
  <2> DEFINE r == thread[t]
             n == Following(r.def, r.node, r.out)
             onward == [r EXCEPT !.pc = "loop", !.node = n, !.steps = @ + 1,
                                 !.at = r.def.nodes[n].id, !.out = ""]
             nowhere == [r EXCEPT !.pc = "loop", !.node = NoNode, !.out = ""]
  <2>1. UNCHANGED late /\ IsRunner(t)
    BY <1>19 DEF Advance, IsRunner, Running
  <2>2. /\ onward.pc = "loop" /\ onward.exec = r.exec
        /\ nowhere.pc = "loop" /\ nowhere.exec = r.exec
    BY DEF TypeOK, Goroutine
  <2>3. \/ Become(t, onward) /\ Save(r.exec, r.def.nodes[n].id, "running", FALSE)
        \/ Become(t, nowhere) /\ UNCHANGED row
    BY <1>19, Zenon DEF Advance
  <2> HIDE DEF onward, nowhere
  <2>4. CASE Become(t, nowhere) /\ UNCHANGED row
    BY <2>1, <2>2, <2>4, QuietStep
  <2>5. CASE Become(t, onward) /\ Save(r.exec, r.def.nodes[n].id, "running", FALSE)
    <3>1. SavedAs(r.exec, "running")
      BY <1>13, <2>1, <2>5, SaveSaves
    <3>2. QED
      BY <1>15, <2>1, <2>2, <2>5, <3>1, SavingStep
  <2>6. QED
    BY <2>3, <2>4, <2>5
<1>20. CASE Outside
  <2>1. CASE (\E c \in Convs : CancelForConversation(c)) \/ (\E x \in Execs : CancelExecution(x))
             \/ (\E e \in Editors : StopRuns(e))
    <3>1. UNCHANGED <<thread, late>> /\ \E X : CancelRuns(X)
      BY <2>1 DEF CancelForConversation, CancelExecution, StopRuns
    <3>2. QED
      BY <3>1, CancellingStep DEF IsRunner
  <2>2. CASE (\E c \in Convs, u \in Users \cup {NoUser} : AssignUser(c, u)) \/ EditFlow
    BY <1>3, <2>2 DEF AssignUser, EditFlow, engineVars
  <2>3. CASE \E t \in Threads : Crash(t)
    BY <1>1, <2>3 DEF Crash
  <2>4. QED
    BY <1>20, <2>1, <2>2, <2>3, DeletingStep DEF Outside
<1>21. ASSUME NEW t \in Threads, RunStep(t)
       PROVE  Safe'
  BY <1>16, <1>17, <1>18, <1>19, <1>21, ActingStep DEF RunStep
<1>22. ASSUME NEW t \in Threads, Enter(t)
       PROVE  Safe'
  BY <1>7, <1>9, <1>10, <1>11, <1>12, <1>22 DEF Enter
<1>23. QED
  BY <1>4, <1>5, <1>8, <1>20, <1>21, <1>22 DEF Next, Arrive

-----------------------------------------------------------------------------
(* What a goroutine learns with each step.                                 *)

LEMMA KnowledgeStep ==
  ASSUME TypeOK, \A u \in Threads : GoroutineKnows(u), NEW t \in Threads, NEW r, Become(t, r),
         r.pc \in Entering => r.conv \in Convs,
         r.pc \in {"cancel", "insert"} =>
           r.flow \in Flows /\ r.def \in FlowDefinition /\ StartNode(r.def) # NoNode,
         r.pc \in Running => r.exec \in Execs /\ r.flow \in Flows,
         r.pc \in HasDefinition => r.def \in FlowDefinition /\ r.node \in DOMAIN r.def.nodes \cup {NoNode},
         r.pc \in {"act", "save"} => r.node # NoNode /\ r.steps < MaxSteps
  PROVE  \A u \in Threads : GoroutineKnows(u)'
<1>1. thread' = [thread EXCEPT ![t] = r] /\ DOMAIN thread = Threads
  BY DEF Become, TypeOK
<1>2. thread'[t] = r /\ \A u \in Threads : u # t => thread'[u] = thread[u]
  BY <1>1
<1>3. ASSUME NEW u \in Threads
      PROVE  GoroutineKnows(u)'
  <2>1. CASE u = t
    BY <1>2, <2>1 DEF GoroutineKnows, IsRunner
  <2>2. CASE u # t
    BY <1>2, <2>2 DEF GoroutineKnows, IsRunner
  <2>3. QED
    BY <2>1, <2>2
<1>4. QED
  BY <1>3

LEMMA EditsKnowStep ==
  ASSUME TypeOK, \A e \in Editors : EditKnows(e),
         EditorStep \/ (\E e \in Editors : EndEdit(e)) \/ (\E f \in Flows : RemoveFlow(f))
  PROVE  \A e \in Editors : EditKnows(e)'
<1> USE DEF EditKnows, TypeOK, CatalogTypeOK, Edits, NoEdit
<1>1. ASSUME NEW e \in Editors, NEW f \in Flows, NEW req \in Requests, ReadCurrent(e, f, req)
      PROVE  \A d \in Editors : EditKnows(d)'
  BY <1>1 DEF ReadCurrent
<1>2. ASSUME NEW e \in Editors, WriteFlow(e)
      PROVE  \A d \in Editors : EditKnows(d)'
  <2>1. edit' = [edit EXCEPT ![e] = NoEdit] \/ edit' = [edit EXCEPT ![e] = [edit[e] EXCEPT !.pc = "stop"]]
    BY <1>2 DEF WriteFlow
  <2>2. edit[e].flow \in Flows /\ [edit[e] EXCEPT !.pc = "stop"].flow = edit[e].flow
    BY <1>2 DEF WriteFlow
  <2> HIDE DEF CatalogTypeOK, Edits
  <2>3. NoEdit.pc = "idle"
    OBVIOUS
  <2>4. DOMAIN edit = Editors
    BY DEF CatalogTypeOK
  <2> HIDE DEF NoEdit, TypeOK
  <2>5. ASSUME NEW new, edit' = [edit EXCEPT ![e] = new], new.pc # "idle" => new.flow \in Flows
        PROVE  \A d \in Editors : EditKnows(d)'
    BY <2>4, <2>5
  <2>6. QED
    BY <2>1, <2>2, <2>3, <2>5
<1>3. ASSUME NEW e \in Editors, EndEdit(e)
      PROVE  \A d \in Editors : EditKnows(d)'
  BY <1>3 DEF EndEdit
<1>4. QED
  BY <1>1, <1>2, <1>3 DEF EditorStep, CreateFlow, RemoveFlow

LEMMA KnownStep ==
  ASSUME TypeOK, Known, Safe, Next
  PROVE  Known'
<1>1. (\A e \in Editors : EditKnows(e))'
  <2>1. CASE UNCHANGED catalogVars
    BY <2>1 DEF Known, EditKnows, catalogVars
  <2>2. CASE EditFlow \/ (\E e \in Editors : StopRuns(e)) \/ (\E f \in Flows : DeleteFlow(f))
    BY <2>2, EditsKnowStep DEF Known, EditFlow, StopRuns, DeleteFlow
  <2>3. QED
    BY <2>1, <2>2, CatalogUntouched
<1> DEFINE Learned == \A u \in Threads : GoroutineKnows(u)'
<1>2. \A u \in Threads : GoroutineKnows(u)
  BY DEF Known
<1>3. ASSUME UNCHANGED thread
      PROVE  Learned
  BY <1>2, <1>3 DEF GoroutineKnows, IsRunner
<1>4. ASSUME NEW t \in Threads, Become(t, Idle)
      PROVE  Learned
  <2>1. Idle.pc = "idle" /\ "idle" \notin Entering \cup Running \cup HasDefinition \cup {"cancel", "insert", "act", "save"}
    BY DEF Idle, Entering, Running, HasDefinition
  <2>2. QED
    BY <1>2, <1>4, <2>1, KnowledgeStep
<1>5. ASSUME NEW t \in Threads, NEW s \in {"busy", "owner", "match"}, Goto(t, s), thread[t].pc \in Entering
      PROVE  Learned
  <2>1. [thread[t] EXCEPT !.pc = s].pc = s /\ [thread[t] EXCEPT !.pc = s].conv = thread[t].conv
    BY DEF TypeOK, Goroutine
  <2>2. s \notin Running \cup HasDefinition \cup {"cancel", "insert", "act", "save"}
    BY DEF Running, HasDefinition
  <2>3. QED
    BY <1>2, <1>5, <2>1, <2>2, KnowledgeStep DEF Goto, GoroutineKnows
<1>6. ASSUME NEW t \in Handlers, NEW c \in Convs, NEW m \in Texts, Inbound(t, c, m)
      PROVE  Learned
  <2> DEFINE ev == [channel |-> m.channel, words |-> m.words, isNew |-> c \notin seen]
             r == [Idle EXCEPT !.pc = "claim", !.conv = c, !.answers = QuestionOpen(c), !.ev = ev]
  <2>1. r.pc = "claim" /\ r.conv = c
    BY DEF Idle
  <2>2. Become(t, r) /\ t \in Threads
    BY <1>6 DEF Inbound, Threads
  <2> HIDE DEF r
  <2>3. QED
    BY <1>2, <2>1, <2>2, KnowledgeStep DEF Running, HasDefinition
<1>7. ASSUME NEW t \in Handlers, NEW f \in Flows, NEW c \in Convs, ExecuteFlow(t, f, c)
      PROVE  Learned
  <2> DEFINE r == [Idle EXCEPT !.pc = "cancel", !.conv = c, !.flow = f, !.def = Saved(f)]
  <2>1. r.pc = "cancel" /\ r.conv = c /\ r.flow = f /\ r.def = Saved(f)
    BY DEF Idle
  <2>2. Become(t, r) /\ t \in Threads /\ Stored(f) /\ Saved(f).nodes # <<>>
    BY <1>7 DEF ExecuteFlow, Threads
  <2>3. Saved(f) \in FlowDefinition
    BY <2>2, SavedIsADefinition DEF TypeOK
  <2>4. StartNode(Saved(f)) # NoNode
    BY <2>2, <2>3, StartNodeStarts
  <2> HIDE DEF r
  <2>5. QED
    BY <1>2, <2>1, <2>2, <2>3, <2>4, KnowledgeStep DEF Running, HasDefinition
<1> DEFINE woken(x, reason) == [Idle EXCEPT !.pc = "load", !.exec = x, !.flow = row[x].flow,
                                            !.at = row[x].node, !.out = reason]
           waits(x) == row[x].status \in {"waiting_input", "waiting_delay"}
<1>8. ASSUME NEW t \in Threads, NEW x \in Execs, NEW reason, waits(x), Become(t, woken(x, reason))
      PROVE  Learned
  <2>1. woken(x, reason).pc = "load" /\ woken(x, reason).exec = x /\ woken(x, reason).flow = row[x].flow
    BY DEF Idle
  <2>2. row[x].flow \in Flows
    BY <1>8 DEF Safe, RowTells, IsActive, Active
  <2> HIDE DEF woken
  <2>3. QED
    BY <1>2, <1>8, <2>1, <2>2, KnowledgeStep DEF Entering, HasDefinition
<1>9. ASSUME NEW t \in Threads, ClaimWaiting(t)
      PROVE  Learned
  <2>1. CASE Goto(t, "busy")
    BY <1>5, <1>9, <2>1 DEF ClaimWaiting, Entering
  <2>2. CASE ~Goto(t, "busy")
    <3>1. PICK x \in Execs : waits(x) /\ Become(t, woken(x, "reply"))
      BY <1>9, <2>2 DEF ClaimWaiting, RunsOf
    <3> HIDE DEF Learned, woken, waits
    <3>2. QED
      BY <1>8, <1>9, <3>1
  <2>3. QED
    BY <2>1, <2>2
<1>10. ASSUME NEW x \in Execs, Wake(x)
       PROVE  Learned
  <2> DEFINE why == IF row[x].status = "waiting_input" THEN "timeout" ELSE "delay"
  <2>1. PICK t \in Timers : ResumeDue(t, x)
    BY <1>10 DEF Wake
  <2>2. waits(x) /\ t \in Threads /\ Become(t, woken(x, why))
    BY <2>1 DEF ResumeDue, IsDue, Threads
  <2> HIDE DEF why, Learned, woken, waits
  <2>3. QED
    BY <1>8, <1>10, <2>2
<1>11. ASSUME NEW t \in Threads, ReadBusy(t) \/ ReadOwner(t)
       PROVE  Learned
  <2>1. thread[t].pc \in Entering /\ (Become(t, Idle) \/ Goto(t, "owner") \/ Goto(t, "match"))
    BY <1>11 DEF ReadBusy, ReadOwner, Entering
  <2>2. QED
    BY <1>4, <1>5, <2>1
<1>12. ASSUME NEW t \in Threads, MatchFlow(t)
       PROVE  Learned
  <2> DEFINE active == {f \in Flows : flow[f].status = "active"}
             best == BestFlow([f \in active |-> Saved(f)], thread[t].ev)
             r == [thread[t] EXCEPT !.pc = "insert", !.flow = best, !.def = Saved(best)]
  <2>1. Become(t, Idle) \/ (best # 0 /\ Become(t, r))
    BY <1>12, Zenon DEF MatchFlow
  <2>2. best # 0 => /\ best \in Flows /\ Saved(best) \in FlowDefinition
                    /\ StartNode(Saved(best)) # NoNode
    BY MatchedFlowStarts DEF TypeOK
  <2> HIDE DEF best
  <2>3. r.pc = "insert" /\ r.conv = thread[t].conv /\ r.flow = best /\ r.def = Saved(best)
    BY DEF TypeOK, Goroutine
  <2>4. thread[t].conv \in Convs
    BY <1>2, <1>12 DEF MatchFlow, GoroutineKnows, Entering
  <2> HIDE DEF r
  <2>5. QED
    BY <1>2, <1>4, <2>1, <2>2, <2>3, <2>4, KnowledgeStep DEF Running, HasDefinition
<1>13. ASSUME NEW t \in Threads, CancelForTest(t)
       PROVE  Learned
  <2> DEFINE r == [thread[t] EXCEPT !.pc = "insert"]
  <2>1. Become(t, r) /\ thread[t].pc = "cancel"
    BY <1>13 DEF CancelForTest, Goto
  <2>2. r.pc = "insert" /\ r.conv = thread[t].conv /\ r.flow = thread[t].flow /\ r.def = thread[t].def
    BY DEF TypeOK, Goroutine
  <2>3. /\ thread[t].conv \in Convs /\ thread[t].flow \in Flows
        /\ thread[t].def \in FlowDefinition /\ StartNode(thread[t].def) # NoNode
    BY <1>2, <2>1 DEF GoroutineKnows, Entering
  <2> HIDE DEF r
  <2>4. QED
    BY <1>2, <2>1, <2>2, <2>3, KnowledgeStep DEF Running, HasDefinition
<1>14. ASSUME NEW t \in Threads, InsertRun(t)
       PROVE  Learned
  <2> DEFINE g == thread[t]
             start == StartNode(g.def)
             r(x) == [Idle EXCEPT !.pc = "loop", !.exec = x, !.flow = g.flow, !.def = g.def,
                                  !.node = start, !.at = g.def.nodes[start].id]
  <2>1. Become(t, Idle) \/ \E x \in Execs : Become(t, r(x))
    BY <1>14, Zenon DEF InsertRun
  <2>2. g.flow \in Flows /\ g.def \in FlowDefinition
    BY <1>2, <1>14 DEF InsertRun, GoroutineKnows
  <2>3. start \in DOMAIN g.def.nodes \cup {NoNode}
    BY <2>2, StartNodeStarts
  <2>4. ASSUME NEW x \in Execs, Become(t, r(x))
        PROVE  Learned
    <3>1. r(x).pc = "loop" /\ r(x).exec = x /\ r(x).flow = g.flow /\ r(x).def = g.def /\ r(x).node = start
      BY DEF Idle
    <3> HIDE DEF r, g, start
    <3>2. QED
      BY <1>2, <2>2, <2>3, <2>4, <3>1, KnowledgeStep DEF Entering
  <2>5. QED
    BY <1>4, <2>1, <2>4
<1>15. ASSUME NEW t \in Threads, IsRunner(t), NEW r, Become(t, r), r.pc \in HasDefinition,
              r.exec = thread[t].exec, r.flow = thread[t].flow, r.def \in FlowDefinition,
              r.node \in DOMAIN r.def.nodes \cup {NoNode},
              r.pc \in {"act", "save"} => r.node # NoNode /\ r.steps < MaxSteps
       PROVE  Learned
  <2>1. r.pc \notin Entering /\ r.pc \notin {"cancel", "insert"}
    BY <1>15 DEF Entering, HasDefinition
  <2>2. r.exec \in Execs /\ r.flow \in Flows
    BY <1>2, <1>15 DEF GoroutineKnows
  <2>3. QED
    BY <1>2, <1>15, <2>1, <2>2, KnowledgeStep
<1>16. ASSUME NEW t \in Threads, LoadFlow(t)
       PROVE  Learned
  <2> DEFINE g == thread[t]
             n == FindNode(Saved(g.flow), g.at)
             next == Continuation(Saved(g.flow), n, g.out)
             r == [g EXCEPT !.pc = "loop", !.def = Saved(g.flow), !.out = "", !.node = next]
  <2>1. Become(t, Idle) \/ (Stored(g.flow) /\ n # NoNode /\ Become(t, r))
    BY <1>16, Zenon DEF LoadFlow
  <2>2. IsRunner(t) /\ g.flow \in Flows
    BY <1>2, <1>16 DEF LoadFlow, IsRunner, Running, GoroutineKnows
  <2>3. Stored(g.flow) /\ n # NoNode =>
          Saved(g.flow) \in FlowDefinition /\ next \in DOMAIN Saved(g.flow).nodes \cup {NoNode}
    <3>1. SUFFICES ASSUME Stored(g.flow), n # NoNode
                   PROVE  Saved(g.flow) \in FlowDefinition /\ next \in DOMAIN Saved(g.flow).nodes \cup {NoNode}
      OBVIOUS
    <3>2. Saved(g.flow) \in FlowDefinition
      BY <2>2, <3>1, SavedIsADefinition DEF TypeOK
    <3>3. n \in DOMAIN Saved(g.flow).nodes
      BY <3>1, <3>2, FindNodeFinds
    <3>4. QED
      BY <3>2, <3>3, ContinuationIsAPosition
  <2> HIDE DEF n, next
  <2>4. r.pc = "loop" /\ r.exec = g.exec /\ r.flow = g.flow /\ r.def = Saved(g.flow) /\ r.node = next
    BY DEF TypeOK, Goroutine
  <2>5. "loop" \in HasDefinition
    BY DEF HasDefinition
  <2> HIDE DEF r
  <2>6. QED
    BY <1>4, <1>15, <2>1, <2>2, <2>3, <2>4, <2>5
<1>17. ASSUME NEW t \in Threads, thread[t].pc \in HasDefinition
       PROVE  /\ IsRunner(t)
              /\ thread[t].def \in FlowDefinition
              /\ thread[t].node \in DOMAIN thread[t].def.nodes \cup {NoNode}
  BY <1>2, <1>17 DEF GoroutineKnows, HasDefinition, IsRunner, Running
<1>18. ASSUME NEW t \in Threads, CheckCancelled(t)
       PROVE  Learned
  <2> DEFINE r == [thread[t] EXCEPT !.pc = "act", !.at = NodeOf(t).id]
  <2>1. Become(t, Idle) \/ Become(t, r)
    BY <1>18, Zenon DEF CheckCancelled
  <2>2. thread[t].pc \in HasDefinition /\ thread[t].node # NoNode /\ thread[t].steps < MaxSteps
    BY <1>18 DEF CheckCancelled, HasDefinition
  <2>3. /\ r.pc = "act" /\ r.exec = thread[t].exec /\ r.flow = thread[t].flow /\ r.def = thread[t].def
        /\ r.node = thread[t].node /\ r.steps = thread[t].steps
    BY DEF TypeOK, Goroutine
  <2>4. "act" \in HasDefinition
    BY DEF HasDefinition
  <2> HIDE DEF r
  <2>5. QED
    BY <1>4, <1>15, <1>17, <2>1, <2>2, <2>3, <2>4
<1>19. ASSUME NEW t \in Threads, NEW out, NEW u, RunNode(t, out, u)
       PROVE  Learned
  <2> DEFINE r == [thread[t] EXCEPT !.pc = "save", !.out = out]
  <2>1. Become(t, r)
    BY <1>19 DEF RunNode
  <2>2. thread[t].pc \in HasDefinition /\ thread[t].node # NoNode /\ thread[t].steps < MaxSteps
    BY <1>2, <1>19 DEF RunNode, HasDefinition, GoroutineKnows
  <2>3. /\ r.pc = "save" /\ r.exec = thread[t].exec /\ r.flow = thread[t].flow /\ r.def = thread[t].def
        /\ r.node = thread[t].node /\ r.steps = thread[t].steps
    BY DEF TypeOK, Goroutine
  <2>4. "save" \in HasDefinition
    BY DEF HasDefinition
  <2> HIDE DEF r
  <2>5. QED
    BY <1>15, <1>17, <2>1, <2>2, <2>3, <2>4
<1>20. ASSUME NEW t \in Threads, Advance(t)
       PROVE  Learned
  <2> DEFINE g == thread[t]
             n == Following(g.def, g.node, g.out)
             onward == [g EXCEPT !.pc = "loop", !.node = n, !.steps = @ + 1,
                                 !.at = g.def.nodes[n].id, !.out = ""]
             nowhere == [g EXCEPT !.pc = "loop", !.node = NoNode, !.out = ""]
  <2>1. Become(t, onward) \/ Become(t, nowhere)
    BY <1>20, Zenon DEF Advance
  <2>2. /\ g.pc \in HasDefinition /\ IsRunner(t) /\ g.def \in FlowDefinition
        /\ g.node \in DOMAIN g.def.nodes
    BY <1>2, <1>17, <1>20 DEF Advance, HasDefinition, GoroutineKnows
  <2>3. n \in DOMAIN g.def.nodes \cup {NoNode}
    BY <2>2, FollowingIsAPosition
  <2> HIDE DEF n
  <2>4. /\ onward.pc = "loop" /\ onward.exec = g.exec /\ onward.flow = g.flow
        /\ onward.def = g.def /\ onward.node = n
        /\ nowhere.pc = "loop" /\ nowhere.exec = g.exec /\ nowhere.flow = g.flow
        /\ nowhere.def = g.def /\ nowhere.node = NoNode
    BY DEF TypeOK, Goroutine
  <2>5. "loop" \in HasDefinition
    BY DEF HasDefinition
  <2> HIDE DEF onward, nowhere
  <2>6. QED
    BY <1>15, <2>1, <2>2, <2>3, <2>4, <2>5
<1> HIDE DEF Learned
<1>21. ASSUME NEW t \in Threads, RunStep(t)
       PROVE  Learned
  <2>1. CASE Finish(t) \/ StepLimit(t) \/ Pause(t)
    BY <1>4, <2>1 DEF Finish, StepLimit, Pause
  <2>2. QED
    BY <1>16, <1>18, <1>19, <1>20, <1>21, <2>1 DEF RunStep
<1>22. ASSUME NEW t \in Threads, Enter(t)
       PROVE  Learned
  BY <1>9, <1>11, <1>12, <1>13, <1>14, <1>22 DEF Enter
<1>23. ASSUME Outside
       PROVE  Learned
  BY <1>3, <1>4, <1>23 DEF Outside, CancelForConversation, CancelExecution, AssignUser, EditFlow, StopRuns,
                         DeleteFlow, Crash, engineVars
<1>24. Learned
  BY <1>6, <1>7, <1>10, <1>21, <1>22, <1>23 DEF Next, Arrive
<1>25. QED
  BY <1>1, <1>24 DEF Known, Learned

LEMMA IndStep ==
  ASSUME IndInv, [Next]_vars
  PROVE  IndInv'
<1>1. TypeOK'
  BY TypeStep DEF IndInv
<1>2. CASE UNCHANGED vars
  BY <1>1, <1>2 DEF IndInv, vars, Known, GoroutineKnows, EditKnows, IsRunner, Safe, RowTells, OneRunnerPerRun,
                    OneBotPerConversation, CheckedIsClean, AtMostOneLateNode, IsActive
<1>3. CASE Next
  BY <1>1, <1>3, KnownStep, SafeStep DEF IndInv
<1>4. QED
  BY <1>2, <1>3

LEMMA EngineIndInv == Spec => []IndInv
BY KnownInit, IndStep, PTL DEF Spec

(* Every variable of the engine keeps its type.                            *)
THEOREM EngineTypeCorrect == Spec => []TypeOK
<1>1. IndInv => TypeOK
  BY DEF IndInv
<1>2. QED
  BY <1>1, EngineIndInv, PTL

(* The unique index and ON CONFLICT keep two bots off a conversation.      *)
THEOREM OneBot == Spec => []OneBotPerConversation
<1>1. IndInv => OneBotPerConversation
  BY DEF IndInv, Safe
<1>2. QED
  BY <1>1, EngineIndInv, PTL

(* Reply, timeout, delay and replicas never continue a run twice.          *)
THEOREM OneRunner == Spec => []OneRunnerPerRun
<1>1. IndInv => OneRunnerPerRun
  BY DEF IndInv, Safe
<1>2. QED
  BY <1>1, EngineIndInv, PTL

(* The check before each node bounds what a cancelled run still does.      *)
THEOREM OneLateNode == Spec => []AtMostOneLateNode
<1>1. IndInv => AtMostOneLateNode
  BY DEF IndInv, Safe
<1>2. QED
  BY <1>1, EngineIndInv, PTL

-----------------------------------------------------------------------------
(* A run that is running has a runner.  While nothing has failed every     *)
(* statement succeeds, so a goroutine lets go of a run only with the       *)
(* statement that takes it out of "running", or once it was ended.         *)

LEMMA StatementSucceeds ==
  ASSUME TypeOK, faults' = 0, NEW ok \in BOOLEAN, Statement(ok)
  PROVE  ok /\ faults = 0
  BY DEF Statement, TypeOK

LEMMA RunnersRemain ==
  ASSUME TypeOK, faults = 0, OrphansComeFromFaults, NEW t \in Threads, NEW r, Become(t, r),
         \A x \in Execs : row'[x].status = "running" =>
           \/ r.pc \in Running /\ r.exec = x
           \/ row[x].status = "running" /\ (IsRunner(t) => thread[t].exec # x)
  PROVE  OrphansComeFromFaults'
<1>1. /\ thread'[t] = r
      /\ \A u \in Threads : u # t => thread'[u] = thread[u]
  BY DEF Become, TypeOK
<1>2. ASSUME NEW x \in Execs, row'[x].status = "running"
      PROVE  \E u \in Threads : IsRunner(u)' /\ thread'[u].exec = x
  <2>1. CASE r.pc \in Running /\ r.exec = x
    BY <1>1, <2>1 DEF IsRunner
  <2>2. CASE row[x].status = "running" /\ (IsRunner(t) => thread[t].exec # x)
    <3>1. PICK u \in Threads : IsRunner(u) /\ thread[u].exec = x
      BY <2>2 DEF OrphansComeFromFaults
    <3>2. u # t
      BY <2>2, <3>1
    <3>3. QED
      BY <1>1, <3>1, <3>2 DEF IsRunner
  <2>3. QED
    BY <1>2, <2>1, <2>2
<1>3. QED
  BY <1>2 DEF OrphansComeFromFaults

LEMMA SaveTakesOut ==
  ASSUME TypeOK, faults' = 0, NEW x \in Execs, NEW at, NEW status, NEW armed,
         Save(x, at, status, armed)
  PROVE  /\ faults = 0
         /\ \A y \in Execs : y # x => row'[y] = row[y]
         /\ row'[x].status = "running" => row[x].status = "running" \/ status = "running"
         /\ status # "running" => row'[x].status # "running"
<1>1. PICK ok \in BOOLEAN : /\ Statement(ok)
                            /\ row' = IF ok /\ Writable(x)
                                      THEN [row EXCEPT ![x] = [@ EXCEPT !.status = status, !.node = at,
                                                                        !.armed = armed]]
                                      ELSE row
  BY Zenon DEF Save
<1>2. ok /\ faults = 0
  BY <1>1, StatementSucceeds
<1>3. row[x] \in Row /\ DOMAIN row = Execs
  BY DEF TypeOK
<1>4. CASE Writable(x)
  BY <1>1, <1>2, <1>3, <1>4 DEF Row
<1>5. CASE ~Writable(x)
  BY <1>1, <1>2, <1>5 DEF Writable
<1>6. QED
  BY <1>4, <1>5

LEMMA FailRawTakesOut ==
  ASSUME TypeOK, faults' = 0, NEW x \in Execs, FailRaw(x)
  PROVE  /\ faults = 0
         /\ \A y \in Execs : y # x => row'[y] = row[y]
         /\ row'[x].status # "running"
<1>1. PICK ok \in BOOLEAN :
        /\ Statement(ok)
        /\ row' = IF ok /\ Writable(x) THEN [row EXCEPT ![x].status = "failed"] ELSE row
  BY Zenon DEF FailRaw
<1>2. ok /\ faults = 0
  BY <1>1, StatementSucceeds
<1>3. row[x] \in Row /\ DOMAIN row = Execs
  BY DEF TypeOK
<1>4. CASE Writable(x)
  BY <1>1, <1>2, <1>3, <1>4 DEF Row
<1>5. CASE ~Writable(x)
  BY <1>1, <1>2, <1>5 DEF Writable
<1>6. QED
  BY <1>4, <1>5

LEMMA CancelRunsTakesOut ==
  ASSUME TypeOK, NEW X, CancelRuns(X)
  PROVE  \A x \in Execs : row'[x].status = "running" => row[x].status = "running"
<1>1. \A x \in Execs : row[x] \in Row
  BY DEF TypeOK
<1>2. QED
  BY <1>1 DEF CancelRuns, Row

(* A waiting row is claimed, and who claims it becomes its runner.         *)
Claims(x) == row' = [row EXCEPT ![x] = [@ EXCEPT !.status = "running", !.armed = FALSE]]
Woken(x, why) ==
  [Idle EXCEPT !.pc = "load", !.exec = x, !.flow = row[x].flow, !.at = row[x].node, !.out = why]

LEMMA RunnersStep ==
  ASSUME TypeOK, Known, Safe, OrphansComeFromFaults, Next
  PROVE  OrphansComeFromFaults'
<1> SUFFICES ASSUME faults' = 0 PROVE OrphansComeFromFaults'
  <2>1. TypeOK'
    BY TypeStep
  <2>2. CASE faults' > 0
    BY <2>2 DEF OrphansComeFromFaults
  <2>3. QED
    BY <2>1, <2>2 DEF TypeOK
<1>1. ASSUME NEW t \in Threads, faults = 0, ~IsRunner(t), NEW r, Become(t, r),
             \A x \in Execs : row'[x].status = "running" => row[x].status = "running"
      PROVE  OrphansComeFromFaults'
  BY <1>1, RunnersRemain
<1>2. ASSUME NEW t \in Threads, faults = 0, ~IsRunner(t), NEW r, Become(t, r), NEW x \in Execs,
             r.pc \in Running, r.exec = x, \A y \in Execs : y # x => row'[y] = row[y]
      PROVE  OrphansComeFromFaults'
  BY <1>2, RunnersRemain
<1>3. ASSUME NEW t \in Threads, faults = 0, NEW r, Become(t, r), r.pc \in Running,
             r.exec = thread[t].exec, thread[t].exec \in Execs,
             \A y \in Execs : y # thread[t].exec => row'[y] = row[y]
      PROVE  OrphansComeFromFaults'
  BY <1>3, RunnersRemain
<1>4. ASSUME NEW t \in Threads, faults = 0, NEW r, Become(t, r), thread[t].exec \in Execs,
             \A y \in Execs : y # thread[t].exec => row'[y] = row[y],
             row'[thread[t].exec].status # "running"
      PROVE  OrphansComeFromFaults'
  BY <1>4, RunnersRemain
<1>5. ASSUME UNCHANGED thread, faults = 0,
             \A x \in Execs : row'[x].status = "running" => row[x].status = "running"
      PROVE  OrphansComeFromFaults'
  BY <1>5 DEF OrphansComeFromFaults, IsRunner
<1>6. ASSUME NEW t \in Threads, NEW r, Become(t, r), ~IsRunner(t), UNCHANGED <<row, faults>>
      PROVE  OrphansComeFromFaults'
  BY <1>1, <1>6
<1>7. CASE Arrive
  <2>1. ASSUME NEW t \in Handlers, NEW c \in Convs, NEW m \in Texts, Inbound(t, c, m)
        PROVE  OrphansComeFromFaults'
    BY <1>6, <2>1, Zenon DEF Inbound, Threads, IsRunner, Running
  <2>2. ASSUME NEW t \in Handlers, NEW f \in Flows, NEW c \in Convs, ExecuteFlow(t, f, c)
        PROVE  OrphansComeFromFaults'
    BY <1>6, <2>2, Zenon DEF ExecuteFlow, Threads, IsRunner, Running
  <2>3. QED
    BY <1>7, <2>1, <2>2 DEF Arrive
<1>8. ASSUME NEW t \in Threads, NEW x \in Execs, NEW why, thread[t].pc \in {"idle", "claim"}, UNCHANGED faults,
             Claims(x), Become(t, Woken(x, why))
      PROVE  OrphansComeFromFaults'
  <2>1. Woken(x, why).pc \in Running /\ Woken(x, why).exec = x /\ ~IsRunner(t)
    BY <1>8 DEF Idle, Running, IsRunner, Woken
  <2>2. \A y \in Execs : y # x => row'[y] = row[y]
    BY <1>8 DEF TypeOK, Claims
  <2>3. QED
    BY <1>2, <1>8, <2>1, <2>2
<1>9. ASSUME NEW x \in Execs, Wake(x)
      PROVE  OrphansComeFromFaults'
  <2>1. PICK t \in Timers : ResumeDue(t, x)
    BY <1>9 DEF Wake
  <2>2. t \in Threads /\ UNCHANGED faults /\ thread[t].pc \in {"idle", "claim"}
    BY <2>1, Zenon DEF ResumeDue, Threads
  <2>3. Claims(x) /\ \E why : Become(t, Woken(x, why))
    BY <2>1, Zenon DEF ResumeDue, Claims, Woken
  <2>4. QED
    BY <1>8, <2>2, <2>3
<1>10. ASSUME NEW t \in Threads, ClaimWaiting(t)
       PROVE  OrphansComeFromFaults'
  <2>1. thread[t].pc = "claim" /\ ~IsRunner(t)
    BY <1>10 DEF ClaimWaiting, IsRunner, Running
  <2>2. CASE UNCHANGED row /\ Goto(t, "busy") /\ \E ok \in BOOLEAN : Statement(ok)
    <3>1. faults = 0
      BY <2>2, StatementSucceeds
    <3>2. QED
      BY <1>1, <2>1, <2>2, <3>1 DEF Goto
  <2>3. CASE ~(UNCHANGED row /\ Goto(t, "busy") /\ \E ok \in BOOLEAN : Statement(ok))
    <3>1. PICK x \in RunsOf(thread[t].conv) :
            Claims(x) /\ Become(t, Woken(x, "reply")) /\ UNCHANGED faults
      BY <1>10, <2>3, Zenon DEF ClaimWaiting, Claims, Woken
    <3>2. x \in Execs /\ thread[t].pc \in {"idle", "claim"}
      BY <2>1, <3>1 DEF RunsOf
    <3>3. QED
      BY <1>8, <3>1, <3>2
  <2>4. QED
    BY <2>2, <2>3
<1>11. ASSUME NEW t \in Threads, ReadBusy(t) \/ ReadOwner(t) \/ MatchFlow(t)
       PROVE  OrphansComeFromFaults'
  <2>1. ~IsRunner(t) /\ UNCHANGED row
    BY <1>11 DEF ReadBusy, ReadOwner, MatchFlow, IsRunner, Running
  <2>2. \E ok \in BOOLEAN : Statement(ok)
    BY <1>11, Zenon DEF ReadBusy, ReadOwner, MatchFlow
  <2>3. \E r : Become(t, r)
    BY <1>11, Zenon DEF ReadBusy, ReadOwner, MatchFlow, Goto
  <2>4. faults = 0
    BY <2>2, StatementSucceeds
  <2>5. QED
    BY <1>1, <2>1, <2>3, <2>4
<1>12. ASSUME NEW t \in Threads, CancelForTest(t)
       PROVE  OrphansComeFromFaults'
  <2>1. ~IsRunner(t) /\ \E r : Become(t, r)
    BY <1>12 DEF CancelForTest, IsRunner, Running, Goto
  <2>2. PICK ok \in BOOLEAN : /\ Statement(ok)
                              /\ IF ok THEN CancelRuns(RunsOf(thread[t].conv)) ELSE UNCHANGED row
    BY <1>12 DEF CancelForTest
  <2>3. faults = 0 /\ CancelRuns(RunsOf(thread[t].conv))
    BY <2>2, StatementSucceeds
  <2>4. QED
    BY <1>1, <2>1, <2>3, CancelRunsTakesOut
<1>13. ASSUME NEW t \in Threads, InsertRun(t)
       PROVE  OrphansComeFromFaults'
  <2> DEFINE r == thread[t]
             start == StartNode(r.def)
             new == [status |-> "running", conv |-> r.conv, flow |-> r.flow, armed |-> FALSE,
                     node |-> r.def.nodes[start].id, manual |-> r.ev = NoEvent]
             next(x) == [Idle EXCEPT !.pc = "loop", !.exec = x, !.flow = r.flow, !.def = r.def,
                                     !.node = start, !.at = r.def.nodes[start].id]
  <2>1. ~IsRunner(t)
    BY <1>13 DEF InsertRun, IsRunner, Running
  <2>2. \/ UNCHANGED row /\ Become(t, Idle) /\ \E ok \in BOOLEAN : Statement(ok)
        \/ UNCHANGED faults /\ \E x \in Execs : row' = [row EXCEPT ![x] = new] /\ Become(t, next(x))
    BY <1>13, Zenon DEF InsertRun
  <2>3. CASE UNCHANGED row /\ Become(t, Idle) /\ \E ok \in BOOLEAN : Statement(ok)
    BY <1>1, <2>1, <2>3, StatementSucceeds
  <2>4. ASSUME UNCHANGED faults, NEW x \in Execs, row' = [row EXCEPT ![x] = new], Become(t, next(x))
        PROVE  OrphansComeFromFaults'
    <3>1. next(x).pc \in Running /\ next(x).exec = x
      BY DEF Idle, Running
    <3>2. \A y \in Execs : y # x => row'[y] = row[y]
      BY <2>4 DEF TypeOK
    <3> HIDE DEF new, next
    <3>3. QED
      BY <1>2, <2>1, <2>4, <3>1, <3>2
  <2>5. QED
    BY <2>2, <2>3, <2>4
<1>14. ASSUME NEW t \in Threads, IsRunner(t)
       PROVE  thread[t].exec \in Execs
  BY <1>14 DEF Known, GoroutineKnows
<1>15. ASSUME NEW t \in Threads, IsRunner(t), Become(t, Idle), NEW at, NEW armed,
              NEW status, status # "running", Save(thread[t].exec, at, status, armed)
       PROVE  OrphansComeFromFaults'
  BY <1>4, <1>14, <1>15, SaveTakesOut
<1>16. ASSUME NEW t \in Threads, Finish(t) \/ StepLimit(t) \/ Pause(t)
       PROVE  OrphansComeFromFaults'
  BY <1>15, <1>16 DEF Finish, StepLimit, Pause, IsRunner, Running
<1>17. ASSUME NEW t \in Threads, LoadFlow(t)
       PROVE  OrphansComeFromFaults'
  <2> DEFINE r == thread[t]
             next == [r EXCEPT !.pc = "loop", !.def = Saved(r.flow), !.out = "",
                               !.node = Continuation(Saved(r.flow), FindNode(Saved(r.flow), r.at), r.out)]
  <2>1. IsRunner(t)
    BY <1>17 DEF LoadFlow, IsRunner, Running
  <2>2. \/ FailRaw(r.exec) /\ Become(t, Idle)
        \/ UNCHANGED <<row, faults>> /\ Become(t, next)
    BY <1>17, Zenon DEF LoadFlow
  <2>3. CASE FailRaw(r.exec) /\ Become(t, Idle)
    BY <1>4, <1>14, <2>1, <2>3, FailRawTakesOut
  <2>4. CASE UNCHANGED <<row, faults>> /\ Become(t, next)
    <3>1. next.pc \in Running /\ next.exec = r.exec
      BY DEF TypeOK, Goroutine, Running
    <3> HIDE DEF next
    <3>2. QED
      BY <1>3, <1>14, <2>1, <2>4, <3>1
  <2>5. QED
    BY <2>2, <2>3, <2>4
<1>18. ASSUME NEW t \in Threads, CheckCancelled(t)
       PROVE  OrphansComeFromFaults'
  <2> DEFINE next == [thread[t] EXCEPT !.pc = "act", !.at = NodeOf(t).id]
  <2>1. UNCHANGED row /\ IsRunner(t)
    BY <1>18 DEF CheckCancelled, IsRunner, Running
  <2>2. PICK ok \in BOOLEAN :
          /\ Statement(ok)
          /\ IF ok /\ row[thread[t].exec].status \notin {"cancelled", "deleted"}
             THEN Become(t, next) ELSE Become(t, Idle)
    BY <1>18, Zenon DEF CheckCancelled
  <2>3. ok /\ faults = 0
    BY <2>2, StatementSucceeds
  <2>4. CASE row[thread[t].exec].status \notin {"cancelled", "deleted"}
    <3>1. next.pc \in Running /\ next.exec = thread[t].exec
      BY DEF TypeOK, Goroutine, Running
    <3>2. Become(t, next)
      BY <2>2, <2>3, <2>4
    <3> HIDE DEF next
    <3>3. QED
      BY <1>3, <1>14, <2>1, <2>3, <3>1, <3>2
  <2>5. CASE row[thread[t].exec].status \in {"cancelled", "deleted"}
    <3>1. Become(t, Idle)
      BY <2>2, <2>5
    <3>2. QED
      BY <1>4, <1>14, <2>1, <2>3, <2>5, <3>1
  <2>6. QED
    BY <2>4, <2>5
<1>19. ASSUME NEW t \in Threads, NEW out, NEW u, RunNode(t, out, u)
       PROVE  OrphansComeFromFaults'
  <2> DEFINE next == [thread[t] EXCEPT !.pc = "save", !.out = out]
  <2>1. UNCHANGED <<row, faults>> /\ IsRunner(t) /\ Become(t, next)
    BY <1>19 DEF RunNode, IsRunner, Running
  <2>2. next.pc \in Running /\ next.exec = thread[t].exec
    BY DEF TypeOK, Goroutine, Running
  <2> HIDE DEF next
  <2>3. QED
    BY <1>3, <1>14, <2>1, <2>2
<1>20. ASSUME NEW t \in Threads, Advance(t)
       PROVE  OrphansComeFromFaults'
  <2> DEFINE r == thread[t]
             n == Following(r.def, r.node, r.out)
             onward == [r EXCEPT !.pc = "loop", !.node = n, !.steps = @ + 1,
                                 !.at = r.def.nodes[n].id, !.out = ""]
             nowhere == [r EXCEPT !.pc = "loop", !.node = NoNode, !.out = ""]
  <2>1. IsRunner(t)
    BY <1>20 DEF Advance, IsRunner, Running
  <2>2. /\ onward.pc \in Running /\ onward.exec = r.exec
        /\ nowhere.pc \in Running /\ nowhere.exec = r.exec
    BY DEF TypeOK, Goroutine, Running
  <2>3. \/ Become(t, onward) /\ Save(r.exec, r.def.nodes[n].id, "running", FALSE)
        \/ Become(t, nowhere) /\ UNCHANGED <<row, faults>>
    BY <1>20, Zenon DEF Advance
  <2> HIDE DEF onward, nowhere
  <2>4. CASE Become(t, nowhere) /\ UNCHANGED <<row, faults>>
    BY <1>3, <1>14, <2>1, <2>2, <2>4
  <2>5. CASE Become(t, onward) /\ Save(r.exec, r.def.nodes[n].id, "running", FALSE)
    BY <1>3, <1>14, <2>1, <2>2, <2>5, SaveTakesOut
  <2>6. QED
    BY <2>3, <2>4, <2>5
<1>21. CASE Outside
  <2>1. CASE (\E c \in Convs : CancelForConversation(c)) \/ (\E x \in Execs : CancelExecution(x))
             \/ (\E e \in Editors : StopRuns(e))
    <3>1. UNCHANGED <<thread, faults>> /\ \E X : CancelRuns(X)
      BY <2>1 DEF CancelForConversation, CancelExecution, StopRuns
    <3>2. QED
      BY <1>5, <3>1, CancelRunsTakesOut
  <2>2. CASE (\E c \in Convs, u \in Users \cup {NoUser} : AssignUser(c, u)) \/ EditFlow
    BY <1>5, <2>2 DEF AssignUser, EditFlow, engineVars
  <2>3. ASSUME NEW t \in Threads, Crash(t)
        PROVE  OrphansComeFromFaults'
    <3>1. Statement(FALSE)
      BY <2>3 DEF Crash
    <3>2. QED
      BY <3>1, StatementSucceeds
  <2>4. ASSUME NEW f \in Flows, DeleteFlow(f)
        PROVE  OrphansComeFromFaults'
    <3>1. UNCHANGED <<thread, faults>>
      BY <2>4 DEF DeleteFlow
    <3>2. \A x \in Execs : row[x] \in Row
      BY DEF TypeOK
    <3>3. \A x \in Execs : row'[x].status = "running" => row[x].status = "running"
      BY <2>4, <3>2 DEF DeleteFlow, Row
    <3>4. QED
      BY <1>5, <3>1, <3>3
  <2>5. QED
    BY <1>21, <2>1, <2>2, <2>3, <2>4 DEF Outside
<1>22. ASSUME NEW t \in Threads, RunStep(t)
       PROVE  OrphansComeFromFaults'
  BY <1>16, <1>17, <1>18, <1>19, <1>20, <1>22 DEF RunStep
<1>23. ASSUME NEW t \in Threads, Enter(t)
       PROVE  OrphansComeFromFaults'
  BY <1>10, <1>11, <1>12, <1>13, <1>23 DEF Enter
<1>24. QED
  BY <1>7, <1>9, <1>21, <1>22, <1>23 DEF Next

(* A run is left running with nobody to run it only by a fault: every      *)
(* other way out of runFrom writes the row first.                          *)
THEOREM OrphanedRunsComeFromFaults == Spec => []OrphansComeFromFaults
<1>1. Init => OrphansComeFromFaults
  <2>1. NoRow.status # "running"
    BY Zenon DEF NoRow
  <2>2. QED
    BY <2>1 DEF Init, OrphansComeFromFaults
<1>2. IndInv /\ OrphansComeFromFaults /\ [Next]_vars => OrphansComeFromFaults'
  <2>1. CASE UNCHANGED vars
    BY <2>1 DEF vars, OrphansComeFromFaults, IsRunner
  <2>2. QED
    BY <2>1, RunnersStep DEF IndInv
<1>3. QED
  BY <1>1, <1>2, EngineIndInv, PTL DEF Spec

-----------------------------------------------------------------------------
(* What a step may do to the rows and the late nodes, at most one of:      *)

Claimed(x) ==
  /\ row[x].status \in {"waiting_input", "waiting_delay"}
  /\ row'[x].status = "running" /\ row'[x].conv = row[x].conv
  /\ \A y \in Execs : y # x => row'[y] = row[y]

Inserted(x, c) ==
  /\ row[x].status = "absent"
  /\ \A y \in Execs : IsActive(y) => row[y].conv # c
  /\ row'[x].status = "running" /\ row'[x].conv = c
  /\ \A y \in Execs : y # x => row'[y] = row[y]

(* Runs are ended together: what was active is over, what was over too.    *)
EndedTogether(X) ==
  /\ \A x \in X : row[x].status # "absent"
  /\ \A x \in X : row'[x].status \in {"cancelled", "deleted"} /\ row'[x].conv = row[x].conv
  /\ \A x \in X : row[x].status \in Ended => row'[x].status = "deleted"
  /\ \A y \in Execs \ X : row'[y] = row[y]

TookEffectLate(x) ==
  /\ row' = row
  /\ row[x].status \in Ended
  /\ late[x] = 0
  /\ late' = [late EXCEPT ![x] = 1]

Saving == {"completed", "failed", "waiting_input", "waiting_delay", "running"}

RowsMove ==
  \/ UNCHANGED <<row, late>>
  \/ \E x \in Execs : TookEffectLate(x)
  \/ /\ UNCHANGED late
     /\ \/ \E x \in Execs : Claimed(x)
        \/ \E x \in Execs, c \in Convs : Inserted(x, c)
        \/ \E x \in Execs, status \in Saving : SavedAs(x, status)
        \/ \E X \in SUBSET Execs : EndedTogether(X)

LEMMA CancelledTogether ==
  ASSUME TypeOK, NEW X \in SUBSET Execs, CancelRuns(X)
  PROVE  \E Y \in SUBSET Execs : EndedTogether(Y)
<1> DEFINE Y == {x \in X : IsActive(x)}
<1>1. \A y \in Execs : row'[y] = IF y \in Y THEN [row[y] EXCEPT !.status = "cancelled", !.armed = FALSE]
                                           ELSE row[y]
  BY DEF CancelRuns
<1>2. \A y \in Execs : row[y] \in Row
  BY DEF TypeOK
<1>3. EndedTogether(Y)
  BY <1>1, <1>2 DEF EndedTogether, IsActive, Active, Ended, Row
<1>4. QED
  BY <1>3

LEMMA RowsMoveStep ==
  ASSUME TypeOK, Known, Safe, Next
  PROVE  RowsMove
<1>1. CASE Arrive
  BY <1>1 DEF Arrive, Inbound, ExecuteFlow, RowsMove
<1>2. ASSUME NEW t \in Threads, Enter(t)
      PROVE  RowsMove
  <2>1. CASE ClaimWaiting(t)
    <3>1. ASSUME NEW x \in Execs, row[x].status = "waiting_input",
                 row' = [row EXCEPT ![x] = [@ EXCEPT !.status = "running", !.armed = FALSE]]
          PROVE  Claimed(x)
      <4>1. row[x] \in Row /\ DOMAIN row = Execs
        BY DEF TypeOK
      <4>2. QED
        BY <3>1, <4>1 DEF Claimed, Row
    <3>2. QED
      BY <2>1, <3>1 DEF ClaimWaiting, RunsOf, RowsMove
  <2>2. CASE ReadBusy(t) \/ ReadOwner(t) \/ MatchFlow(t)
    BY <2>2 DEF ReadBusy, ReadOwner, MatchFlow, RowsMove
  <2>3. CASE CancelForTest(t)
    <3>1. RunsOf(thread[t].conv) \in SUBSET Execs
      BY DEF RunsOf
    <3>2. QED
      BY <2>3, <3>1, CancelledTogether DEF CancelForTest, RowsMove
  <2>4. CASE InsertRun(t)
    <3> DEFINE c == thread[t].conv
    <3>1. c \in Convs
      BY <2>4 DEF InsertRun, Known, GoroutineKnows, Entering
    <3>2. ASSUME NEW x \in Execs, NEW f, NEW n, NEW m, row[x].status = "absent",
                 ~\E y \in RunsOf(c) : IsActive(y),
                 row' = [row EXCEPT ![x] = [status |-> "running", conv |-> c, flow |-> f,
                                            armed |-> FALSE, node |-> n, manual |-> m]]
          PROVE  Inserted(x, c)
      <4>1. DOMAIN row = Execs
        BY DEF TypeOK
      <4>2. \A y \in Execs : IsActive(y) => row[y].conv # c
        BY <3>2 DEF RunsOf, IsActive, Active
      <4>3. QED
        BY <3>2, <4>1, <4>2 DEF Inserted
    <3>3. UNCHANGED late
      BY <2>4 DEF InsertRun
    <3>4. \/ UNCHANGED row
          \/ \E x \in Execs :
               /\ row[x].status = "absent" /\ ~\E y \in RunsOf(c) : IsActive(y)
               /\ row' = [row EXCEPT ![x] = [status |-> "running", conv |-> c, flow |-> thread[t].flow,
                    armed |-> FALSE, node |-> thread[t].def.nodes[StartNode(thread[t].def)].id,
                    manual |-> thread[t].ev = NoEvent]]
      BY <2>4, Zenon DEF InsertRun
    <3> HIDE DEF c
    <3>5. UNCHANGED row \/ \E x \in Execs : Inserted(x, c)
      BY <3>2, <3>4
    <3>6. QED
      BY <3>1, <3>3, <3>5 DEF RowsMove
  <2>5. QED
    BY <1>2, <2>1, <2>2, <2>3, <2>4 DEF Enter
<1>3. ASSUME NEW t \in Threads, RunStep(t)
      PROVE  RowsMove
  <2> DEFINE x == thread[t].exec
  <2>1. IsRunner(t) /\ x \in Execs /\ row[x].status \in {"running", "cancelled", "deleted"}
    <3>1. IsRunner(t)
      BY <1>3 DEF RunStep, LoadFlow, Finish, StepLimit, CheckCancelled, RunNode, Pause, Advance, IsRunner, Running
    <3>2. QED
      BY <3>1 DEF Known, GoroutineKnows, Safe, OneRunnerPerRun
  <2>2. CASE CheckCancelled(t)
    BY <2>2 DEF CheckCancelled, RowsMove
  <2>3. ASSUME NEW out \in Outputs \cup Waits \cup {"fail"}, NEW u \in Users \cup {NoUser}, RunNode(t, out, u)
        PROVE  RowsMove
    <3>1. late[x] = 0
      BY <2>3 DEF RunNode, Safe, CheckedIsClean
    <3>2. UNCHANGED <<row, late>> \/ (row' = row /\ row[x].status \in Ended /\ late' = [late EXCEPT ![x] = @ + 1])
      BY <2>3 DEF RunNode
    <3>3. QED
      BY <2>1, <3>1, <3>2 DEF RowsMove, TookEffectLate
  <2>4. ASSUME NEW at, NEW status \in Saving, NEW armed, Save(x, at, status, armed), UNCHANGED late
        PROVE  RowsMove
    BY <2>1, <2>4, SaveSaves DEF RowsMove
  <2>5. CASE LoadFlow(t)
    BY <2>1, <2>5, FailRawSaves DEF LoadFlow, RowsMove, Saving
  <2>6. CASE Finish(t) \/ StepLimit(t)
    BY <2>4, <2>6 DEF Finish, StepLimit, Saving
  <2>7. CASE Pause(t)
    BY <2>4, <2>7 DEF Pause, Saving
  <2>8. CASE Advance(t)
    <3>1. UNCHANGED late /\ (UNCHANGED row \/ \E at : Save(x, at, "running", FALSE))
      BY <2>8, Zenon DEF Advance
    <3>2. QED
      BY <2>4, <3>1 DEF RowsMove, Saving
  <2>9. QED
    BY <1>3, <2>2, <2>3, <2>5, <2>6, <2>7, <2>8 DEF RunStep
<1>4. ASSUME NEW x \in Execs, Wake(x)
      PROVE  RowsMove
  <2>1. /\ row[x].status \in {"waiting_input", "waiting_delay"} /\ UNCHANGED late
        /\ row' = [row EXCEPT ![x] = [@ EXCEPT !.status = "running", !.armed = FALSE]]
    BY <1>4 DEF Wake, ResumeDue, IsDue
  <2>2. row[x] \in Row /\ DOMAIN row = Execs
    BY DEF TypeOK
  <2>3. Claimed(x)
    BY <2>1, <2>2 DEF Claimed, Row
  <2>4. QED
    BY <2>1, <2>3 DEF RowsMove
<1>5. CASE Outside
  <2>1. ASSUME NEW X \in SUBSET Execs, CancelRuns(X), UNCHANGED late
        PROVE  RowsMove
    BY <2>1, CancelledTogether DEF RowsMove
  <2>2. ASSUME NEW c \in Convs, CancelForConversation(c)
        PROVE  RowsMove
    BY <2>1, <2>2 DEF CancelForConversation, RunsOf
  <2>3. ASSUME NEW x \in Execs, CancelExecution(x)
        PROVE  RowsMove
    BY <2>1, <2>3 DEF CancelExecution
  <2>4. ASSUME NEW e \in Editors, StopRuns(e)
        PROVE  RowsMove
    BY <2>1, <2>4 DEF StopRuns
  <2>5. ASSUME NEW f \in Flows, DeleteFlow(f)
        PROVE  RowsMove
    <3> DEFINE X == {x \in Execs : row[x].flow = f}
    <3>1. \A x \in Execs : row[x] \in Row /\ (row[x].status = "absent" => row[x].flow # f)
      BY CatalogAssumption DEF TypeOK, Safe, RowTells
    <3>2. \A x \in Execs : row'[x] = IF x \in X THEN [row[x] EXCEPT !.status = "deleted"] ELSE row[x]
      BY <2>5 DEF DeleteFlow
    <3>3. EndedTogether(X)
      BY <3>1, <3>2 DEF EndedTogether, Row
    <3>4. QED
      BY <2>5, <3>3 DEF DeleteFlow, RowsMove
  <2>6. CASE (\E c \in Convs, u \in Users \cup {NoUser} : AssignUser(c, u)) \/ EditFlow \/ (\E t \in Threads : Crash(t))
    BY <2>6 DEF AssignUser, EditFlow, engineVars, Crash, RowsMove
  <2>7. QED
    BY <1>5, <2>2, <2>3, <2>4, <2>5, <2>6 DEF Outside
<1>6. QED
  BY <1>1, <1>2, <1>3, <1>4, <1>5 DEF Next

(* save never resurrects a run that was cancelled while it ran.            *)
THEOREM EndedStayEnded == Spec => EndedRunsStayEnded
<1>1. ASSUME IndInv, [Next]_vars
      PROVE  [\A x \in Execs : row[x].status \in Ended => row'[x].status \in {row[x].status, "deleted"}]_vars
  <2>1. SUFFICES ASSUME Next, NEW x \in Execs, row[x].status \in Ended
                 PROVE  row'[x].status \in {row[x].status, "deleted"}
    BY <1>1
  <2>2. RowsMove
    BY <1>1, <2>1, RowsMoveStep DEF IndInv
  <2>3. ~IsActive(x) /\ row[x].status # "absent" /\ row[x].status # "running"
    BY <2>1 DEF IsActive, Active, Ended
  <2>4. ASSUME NEW X \in SUBSET Execs, EndedTogether(X)
        PROVE  row'[x].status \in {row[x].status, "deleted"}
    BY <2>1, <2>4 DEF EndedTogether
  <2>5. QED
    BY <2>1, <2>2, <2>3, <2>4 DEF RowsMove, TookEffectLate, Claimed, Inserted, SavedAs, Ended
<1>2. QED
  BY <1>1, EngineIndInv, PTL DEF Spec, EndedRunsStayEnded

-----------------------------------------------------------------------------
(* The engine keeps the promise of ConversationSlot.                       *)

LEMMA Stages ==
  /\ StageOf("absent") = "unused" /\ StageOf("running") = "acting"
  /\ StageOf("waiting_input") = "waiting" /\ StageOf("waiting_delay") = "waiting"
  /\ \A s \in Ended : StageOf(s) = "over"
BY DEF StageOf, Ended

LEMMA SlotStep ==
  ASSUME IndInv, IndInv', [Next]_vars
  PROVE  Slot!Next \/ UNCHANGED Slot!vars
<1> DEFINE stage == [x \in Execs |-> StageOf(row[x].status)]
           place == [x \in Execs |-> row[x].conv]
<1>1. UNCHANGED <<row, late>> => UNCHANGED Slot!vars
  BY DEF Slot!vars
<1>2. \A x \in Execs : row[x].status \in ExecStatus /\ row'[x].status \in ExecStatus
  BY DEF IndInv, TypeOK, Row
<1>3. \A x \in Execs : Slot!AtWork(x) <=> IsActive(x)
  BY <1>2, Stages DEF Slot!AtWork, IsActive, Active, ExecStatus
<1>4. ASSUME NEW x \in Execs, TookEffectLate(x)
      PROVE  Slot!LateStep(x)
  BY <1>4, Stages DEF TookEffectLate, Slot!LateStep
<1>5. ASSUME NEW x \in Execs, Claimed(x), UNCHANGED late
      PROVE  Slot!Resume(x)
  BY <1>5, Stages DEF Claimed, Slot!Resume
<1>6. ASSUME NEW x \in Execs, NEW c \in Convs, Inserted(x, c), UNCHANGED late
      PROVE  Slot!Begin(x, c)
  BY <1>3, <1>6, Stages DEF Inserted, Slot!Begin
<1>7. ASSUME NEW X \in SUBSET Execs, \A x \in X : IsActive(x) /\ row'[x].status \in Ended,
             \A x \in Execs : row'[x].conv = row[x].conv,
             \A y \in Execs \ X : StageOf(row'[y].status) = StageOf(row[y].status), UNCHANGED late
      PROVE  Slot!End(X)
  BY <1>3, <1>7, Stages DEF Slot!End
<1>8. ASSUME NEW X \in SUBSET Execs, EndedTogether(X), UNCHANGED late
      PROVE  Slot!Next
  <2> DEFINE A == {x \in X : IsActive(x)}
  <2>1. \A x \in Execs \ A : StageOf(row'[x].status) = StageOf(row[x].status)
    BY <1>2, <1>8, Stages DEF EndedTogether, IsActive, ExecStatus, Ended
  <2>2. Slot!End(A)
    BY <1>7, <1>8, <2>1 DEF EndedTogether, Ended
  <2>3. QED
    BY <2>2 DEF Slot!Next
<1>9. ASSUME NEW x \in Execs, NEW status \in Saving, SavedAs(x, status), UNCHANGED late
      PROVE  Slot!Next \/ UNCHANGED Slot!vars
  <2>1. \A y \in Execs : row'[y].conv = row[y].conv
    BY <1>9 DEF SavedAs
  <2>2. CASE row'[x].status = row[x].status
    <3>1. \A y \in Execs : StageOf(row'[y].status) = StageOf(row[y].status)
      BY <1>9, <2>2 DEF SavedAs
    <3>2. QED
      BY <1>9, <2>1, <3>1 DEF Slot!vars
  <2>3. CASE row[x].status = "running" /\ status \in {"waiting_input", "waiting_delay"} /\ row'[x].status = status
    <3>1. Slot!Suspend(x)
      BY <1>9, <2>1, <2>3, Stages DEF SavedAs, Slot!Suspend
    <3>2. QED
      BY <3>1 DEF Slot!Next
  <2>4. CASE row[x].status = "running" /\ status \in {"completed", "failed"} /\ row'[x].status = status
    <3>1. Slot!End({x})
      BY <1>7, <1>9, <2>1, <2>4 DEF SavedAs, IsActive, Active, Ended
    <3>2. QED
      BY <3>1 DEF Slot!Next
  <2>5. QED
    BY <1>9, <2>2, <2>3, <2>4 DEF SavedAs, Saving
<1>10. CASE UNCHANGED vars
  BY <1>1, <1>10 DEF vars
<1>11. CASE Next
  <2>1. RowsMove
    BY <1>11, RowsMoveStep DEF IndInv
  <2>2. QED
    BY <1>1, <1>4, <1>5, <1>6, <1>8, <1>9, <2>1 DEF RowsMove, Slot!Next
<1>12. QED
  BY <1>10, <1>11

(* Every step of the engine is a step of ConversationSlot, or none.        *)
THEOREM EngineImplementsSlot == Spec => ImplementsSlot
<1>1. Init => Slot!Init
  <2>1. SUFFICES ASSUME Init PROVE Slot!Init
    OBVIOUS
  <2>2. \A x \in Execs : row[x].status = "absent" /\ row[x].conv = NoConv
    BY <2>1 DEF Init, NoRow
  <2>3. late = [x \in Execs |-> 0]
    BY <2>1 DEF Init
  <2>4. QED
    BY <2>2, <2>3, Stages DEF Slot!Init
<1>2. QED
  BY <1>1, SlotStep, EngineIndInv, PTL DEF Spec, ImplementsSlot, Slot!Spec
=============================================================================
