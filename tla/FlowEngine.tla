----------------------------- MODULE FlowEngine -----------------------------
(***************************************************************************)
(* The automation engine (internal/flows/engine.go) on top of the flow     *)
(* catalog.  A run is a flow_executions row; whoever moves the row to      *)
(* "running" becomes its runner: the goroutine of an inbound message, of a *)
(* manual test or of the scheduler.  Every replica runs such goroutines,   *)
(* and the row is all they share.                                          *)
(*                                                                         *)
(* One action is one database statement, or one node's effect.  Attendants *)
(* and editors act between any two of them.                                *)
(***************************************************************************)
EXTENDS FlowCatalog

CONSTANTS
  Convs,       \* conversations
  Texts,       \* what a message may say: [channel, words]
  Users,       \* attendants
  Execs,       \* identifiers of runs
  Handlers,    \* goroutines that serve messages and tests
  Timers,      \* goroutines the scheduler starts for due waits
  NoConv, NoEvent, NoUser, NoExec,
  MaxSteps,    \* maxStepsPerRun (60 in the code)
  MaxFaults    \* bound: lost goroutines and failed statements

Threads == Handlers \cup Timers
Events == [channel : {m.channel : m \in Texts}, words : {m.words : m \in Texts},
           isNew : BOOLEAN]

ASSUME EngineAssumption ==
  /\ NoConv \notin Convs
  /\ NoEvent \notin Events
  /\ NoUser \notin Users
  /\ NoExec \notin Execs
  /\ MaxSteps \in Nat \ {0}
  /\ MaxFaults \in Nat

VARIABLES
  row,      \* flow_executions
  seen,     \* conversations that have received their first message
  owner,    \* conversations.assigned_user_id
  thread,   \* the goroutines, one record each
  late,     \* nodes of a run that took effect after it was ended
  faults    \* faults so far

engineVars == <<row, seen, owner, thread, late, faults>>
vars == <<flow, edit, row, seen, owner, thread, late, faults>>

Active == {"running", "waiting_input", "waiting_delay"}
Ended == {"completed", "failed", "cancelled", "deleted"}
ExecStatus == Active \cup Ended \cup {"absent"}

Row == [status : ExecStatus, conv : Convs \cup {NoConv}, flow : Flows \cup {0},
        node : Names \cup {""}, armed : BOOLEAN, manual : BOOLEAN]
NoRow == [status |-> "absent", conv |-> NoConv, flow |-> 0, node |-> "",
          armed |-> FALSE, manual |-> FALSE]

(* pc is the next statement.  "answers": a question was already open when  *)
(* the message arrived.  node is the loop variable of runFrom, at its      *)
(* CurrentNodeID, out what woke the run or what its last node returned.    *)
Entering == {"claim", "busy", "owner", "match", "cancel", "insert"}
Running == {"load", "loop", "act", "save"}
Statements == Entering \cup Running \cup {"idle"}
Outputs == {"", "true", "false", "error", "handoff", "done"}
Waits == {"input", "inputTimed", "delay"}
Reasons == Outputs \cup Waits \cup {"fail", "reply", "timeout"}

Goroutine ==
  [pc : Statements, conv : Convs \cup {NoConv}, ev : Events \cup {NoEvent},
   answers : BOOLEAN, flow : Flows \cup {0}, def : FlowDefinition \cup {NoDefinition},
   exec : Execs \cup {NoExec}, node : Nat, at : Names \cup {""}, steps : 0..MaxSteps,
   out : Reasons]

Idle == [pc |-> "idle", conv |-> NoConv, ev |-> NoEvent, answers |-> FALSE,
         flow |-> 0, def |-> NoDefinition, exec |-> NoExec, node |-> NoNode,
         at |-> "", steps |-> 0, out |-> ""]

IsRunner(t) == thread[t].pc \in Running
IsActive(x) == row[x].status \in Active
RunsOf(c) == {x \in Execs : row[x].status # "absent" /\ row[x].conv = c}
NodeOf(t) == thread[t].def.nodes[thread[t].node]

(* resume_at IS NOT NULL is "armed"; any armed wait may be due.            *)
IsDue(x) == row[x].status \in {"waiting_input", "waiting_delay"} /\ row[x].armed

Init ==
  /\ CatalogInit
  /\ row = [x \in Execs |-> NoRow]
  /\ seen = {}
  /\ owner = [c \in Convs |-> NoUser]
  /\ thread = [t \in Threads |-> Idle]
  /\ late = [x \in Execs |-> 0]
  /\ faults = 0

-----------------------------------------------------------------------------
(* Helpers *)

(* A statement succeeds, or fails while the budget of faults lasts.        *)
Statement(ok) ==
  /\ ok \/ faults < MaxFaults
  /\ faults' = IF ok THEN faults ELSE faults + 1

Become(t, r) == thread' = [thread EXCEPT ![t] = r]
Goto(t, s) == Become(t, [thread[t] EXCEPT !.pc = s])

(* Mutant of CancelRuns: a status name nothing else knows.                 *)
CancelRuns_Misspelt(X) ==
  row' = [x \in Execs |-> IF x \in X /\ IsActive(x)
                          THEN [row[x] EXCEPT !.status = "canceled", !.armed = FALSE]
                          ELSE row[x]]

CancelRuns(X) ==
  row' = [x \in Execs |-> IF x \in X /\ IsActive(x)
                          THEN [row[x] EXCEPT !.status = "cancelled", !.armed = FALSE]
                          ELSE row[x]]

(* Mutant of Writable: the WHERE clause of save is only the id.            *)
Writable_Any(x) == row[x].status # "deleted"

(* WHERE id = ... AND status <> 'cancelled'                                *)
Writable(x) == row[x].status \notin {"cancelled", "deleted"}

Save(x, at, status, armed) ==
  \E ok \in BOOLEAN :
    /\ Statement(ok)
    /\ row' = IF ok /\ Writable(x)
              THEN [row EXCEPT ![x] = [@ EXCEPT !.status = status, !.node = at, !.armed = armed]]
              ELSE row

(* Mutant of FailRaw: the error is only logged.                            *)
FailRaw_LogOnly(x) == UNCHANGED <<row, faults>>

FailRaw(x) ==
  \E ok \in BOOLEAN :
    /\ Statement(ok)
    /\ row' = IF ok /\ Writable(x) THEN [row EXCEPT ![x].status = "failed"] ELSE row

-----------------------------------------------------------------------------
(* HandleInbound *)

(* A runner that has asked its question, or a saved wait for an answer.    *)
QuestionOpen(c) ==
  \/ \E x \in RunsOf(c) : row[x].status = "waiting_input"
  \/ \E t \in Threads : /\ thread[t].pc = "save"
                        /\ thread[t].exec \in RunsOf(c)
                        /\ IsActive(thread[t].exec)
                        /\ thread[t].out \in {"input", "inputTimed"}

(* The intake stored the message; the conversation is new only once.       *)
Inbound(t, c, m) ==
  /\ thread[t].pc = "idle"
  /\ Become(t, [Idle EXCEPT !.pc = "claim", !.conv = c, !.answers = QuestionOpen(c),
                  !.ev = [channel |-> m.channel, words |-> m.words, isNew |-> c \notin seen]])
  /\ seen' = seen \cup {c}
  /\ UNCHANGED <<catalogVars, row, owner, late, faults>>

(* Mutant of ClaimWaiting: SELECT first, the status is written later.      *)
ClaimWaiting_SelectOnly(t) ==
  LET c == thread[t].conv
      Waiting == {x \in RunsOf(c) : row[x].status = "waiting_input"}
  IN /\ thread[t].pc = "claim"
     /\ \/ \E x \in Waiting :
             /\ Become(t, [Idle EXCEPT !.pc = "load", !.exec = x, !.flow = row[x].flow,
                             !.at = row[x].node, !.out = "reply"])
             /\ UNCHANGED <<row, faults>>
        \/ /\ Waiting = {}
           /\ Goto(t, "busy")
           /\ UNCHANGED <<row, faults>>
     /\ UNCHANGED <<catalogVars, seen, owner, late>>

(* UPDATE ... RETURNING claims the waiting run, if there is one.           *)
ClaimWaiting(t) ==
  LET c == thread[t].conv
      Waiting == {x \in RunsOf(c) : row[x].status = "waiting_input"}
  IN /\ thread[t].pc = "claim"
     /\ \/ \E x \in Waiting :
             /\ row' = [row EXCEPT ![x] = [@ EXCEPT !.status = "running", !.armed = FALSE]]
             /\ Become(t, [Idle EXCEPT !.pc = "load", !.exec = x, !.flow = row[x].flow,
                             !.at = row[x].node, !.out = "reply"])
             /\ UNCHANGED faults
        \/ \E ok \in BOOLEAN :
             /\ ok => Waiting = {}
             /\ Statement(ok)
             /\ Goto(t, "busy")
             /\ UNCHANGED row
     /\ UNCHANGED <<catalogVars, seen, owner, late>>

(* A failed count reads as zero.                                           *)
ReadBusy(t) ==
  LET busy == \E x \in RunsOf(thread[t].conv) : row[x].status \in {"running", "waiting_delay"}
  IN /\ thread[t].pc = "busy"
     /\ \E ok \in BOOLEAN :
          /\ Statement(ok)
          /\ IF ok /\ busy THEN Become(t, Idle) ELSE Goto(t, "owner")
     /\ UNCHANGED <<catalogVars, row, seen, owner, late>>

(* A failed read leaves no owner.                                          *)
ReadOwner(t) ==
  /\ thread[t].pc = "owner"
  /\ \E ok \in BOOLEAN :
       /\ Statement(ok)
       /\ IF ok /\ owner[thread[t].conv] # NoUser /\ ~thread[t].ev.isNew
          THEN Become(t, Idle) ELSE Goto(t, "match")
  /\ UNCHANGED <<catalogVars, row, seen, owner, late>>

MatchFlow(t) ==
  LET active == {f \in Flows : flow[f].status = "active"}
      best == BestFlow([f \in active |-> Saved(f)], thread[t].ev)
  IN /\ thread[t].pc = "match"
     /\ \E ok \in BOOLEAN :
          /\ Statement(ok)
          /\ IF ok /\ best # 0
             THEN Become(t, [thread[t] EXCEPT !.pc = "insert", !.flow = best, !.def = Saved(best)])
             ELSE Become(t, Idle)
     /\ UNCHANGED <<catalogVars, row, seen, owner, late>>

-----------------------------------------------------------------------------
(* ExecuteFlow and start *)

(* Drafts can be tested too; the flow needs a first node.                  *)
ExecuteFlow(t, f, c) ==
  /\ thread[t].pc = "idle"
  /\ c \in seen
  /\ Stored(f)
  /\ Saved(f).nodes # <<>>
  /\ Become(t, [Idle EXCEPT !.pc = "cancel", !.conv = c, !.flow = f, !.def = Saved(f)])
  /\ UNCHANGED <<catalogVars, row, seen, owner, late, faults>>

CancelForTest(t) ==
  /\ thread[t].pc = "cancel"
  /\ \E ok \in BOOLEAN :
       /\ Statement(ok)
       /\ IF ok THEN CancelRuns(RunsOf(thread[t].conv)) ELSE UNCHANGED row
  /\ Goto(t, "insert")
  /\ UNCHANGED <<catalogVars, seen, owner, late>>

(* Mutant of InsertRun: the insert relies on the busy check before it.     *)
InsertRun_NoConflict(t) ==
  LET r == thread[t]
      start == StartNode(r.def)
  IN /\ r.pc = "insert"
     /\ \/ /\ Stored(r.flow)
           /\ \E x \in Execs :
                /\ row[x].status = "absent"
                /\ row' = [row EXCEPT ![x] =
                             [status |-> "running", conv |-> r.conv, flow |-> r.flow, armed |-> FALSE,
                              node |-> r.def.nodes[start].id, manual |-> r.ev = NoEvent]]
                /\ Become(t, [Idle EXCEPT !.pc = "loop", !.exec = x, !.flow = r.flow, !.def = r.def,
                                !.node = start, !.at = r.def.nodes[start].id])
           /\ UNCHANGED faults
        \/ \E ok \in BOOLEAN :
             /\ ok => ~Stored(r.flow)
             /\ Statement(ok)
             /\ Become(t, Idle)
             /\ UNCHANGED row
     /\ UNCHANGED <<catalogVars, seen, owner, late>>

(* INSERT ... ON CONFLICT (conversation_id) WHERE status is active DO      *)
(* NOTHING.  A vanished flow violates the foreign key.                     *)
InsertRun(t) ==
  LET r == thread[t]
      start == StartNode(r.def)
      conflict == \E x \in RunsOf(r.conv) : IsActive(x)
  IN /\ r.pc = "insert"
     /\ \/ /\ ~conflict /\ Stored(r.flow)
           /\ \E x \in Execs :
                /\ row[x].status = "absent"
                /\ row' = [row EXCEPT ![x] =
                             [status |-> "running", conv |-> r.conv, flow |-> r.flow, armed |-> FALSE,
                              node |-> r.def.nodes[start].id, manual |-> r.ev = NoEvent]]
                /\ Become(t, [Idle EXCEPT !.pc = "loop", !.exec = x, !.flow = r.flow, !.def = r.def,
                                !.node = start, !.at = r.def.nodes[start].id])
           /\ UNCHANGED faults
        \/ \E ok \in BOOLEAN :
             /\ ok => conflict \/ ~Stored(r.flow)
             /\ Statement(ok)
             /\ Become(t, Idle)
             /\ UNCHANGED row
     /\ UNCHANGED <<catalogVars, seen, owner, late>>

-----------------------------------------------------------------------------
(* Waking a waiting run *)

(* Mutant of ResumeDue: only delays are looked at.                         *)
ResumeDue_DelaysOnly(t, x) ==
  /\ thread[t].pc = "idle"
  /\ IsDue(x) /\ row[x].status = "waiting_delay"
  /\ row' = [row EXCEPT ![x] = [@ EXCEPT !.status = "running", !.armed = FALSE]]
  /\ Become(t, [Idle EXCEPT !.pc = "load", !.exec = x, !.flow = row[x].flow,
                  !.at = row[x].node, !.out = "delay"])
  /\ UNCHANGED <<catalogVars, seen, owner, late, faults>>

(* The scheduler claims due waits; a batch of 25 is that many of these in  *)
(* a row.                                                                  *)
ResumeDue(t, x) ==
  /\ thread[t].pc = "idle"
  /\ IsDue(x)
  /\ row' = [row EXCEPT ![x] = [@ EXCEPT !.status = "running", !.armed = FALSE]]
  /\ Become(t, [Idle EXCEPT !.pc = "load", !.exec = x, !.flow = row[x].flow, !.at = row[x].node,
                  !.out = IF row[x].status = "waiting_input" THEN "timeout" ELSE "delay"])
  /\ UNCHANGED <<catalogVars, seen, owner, late, faults>>

(* The node a run continues with: of the definition as it is saved now.    *)
Continuation(def, n, why) ==
  LET type == def.nodes[n].type
  IN CASE why = "reply" /\ type = "ask" -> NextNode(def, n, "reply")
       [] why = "reply" /\ type = "ai_agent" -> n
       [] why = "timeout" /\ type = "ai_agent" -> NextNode(def, n, "done")
       [] why = "timeout" /\ type # "ai_agent" -> NextNode(def, n, "timeout")
       [] OTHER -> NextNode(def, n, "")

(* resumeWithReply, and the body of the loop of resumeDue.                 *)
LoadFlow(t) ==
  LET r == thread[t]
      n == FindNode(Saved(r.flow), r.at)
  IN /\ r.pc = "load"
     /\ \/ /\ Stored(r.flow)
           /\ n # NoNode
           /\ Become(t, [r EXCEPT !.pc = "loop", !.def = Saved(r.flow), !.out = "",
                                  !.node = Continuation(Saved(r.flow), n, r.out)])
           /\ UNCHANGED <<row, faults>>
        \/ /\ ~Stored(r.flow) \/ n = NoNode
           /\ FailRaw(r.exec)
           /\ Become(t, Idle)
     /\ UNCHANGED <<catalogVars, seen, owner, late>>

-----------------------------------------------------------------------------
(* runFrom *)

(* The flow ran out of nodes.                                              *)
Finish(t) ==
  /\ thread[t].pc = "loop"
  /\ thread[t].node = NoNode
  /\ Save(thread[t].exec, thread[t].at, "completed", FALSE)
  /\ Become(t, Idle)
  /\ UNCHANGED <<catalogVars, seen, owner, late>>

StepLimit(t) ==
  /\ thread[t].pc = "loop"
  /\ thread[t].node # NoNode
  /\ thread[t].steps >= MaxSteps
  /\ Save(thread[t].exec, thread[t].at, "failed", FALSE)
  /\ Become(t, Idle)
  /\ UNCHANGED <<catalogVars, seen, owner, late>>

(* Mutant of CheckCancelled: the loop goes straight to the node.           *)
CheckCancelled_Skipped(t) ==
  /\ thread[t].pc = "loop"
  /\ thread[t].node # NoNode
  /\ thread[t].steps < MaxSteps
  /\ Become(t, [thread[t] EXCEPT !.pc = "act", !.at = NodeOf(t).id])
  /\ UNCHANGED <<catalogVars, row, seen, owner, late, faults>>

(* A failed read counts as cancelled, and so does a row that is gone.      *)
CheckCancelled(t) ==
  /\ thread[t].pc = "loop"
  /\ thread[t].node # NoNode
  /\ thread[t].steps < MaxSteps
  /\ \E ok \in BOOLEAN :
       /\ Statement(ok)
       /\ IF ok /\ row[thread[t].exec].status \notin {"cancelled", "deleted"}
          THEN Become(t, [thread[t] EXCEPT !.pc = "act", !.at = NodeOf(t).id])
          ELSE Become(t, Idle)
  /\ UNCHANGED <<catalogVars, row, seen, late, owner>>

(* The assistant hands over, is done, or answered and waits for the reply. *)
AIOutcomes == {"handoff", "done", "inputTimed", "fail"}

(* What runNode returns for a type of node: the output to follow, a wait   *)
(* (with or without a deadline) or an error.                               *)
Outcomes(type) ==
  CASE type = "trigger" -> {""}
    [] type \in {"send_message", "add_tag", "crm_move", "transfer_queue", "end"} -> {"", "fail"}
    [] type = "ask" -> {"input", "inputTimed", "fail"}
    [] type = "condition" -> {"true", "false"}
    [] type = "wait" -> {"delay", ""}
    [] type = "webhook" -> {"", "error"}
    [] type = "ai_agent" -> AIOutcomes
    [] OTHER -> {"fail"}

(* The node takes effect.  A transfer leaves the conversation to the       *)
(* operator the queue's strategy picked, or to nobody.                     *)
RunNode(t, out, u) ==
  LET x == thread[t].exec
      transferred == NodeOf(t).type = "transfer_queue" /\ out # "fail"
  IN /\ thread[t].pc = "act"
     /\ out \in Outcomes(NodeOf(t).type)
     /\ Become(t, [thread[t] EXCEPT !.pc = "save", !.out = out])
     /\ IF transferred THEN owner' = [owner EXCEPT ![row[x].conv] = u]
                       ELSE u = NoUser /\ UNCHANGED owner
     /\ late' = IF row[x].status \in Ended THEN [late EXCEPT ![x] = @ + 1] ELSE late
     /\ UNCHANGED <<catalogVars, row, seen, faults>>

(* The run stops here: an error, a wait, or the end node.                  *)
Pause(t) ==
  LET r == thread[t]
  IN /\ r.pc = "save"
     /\ \/ r.out = "fail" /\ Save(r.exec, r.at, "failed", FALSE)
        \/ r.out = "input" /\ Save(r.exec, r.at, "waiting_input", FALSE)
        \/ r.out = "inputTimed" /\ Save(r.exec, r.at, "waiting_input", TRUE)
        \/ r.out = "delay" /\ Save(r.exec, r.at, "waiting_delay", TRUE)
        \/ r.out = "" /\ NodeOf(t).type = "end" /\ Save(r.exec, r.at, "completed", FALSE)
     /\ Become(t, Idle)
     /\ UNCHANGED <<catalogVars, seen, owner, late>>

(* A failed webhook whose error output is not connected goes on.           *)
Following(def, n, out) ==
  LET next == NextNode(def, n, out)
  IN IF next = NoNode /\ out = "error" THEN NextNode(def, n, "") ELSE next

(* Mutant of Advance: every saved step starts the count afresh.            *)
Advance_Recount(t) ==
  LET r == thread[t]
      next == Following(r.def, r.node, r.out)
  IN /\ r.pc = "save"
     /\ r.out \in Outputs
     /\ NodeOf(t).type # "end"
     /\ \/ /\ next # NoNode
           /\ Become(t, [r EXCEPT !.pc = "loop", !.node = next, !.steps = 0,
                                  !.at = r.def.nodes[next].id, !.out = ""])
           /\ Save(r.exec, r.def.nodes[next].id, "running", FALSE)
        \/ /\ next = NoNode
           /\ Become(t, [r EXCEPT !.pc = "loop", !.node = NoNode, !.out = ""])
           /\ UNCHANGED <<row, faults>>
     /\ UNCHANGED <<catalogVars, seen, owner, late>>

Advance(t) ==
  LET r == thread[t]
      next == Following(r.def, r.node, r.out)
  IN /\ r.pc = "save"
     /\ r.out \in Outputs
     /\ NodeOf(t).type # "end"
     /\ \/ /\ next # NoNode
           /\ Become(t, [r EXCEPT !.pc = "loop", !.node = next, !.steps = @ + 1,
                                  !.at = r.def.nodes[next].id, !.out = ""])
           /\ Save(r.exec, r.def.nodes[next].id, "running", FALSE)
        \/ /\ next = NoNode
           /\ Become(t, [r EXCEPT !.pc = "loop", !.node = NoNode, !.out = ""])
           /\ UNCHANGED <<row, faults>>
     /\ UNCHANGED <<catalogVars, seen, owner, late>>

-----------------------------------------------------------------------------
(* Attendants, editors and faults *)

(* An attendant replies or resolves the conversation.                      *)
CancelForConversation(c) ==
  /\ CancelRuns(RunsOf(c))
  /\ UNCHANGED <<catalogVars, seen, owner, thread, late, faults>>

CancelExecution(x) ==
  /\ IsActive(x)
  /\ CancelRuns({x})
  /\ UNCHANGED <<catalogVars, seen, owner, thread, late, faults>>

AssignUser(c, u) ==
  /\ owner' = [owner EXCEPT ![c] = u]
  /\ UNCHANGED <<catalogVars, row, seen, thread, late, faults>>

EditFlow == EditorStep /\ UNCHANGED engineVars

StopRuns(e) ==
  /\ EndEdit(e)
  /\ CancelRuns({x \in Execs : row[x].flow = edit[e].flow})
  /\ UNCHANGED <<seen, owner, thread, late, faults>>

DeleteFlow(f) ==
  /\ RemoveFlow(f)
  /\ row' = [x \in Execs |-> IF row[x].flow = f THEN [row[x] EXCEPT !.status = "deleted"]
                                                ELSE row[x]]
  /\ UNCHANGED <<seen, owner, thread, late, faults>>

(* The goroutine dies with its replica.                                    *)
Crash(t) ==
  /\ thread[t].pc # "idle"
  /\ Statement(FALSE)
  /\ Become(t, Idle)
  /\ UNCHANGED <<catalogVars, row, seen, owner, late>>

-----------------------------------------------------------------------------
Enter(t) ==
  ClaimWaiting(t) \/ ReadBusy(t) \/ ReadOwner(t) \/ MatchFlow(t) \/ CancelForTest(t) \/ InsertRun(t)

RunStep(t) ==
  \/ LoadFlow(t) \/ Finish(t) \/ StepLimit(t) \/ CheckCancelled(t) \/ Pause(t) \/ Advance(t)
  \/ \E out \in Outputs \cup Waits \cup {"fail"}, u \in Users \cup {NoUser} : RunNode(t, out, u)

Arrive ==
  \/ \E t \in Handlers, c \in Convs, m \in Texts : Inbound(t, c, m)
  \/ \E t \in Handlers, f \in Flows, c \in Convs : ExecuteFlow(t, f, c)

Wake(x) == \E t \in Timers : ResumeDue(t, x)

Outside ==
  \/ \E c \in Convs : CancelForConversation(c)
  \/ \E x \in Execs : CancelExecution(x)
  \/ \E c \in Convs, u \in Users \cup {NoUser} : AssignUser(c, u)
  \/ EditFlow
  \/ \E e \in Editors : StopRuns(e)
  \/ \E f \in Flows : DeleteFlow(f)
  \/ \E t \in Threads : Crash(t)

Next ==
  \/ Arrive
  \/ \E t \in Threads : Enter(t) \/ RunStep(t)
  \/ \E x \in Execs : Wake(x)
  \/ Outside

Spec == Init /\ [][Next]_vars

(* A goroutine that can go on does; the scheduler keeps ticking.  Nobody   *)
(* is obliged to write, edit or assign.                                    *)
FairSpec ==
  /\ Spec
  /\ \A t \in Threads : WF_vars(Enter(t) \/ RunStep(t))
  /\ \A x \in Execs : WF_vars(Wake(x))

-----------------------------------------------------------------------------
(* Properties *)

(* Every variable keeps its type.                                          *)
TypeOK ==
  /\ CatalogTypeOK
  /\ row \in [Execs -> Row]
  /\ seen \subseteq Convs
  /\ owner \in [Convs -> Users \cup {NoUser}]
  /\ thread \in [Threads -> Goroutine]
  /\ late \in [Execs -> Nat]
  /\ faults \in 0..MaxFaults

(* "Two inbound messages arriving together must not start two bots on the  *)
(* same conversation" (migration 18): no two runs of a conversation are    *)
(* active, whatever messages, tests and wake-ups race.                     *)
OneBotPerConversation ==
  \A x, y \in Execs :
    IsActive(x) /\ IsActive(y) /\ row[x].conv = row[y].conv => x = y

(* A reply and its timeout, or two schedulers, never both continue a run:  *)
(* a run has one runner, and only while its row says running or it was     *)
(* ended under the runner's feet.                                          *)
OneRunnerPerRun ==
  /\ \A t, u \in Threads :
       IsRunner(t) /\ IsRunner(u) /\ thread[t].exec = thread[u].exec => t = u
  /\ \A t \in Threads :
       IsRunner(t) => row[thread[t].exec].status \in {"running", "cancelled", "deleted"}

(* "Never resurrect an execution that was cancelled while it ran" (save):  *)
(* what has ended stays as it ended, until its flow is deleted.            *)
EndedRunsStayEnded ==
  [][\A x \in Execs : row[x].status \in Ended => row'[x].status \in {row[x].status, "deleted"}]_vars

(* A cancelled run stops at its next step: at most the node that had       *)
(* passed the check still takes effect.                                    *)
AtMostOneLateNode == \A x \in Execs : late[x] <= 1

(* A run is left "running" with nobody to run it, and its conversation     *)
(* closed to every other flow, only after a crash or a failed statement.   *)
OrphansComeFromFaults ==
  \A x \in Execs :
    row[x].status = "running" =>
      (\E t \in Threads : IsRunner(t) /\ thread[t].exec = x) \/ faults > 0

(* Without faults every run stops or waits: a definition that loops on     *)
(* itself does not keep a goroutine busy for ever.  And a wait with a      *)
(* deadline is left: by the answer, the deadline or the attendant.         *)
RunsMakeProgress ==
  \A x \in Execs :
    /\ row[x].status = "running" ~> row[x].status # "running"
    /\ IsDue(x) ~> ~IsDue(x)

(* How far a run is, for ConversationSlot.                                 *)
StageOf(status) ==
  CASE status = "absent" -> "unused"
    [] status = "running" -> "acting"
    [] status \in {"waiting_input", "waiting_delay"} -> "waiting"
    [] OTHER -> "over"

(* The engine keeps the promise of ConversationSlot.                       *)
Slot == INSTANCE ConversationSlot WITH
  stage <- [x \in Execs |-> StageOf(row[x].status)],
  place <- [x \in Execs |-> row[x].conv],
  extra <- late

ImplementsSlot == Slot!Spec

(* "It answers a pending question or AI conversation first"                *)
(* (HandleInbound): a message that came after the question is not dropped  *)
(* while the question is still open.                                       *)
RepliesAreHeard ==
  [][\A t \in Threads :
       thread[t].pc = "busy" /\ thread'[t].pc = "idle" /\ thread[t].answers /\ faults' = faults
         => ~QuestionOpen(thread[t].conv)]_vars

(* "Turning a flow off also stops the runs still waiting on it"            *)
(* (UpdateFlow): once the request is over, no run that a message started   *)
(* waits on a flow that is not active.                                     *)
OffFlowsHaveNoWaitingRuns ==
  \A x \in Execs :
    /\ row[x].status \in {"waiting_input", "waiting_delay"}
    /\ ~row[x].manual
    /\ flow[row[x].flow].status # "active"
    => \E e \in Editors : edit[e].pc = "stop" /\ edit[e].flow = row[x].flow
=============================================================================
