--------------------------- MODULE FlowEditorPage ---------------------------
(***************************************************************************)
(* The automation page: the list of flows (web/src/pages/Flows.jsx)        *)
(* and the canvas editor it opens (pages/flows/FlowEditor.jsx), around one *)
(* flow.  The canvas is the sequence of steps and edges that FlowCanvas    *)
(* converts; titles, positions and lookups are left out.                   *)
(*                                                                         *)
(* A save sends the canvas as it is at that moment and the operator goes   *)
(* on editing while it is on its way; a test run saves first and may       *)
(* overlap a save; the list opens the editor on the row it has.            *)
(***************************************************************************)
EXTENDS FlowCanvas, PanelCalls

CONSTANTS StoredDefs,   \* definitions the flow may have when the page opens, each one
                        \* written by an editor, of today or of before triggers
          StepTypes,    \* types of the steps the operator adds
          Budgets       \* bound: how many changes to the canvas, saves (toggles,
                        \* removals and test runs counted) and visits there may be

ASSUME EditorAssumption ==
  /\ StoredDefs \subseteq {def \in FlowDefinition : WellDrawn(ToCanvas(def, "start"))}
  /\ StepTypes \subseteq {t \in DOMAIN NODE_SPECS : NODE_SPECS[t].offered}
  /\ Budgets \subseteq [edits : Nat, puts : Nat, visits : Nat]
  /\ {"n1", "n2", "n3", "start"} \subseteq Names      \* what the editor calls the steps it adds

VARIABLES editor,        \* React state of the list and of the editor
          editorCalls,   \* calls in flight
          flowRow        \* the flow as the server stores it

editorVars == <<editor, editorCalls, flowRow>>

Blank == [nodes |-> <<>>, edges |-> <<>>]

ListView(row, busy, b) ==
  [view |-> "list", row |-> row, busy |-> busy, edits |-> b.edits, puts |-> b.puts, visits |-> b.visits, canvas |-> Blank, selected |-> "", status |-> "draft",
   dirty |-> FALSE, saving |-> FALSE, saved |-> FALSE, late |-> FALSE, test |-> "closed"]

(* The row is what GET /flows last answered; a page just mounted has none. *)
EditorInit ==
  /\ \E b \in Budgets : editor = ListView(<<>>, FALSE, b)
  /\ editorCalls = Send({}, "list", [why |-> "open"])
  /\ flowRow \in [def : StoredDefs, status : {"draft"}, gone : {FALSE}]

InEditor == editor.view = "editor"

(* The toolbar; a test run's dialog covers it.                             *)
Toolbar == InEditor /\ editor.test = "closed"
Saves == {c \in editorCalls : c.op = "save"}
CanPut == editor.puts > 0 /\ CanCall(editorCalls)

-----------------------------------------------------------------------------
(* The list of flows *)

(* fetchFlows runs with the editor open too: onSaved asks for it.          *)
FlowListArrives(call) ==
  /\ call \in Done(editorCalls, "list")
  /\ editorCalls' = editorCalls \ {call}
  /\ editor' = [editor EXCEPT !.row = IF call.answer = Failed THEN @ ELSE call.answer.result.rows,
                              !.busy = @ /\ call.about.why # "write"]
  /\ UNCHANGED flowRow

(* The row of the flow, with its buttons.                                  *)
FlowRow == editor.view = "list" /\ editor.row # <<>>

(* Activate, deactivate and remove: one call of the list at a time for a   *)
(* flow, then the list is read again.  Opening a row is never blocked.     *)
FlowWrite(verb) ==
  /\ FlowRow /\ ~editor.busy /\ CanPut
  /\ editor' = [editor EXCEPT !.busy = TRUE, !.puts = @ - 1]
  /\ editorCalls' = Send(editorCalls, verb, [why |-> editor.row[1].status])
  /\ UNCHANGED flowRow

FlowWriteAnswered(call) ==
  /\ \E verb \in {"toggle", "remove"} : call \in Done(editorCalls, verb)
  /\ editor' = [editor EXCEPT !.busy = call.answer # Failed]
  /\ editorCalls' = IF call.answer = Failed THEN editorCalls \ {call}
                    ELSE Chain(editorCalls, call, "list", [why |-> "write"])
  /\ UNCHANGED flowRow

(* The editor starts from the row, however old it is.                      *)
OpenFlow ==
  /\ FlowRow /\ editor.visits > 0
  /\ editor' = [editor EXCEPT !.view = "editor", !.visits = @ - 1, !.canvas = ToCanvas(editor.row[1].def, "start"),
                              !.status = editor.row[1].status, !.selected = "", !.dirty = FALSE,
                              !.saving = FALSE, !.saved = FALSE, !.late = Saves # {}, !.test = "closed"]
  /\ UNCHANGED <<editorCalls, flowRow>>

(* Unsaved changes are given up after a confirmation.  The editor that is  *)
(* left ignores the answers still on their way; its saves still reach the  *)
(* server.                                                                 *)
Left(call) == IF call.op = "save" THEN [call EXCEPT !.about.why = "left"] ELSE call

LeaveEditor ==
  /\ Toolbar /\ CanCall(editorCalls)
  /\ editor' = ListView(editor.row, editor.busy, editor)
  /\ editorCalls' = Send({Left(c) : c \in editorCalls}, "list", [why |-> "back"])
  /\ UNCHANGED flowRow

-----------------------------------------------------------------------------
(* Editing.  Only administrators and supervisors get this far: canEdit.    *)

CanEdit == InEditor /\ editor.test = "closed" /\ editor.edits > 0

(* What the palette offers, and the panel of the selected step.            *)
Palette == {t \in StepTypes : NODE_SPECS[t].offered}
Inspector == CanEdit /\ editor.selected # ""

(* markDirty; "late" remembers that a save on its way is not of this       *)
(* drawing: the drawing changed since, or the save is an earlier visit's.  *)
Changed(canvas, selected) ==
  /\ editor' = [editor EXCEPT !.canvas = canvas, !.selected = selected, !.dirty = TRUE,
                              !.late = @ \/ Saves # {}, !.edits = @ - 1]
  /\ UNCHANGED <<editorCalls, flowRow>>

Canvas == editor.canvas
NewIds == {"n1", "n2", "n3"} \ CanvasIds(Canvas)
newId == CHOOSE id \in NewIds : TRUE
Edge(source, handle, target) == [source |-> source, target |-> target, handle |-> handle, exact |-> TRUE]

SelectStep(id) ==
  /\ InEditor /\ id \in CanvasIds(Canvas) \cup {""} /\ id # editor.selected
  /\ editor' = [editor EXCEPT !.selected = id]
  /\ UNCHANGED <<editorCalls, flowRow>>

(* The first output of a step no edge leaves by, "" for none.              *)
FreeOutput(id) ==
  LET outs == NODE_SPECS[StepOf(Canvas, id).type].outputs
      free == {i \in DOMAIN outs : \A k \in DOMAIN Canvas.edges :
                 ~(Canvas.edges[k].source = id /\ Canvas.edges[k].handle = outs[i])}
  IN IF free = {} THEN "" ELSE outs[FirstOf(free)]

NewStep(id, type) == [id |-> id, type |-> type, complete |-> IF NODE_SPECS[type].ready THEN Readers ELSE {}]

(* A click on the palette adds the step behind the selected one, joined to *)
(* its first free output; a drop onto the canvas joins it to nothing.      *)
AddNode(type, click) ==
  /\ CanEdit /\ NewIds # {}
  /\ LET free == IF click /\ editor.selected # "" THEN FreeOutput(editor.selected) ELSE ""
     IN Changed([nodes |-> Append(Canvas.nodes, NewStep(newId, type)),
                 edges |-> IF free = "" THEN Canvas.edges
                           ELSE Append(Canvas.edges, Edge(editor.selected, free, newId))],
                newId)

(* The form of a step's type: its fields are filled in, with data that the *)
(* browser, the engine or both can read, or one is emptied.                *)
Filled(node, complete) == [node EXCEPT !.complete = complete]

UpdateSelected(complete) ==
  /\ Inspector /\ complete \in Verdicts(StepOf(Canvas, editor.selected).type)
  /\ Changed([Canvas EXCEPT !.nodes = [i \in DOMAIN @ |->
                IF @[i].id = editor.selected THEN Filled(@[i], complete) ELSE @[i]]],
             editor.selected)

(* The button of the panel, and Ctrl+D even under the dialog of a test.    *)
DuplicateSelected ==
  /\ InEditor /\ editor.edits > 0 /\ editor.selected # "" /\ NewIds # {}
  /\ ~IsStart(StepOf(Canvas, editor.selected))
  /\ Changed([Canvas EXCEPT !.nodes = Append(@, [StepOf(Canvas, editor.selected) EXCEPT !.id = newId])], newId)

(* The start step cannot be deleted; a step takes its edges with it.       *)
DeleteSelected ==
  /\ Inspector /\ ~IsStart(StepOf(Canvas, editor.selected))
  /\ Changed([nodes |-> Without(Canvas.nodes, {i \in DOMAIN Canvas.nodes : Canvas.nodes[i].id = editor.selected}),
              edges |-> Without(Canvas.edges, {k \in DOMAIN Canvas.edges :
                                 editor.selected \in {Canvas.edges[k].source, Canvas.edges[k].target}})], "")

DeleteEdge(k) ==
  /\ CanEdit /\ k \in DOMAIN Canvas.edges
  /\ Changed([Canvas EXCEPT !.edges = Without(@, {k})], editor.selected)

IsValidConnection(source, target) == source # target /\ ~IsStart(StepOf(Canvas, target))

(* Mutant of OnConnect: a second edge leaves by the same output.           *)
OnConnect_SecondEdge(source, handle, target) ==
  /\ CanEdit /\ handle \in StepOutputs(StepOf(Canvas, source).type)
  /\ IsValidConnection(source, target)
  /\ Changed([Canvas EXCEPT !.edges = Append(@, Edge(source, handle, target))], editor.selected)

(* "One connection per output": the old edge of the output gives way.      *)
OnConnect(source, handle, target) ==
  /\ CanEdit /\ handle \in StepOutputs(StepOf(Canvas, source).type)
  /\ IsValidConnection(source, target)
  /\ Changed([Canvas EXCEPT !.edges =
                Append(Without(@, {k \in DOMAIN @ : @[k].source = source /\ @[k].handle = handle}),
                       Edge(source, handle, target))], editor.selected)

(* Dragging, arranging and renaming leave the drawing what it means.       *)
Arrange == CanEdit /\ ~editor.dirty /\ Changed(Canvas, editor.selected)

-----------------------------------------------------------------------------
(* Saving *)

(* Mutant of Persist: the canvas counts as saved when the PUT is sent.     *)
Persist_Optimistic(status, why) ==
  /\ CanPut
  /\ editor' = [editor EXCEPT !.saving = TRUE, !.puts = @ - 1, !.late = @ /\ Saves # {},
                              !.dirty = FALSE, !.saved = TRUE,
                              !.test = IF why = "test" THEN "running" ELSE @]
  /\ editorCalls' = Send(editorCalls, "save",
                         [why |-> why, status |-> status, late |-> editor.late,
                          def |-> ToDefinition(Canvas, flowRow.def.trigger)])

(* PUT of the whole flow, with the canvas of this moment.                  *)
Persist(status, why) ==
  /\ CanPut
  /\ editor' = [editor EXCEPT !.saving = TRUE, !.puts = @ - 1, !.late = @ /\ Saves # {},
                              !.test = IF why = "test" THEN "running" ELSE @]
  /\ editorCalls' = Send(editorCalls, "save",
                         [why |-> why, status |-> status, late |-> editor.late,
                          def |-> ToDefinition(Canvas, flowRow.def.trigger)])

(* The button, and Ctrl+S even under the dialog of a test; a second save   *)
(* waits for the first.                                                    *)
Save ==
  /\ InEditor /\ ~editor.saving
  /\ Persist(editor.status, "save")
  /\ UNCHANGED flowRow

ToggleActive ==
  /\ Toolbar /\ ~editor.saving
  /\ Persist(IF editor.status = "active" THEN "inactive" ELSE "active", "save")
  /\ UNCHANGED flowRow

OpenTest ==
  /\ Toolbar /\ Len(Canvas.nodes) > 1
  /\ editor' = [editor EXCEPT !.test = "open"]
  /\ UNCHANGED <<editorCalls, flowRow>>

CloseTest ==
  /\ editor.test = "open"
  /\ editor' = [editor EXCEPT !.test = "closed"]
  /\ UNCHANGED <<editorCalls, flowRow>>

(* A test of unsaved work saves it first, even while another save is on    *)
(* its way.                                                                *)
RunTest ==
  /\ editor.test = "open" /\ CanPut
  /\ \/ editor.dirty /\ Persist(editor.status, "test")
     \/ /\ ~editor.dirty
        /\ editor' = [editor EXCEPT !.test = "running", !.puts = @ - 1]
        /\ editorCalls' = Send(editorCalls, "execute", [why |-> "test"])
  /\ UNCHANGED flowRow

(* Whichever PUT is answered first ends "saving"; a refusal keeps the      *)
(* canvas dirty and tells what is missing.                                 *)
SaveAnswered(call) ==
  /\ InEditor /\ call \in Done(editorCalls, "save") /\ call.about.why # "left"
  /\ LET test == call.about.why = "test"
     IN IF call.answer = Failed
        THEN /\ editor' = [editor EXCEPT !.saving = FALSE, !.late = @ \/ call.about.late,
                                         !.test = IF test THEN "open" ELSE @]
             /\ editorCalls' = editorCalls \ {call}
        ELSE /\ editor' = [editor EXCEPT !.saving = FALSE, !.dirty = FALSE, !.saved = TRUE,
                                         !.status = call.answer.result.status]
             /\ editorCalls' = IF test THEN Chain(editorCalls, call, "execute", [why |-> "test"])
                               ELSE Chain(editorCalls, call, "list", [why |-> "saved"])
  /\ UNCHANGED flowRow

TestAnswered(call) ==
  /\ InEditor /\ call \in Done(editorCalls, "execute")
  /\ editor' = [editor EXCEPT !.test = IF call.answer = Failed THEN "open" ELSE "closed",
                              !.selected = IF call.answer = Failed THEN @ ELSE ""]
  /\ editorCalls' = editorCalls \ {call}
  /\ UNCHANGED flowRow

-----------------------------------------------------------------------------
(* The server: a flow that is or becomes active has to pass Validate.      *)

Stores(def, status) ==
  IF flowRow.gone \/ (status = "active" /\ ~Valid(def))
  THEN UNCHANGED flowRow
  ELSE flowRow' = [flowRow EXCEPT !.def = def, !.status = status]

Accepts(def, status) == ~flowRow.gone /\ (status = "active" => Valid(def))
Reply(call, ok) ==
  editorCalls' = Answered(editorCalls, call, IF ok THEN Ok([status |-> flowRow'.status]) ELSE Failed)

ServerStores(call) ==
  LET toggled == IF call.about.why = "active" THEN "inactive" ELSE "active"
      def == IF call.op = "save" THEN call.about.def ELSE flowRow.def
      status == IF call.op = "save" THEN call.about.status ELSE toggled
  IN Stores(def, status) /\ Reply(call, Accepts(def, status))

EditorServer(call) ==
  /\ call \in editorCalls /\ call.answer = Waiting
  /\ \/ /\ call.op = "list"
        /\ editorCalls' = Answered(editorCalls, call,
             Ok([rows |-> IF flowRow.gone THEN <<>> ELSE <<[def |-> flowRow.def, status |-> flowRow.status]>>]))
        /\ UNCHANGED flowRow
     \/ call.op \in {"save", "toggle"} /\ ServerStores(call)
     \/ call.op = "remove" /\ flowRow' = [flowRow EXCEPT !.gone = TRUE] /\ Reply(call, TRUE)
     \/ call.op = "execute" /\ UNCHANGED flowRow /\ Reply(call, ~flowRow.gone)
  /\ UNCHANGED editor

(* A write the server has done and whose answer is lost looks like a       *)
(* refusal.                                                                *)
EditorAnswerLost(call) ==
  /\ call \in Done(editorCalls, "save") /\ call.answer # Failed
  /\ editorCalls' = Answered(editorCalls, call, Failed)
  /\ UNCHANGED <<editor, flowRow>>

(* Answers to an editor that was left are dropped.                         *)
LateAnswer(call) ==
  /\ call \in Done(editorCalls, "save") /\ call.about.why = "left"
  /\ editorCalls' = editorCalls \ {call}
  /\ UNCHANGED <<editor, flowRow>>

EditorNext ==
  \/ \E verb \in {"toggle", "remove"} : FlowWrite(verb)
  \/ OpenFlow \/ LeaveEditor
  \/ \E id \in CanvasIds(Canvas) \cup {""} : SelectStep(id)
  \/ \E type \in Palette, click \in BOOLEAN : AddNode(type, click)
  \/ \E complete \in SUBSET Readers : UpdateSelected(complete)
  \/ DuplicateSelected \/ DeleteSelected \/ Arrange
  \/ \E k \in DOMAIN Canvas.edges : DeleteEdge(k)
  \/ \E source, target \in CanvasIds(Canvas), handle \in Handles : OnConnect(source, handle, target)
  \/ Save \/ ToggleActive \/ OpenTest \/ CloseTest \/ RunTest
  \/ \E call \in editorCalls :
       \/ FlowListArrives(call) \/ FlowWriteAnswered(call) \/ SaveAnswered(call) \/ TestAnswered(call)
       \/ EditorServer(call) \/ EditorAnswerLost(call) \/ LateAnswer(call)

EditorSpec == EditorInit /\ [][EditorNext]_editorVars

-----------------------------------------------------------------------------
EditorTypeOK ==
  /\ editor.view \in {"list", "editor"}
  /\ {editor.busy, editor.dirty, editor.saving, editor.saved, editor.late} \subseteq BOOLEAN
  /\ editor.canvas.nodes \in Seq(FlowNode) /\ editor.canvas.edges \in Seq(FlowEdge)
  /\ editor.selected \in CanvasIds(Canvas) \cup {""}
  /\ editor.status \in {"draft", "active", "inactive"}
  /\ editor.test \in {"closed", "open", "running"}
  /\ {editor.edits, editor.puts, editor.visits} \subseteq Nat
  /\ flowRow.def \in FlowDefinition /\ flowRow.status \in {"draft", "active", "inactive"}

(* Whatever the operator draws has one start step that nothing leads to,   *)
(* and is a definition the engine reads as it is drawn: every edge joins   *)
(* existing steps by an output of its own.                                 *)
CanvasStaysLegible ==
  InEditor =>
    /\ Legible(ToDefinition(Canvas, flowRow.def.trigger))
    /\ \E i \in DOMAIN Canvas.nodes :
         /\ \A j \in DOMAIN Canvas.nodes : IsStart(Canvas.nodes[j]) <=> j = i
         /\ \A k \in DOMAIN Canvas.edges : Canvas.edges[k].target # Canvas.nodes[i].id

(* When the toolbar says that the flow is saved, the server has what the   *)
(* canvas shows: whatever was refused, lost, tested or toggled meanwhile,  *)
(* unless the canvas was changed while a save was on its way (persist      *)
(* clears "dirty" without looking), a save of an earlier visit was, or the *)
(* flow was removed from the list.                                         *)
SavedLabelIsTrue ==
  InEditor /\ editor.saved /\ ~editor.dirty /\ ~editor.saving /\ ~editor.late =>
    \/ flowRow.gone
    \/ flowRow.def = ToDefinition(Canvas, flowRow.def.trigger)
=============================================================================
