---------------------------- MODULE FlowReading ----------------------------
(***************************************************************************)
(* How a stored definition is read, by the engine and by the editor.  The  *)
(* other modules use NextNode, BestFlow and the warnings of validateFlow   *)
(* as lookups; here the loops of the code that compute them run turn by    *)
(* turn.  And what the editor makes of a definition is compared with what  *)
(* the engine makes of it.                                                 *)
(*                                                                         *)
(* A behaviour reads one input: a walk through a definition, a message     *)
(* that arrives at a list of active flows, or a drawing of a stored flow.  *)
(***************************************************************************)
EXTENDS FlowCanvas

CONSTANTS Walks,     \* definitions with the node and the output to leave
          Arrivals,  \* active flows, oldest first, with a message
          Drawings   \* stored flows, of any age, that the editor opens

InboundEvent == [channel : STRING, words : SUBSET STRING, isNew : BOOLEAN]

(* newId draws an identifier for a missing start that no step has.         *)
ASSUME ReadingAssumption ==
  /\ Walks \subseteq [kind : {"walk"}, def : FlowDefinition, node : Nat, handle : Handles]
  /\ \A walk \in Walks : walk.node \in DOMAIN walk.def.nodes
  /\ Arrivals \subseteq [kind : {"arrival"}, defs : Seq(FlowDefinition), ev : InboundEvent]
  /\ Drawings \subseteq [kind : {"drawing"}, def : FlowDefinition]
  /\ \A drawing \in Drawings :
       \/ "start" \notin NodeIds(drawing.def)
       \/ \E i \in DOMAIN drawing.def.nodes : IsStart(drawing.def.nodes[i])

VARIABLES input,
          place,      \* the element of the list the loop is at
          found,      \* NextNode: fallback; HandleInbound: best
          priority,   \* bestPriority
          reach,      \* validateFlow: the steps reached so far
          queue,      \* those whose edges have not been followed
          ended

vars == <<input, place, found, priority, reach, queue, ended>>

(* triggers[0] of validateFlow, if there is one.                           *)
Start(c) ==
  LET triggers == {i \in DOMAIN c.nodes : IsStart(c.nodes[i])}
  IN IF triggers = {} THEN {} ELSE {c.nodes[FirstOf(triggers)].id}

Canvas == ToCanvas(input.def, "start")

Init ==
  /\ input \in Walks \cup Arrivals \cup Drawings
  /\ place = 1 /\ found = NoNode /\ priority = 0 /\ ended = FALSE
  /\ reach = IF input.kind = "drawing" THEN Start(Canvas) ELSE {}
  /\ queue = reach

-----------------------------------------------------------------------------
(* NextNode, one edge: a named edge returns at once, the first plain edge  *)
(* that leads somewhere is remembered.                                     *)
FollowEdge ==
  LET node == input.def.nodes[input.node]
      default == DefaultHandle(node.type)
      wanted == IF input.handle = "" THEN default ELSE input.handle
      e == input.def.edges[place]
  IN /\ input.kind = "walk" /\ ~ended /\ place \in DOMAIN input.def.edges
     /\ \/ /\ e.source # node.id
           /\ UNCHANGED <<found, ended>>
        \/ /\ e.source = node.id /\ e.handle = wanted
           /\ found' = FindNode(input.def, e.target) /\ ended' = TRUE
        \/ /\ e.source = node.id /\ e.handle # wanted
           /\ found' = IF e.handle = "" /\ wanted = default /\ found = NoNode
                       THEN FindNode(input.def, e.target) ELSE found
           /\ UNCHANGED ended
     /\ place' = place + 1
     /\ UNCHANGED <<input, priority, reach, queue>>

(* HandleInbound, one active flow: a higher priority takes over.           *)
MatchFlow ==
  LET p == Priority(input.defs[place], input.ev)
  IN /\ input.kind = "arrival" /\ ~ended /\ place \in DOMAIN input.defs
     /\ IF p > priority THEN found' = place /\ priority' = p ELSE UNCHANGED <<found, priority>>
     /\ place' = place + 1
     /\ UNCHANGED <<input, reach, queue, ended>>

ListEnds ==
  /\ \/ input.kind = "walk" /\ place \notin DOMAIN input.def.edges
     \/ input.kind = "arrival" /\ place \notin DOMAIN input.defs
  /\ ~ended /\ ended' = TRUE
  /\ UNCHANGED <<input, place, found, priority, reach, queue>>

(* validateFlow, one member of the queue: the first one in the code, any   *)
(* one here.  Its edges lead to steps that join the queue once.            *)
SearchOn ==
  /\ input.kind = "drawing"
  /\ \E step \in queue :
       LET new == {Canvas.edges[k].target : k \in {l \in DOMAIN Canvas.edges : Canvas.edges[l].source = step}} \ reach
       IN queue' = (queue \ {step}) \cup new /\ reach' = reach \cup new
  /\ UNCHANGED <<input, place, found, priority, ended>>

SearchEnds ==
  /\ input.kind = "drawing" /\ queue = {}
  /\ ~ended /\ ended' = TRUE
  /\ UNCHANGED <<input, place, found, priority, reach, queue>>

Next == FollowEdge \/ MatchFlow \/ ListEnds \/ SearchOn \/ SearchEnds

Spec == Init /\ [][Next]_vars

-----------------------------------------------------------------------------
(* The loops return what the lookups say: NextNode the node behind the     *)
(* edge, HandleInbound the oldest flow of the highest priority, and the    *)
(* search warns of the steps that no path from the start reaches.          *)
LookupsAreTheLoops ==
  /\ input.kind = "walk" /\ ended => found = NextNode(input.def, input.node, input.handle)
  /\ input.kind = "arrival" /\ ended => found = BestFlow(input.defs, input.ev)
  /\ input.kind = "drawing" /\ ended =>
       ValidateFlow(Canvas).warnings = IF Start(Canvas) = {} THEN {} ELSE CanvasIds(Canvas) \ reach

(* A definition that Validate lets an operator activate starts at its only *)
(* trigger, and no output that has an edge leads nowhere.                  *)
ValidFlowsLeadSomewhere ==
  input.kind = "walk" /\ Valid(input.def) => LeadsSomewhere(input.def)

(* The engine starts what a save of the canvas stores where it started the *)
(* flow, and every output of every step leads where it led.                *)
RunsAsBefore(def) ==
  LET saved == ToDefinition(Canvas, def.trigger)
  IN /\ FirstStep(saved) = FirstStep(def)
     /\ \A i \in DOMAIN def.nodes : \A handle \in StepOutputs(def.nodes[i].type) :
          Follow(saved, def.nodes[i].id, handle) = Follow(def, def.nodes[i].id, handle)

(* Opening a stored flow in the editor and saving it leaves what it does,  *)
(* for a definition with at most one edge per output, each named where     *)
(* today's editor writes it, unless it is the default output.              *)
CanvasKeepsMeaning ==
  LET def == NormalizeDefinition(input.def)
  IN input.kind = "drawing" /\ Legible(def) /\ Spelled(def) => RunsAsBefore(def)

(* What the comment on toCanvas promises ("canonical or legacy", while the *)
(* engine's tests have "older editors used labels"): the same wherever the *)
(* engine finds the name.  The code breaks it: a save drops the label, and *)
(* the edge leaves by the first output from then on.                       *)
LegacyKeepsMeaning ==
  LET def == NormalizeDefinition(input.def)
  IN input.kind = "drawing" /\ Legible(def) => RunsAsBefore(def)

(* The editor's "client copy of the engine's Validate" and the engine      *)
(* differ in nothing but what they make of the data of single steps and    *)
(* steps of one identifier, which only the engine looks for: a canvas      *)
(* without problems is accepted, once saved, if the engine is content with *)
(* each step alone; a definition the engine accepts shows no problem, if   *)
(* the browser is.  And a run that leaves a step drawn without a warning   *)
(* arrives at another such step.                                           *)
ClientValidateAgrees ==
  input.kind = "drawing" =>
  LET saved == ToDefinition(Canvas, input.def.trigger)
      Reached == CanvasIds(Canvas) \ ValidateFlow(Canvas).warnings
      Content(reader) == \A i \in DOMAIN saved.nodes : reader \in saved.nodes[i].complete
      distinct == Cardinality(NodeIds(saved)) = Len(saved.nodes)
  IN /\ NoProblems(Canvas) /\ distinct /\ Content("engine") => Valid(saved)
     /\ Valid(saved) /\ Content("browser") => NoProblems(Canvas)
     /\ \A id \in Reached : \A handle \in StepOutputs(StepOf(Canvas, id).type) :
          Follow(saved, id, handle) \in Reached \cup {""}
=============================================================================
