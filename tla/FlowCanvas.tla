----------------------------- MODULE FlowCanvas -----------------------------
(***************************************************************************)
(* The pure half of the flow editor in the browser                         *)
(* (web/src/pages/flows/catalog.js): how a stored definition becomes       *)
(* the drawing an operator edits, how the drawing is written back, and the *)
(* browser's own copy of the engine's Validate.                            *)
(*                                                                         *)
(* A canvas is [nodes, edges] in the records of FlowGraph, always in       *)
(* today's types and with edges that name their output exactly.            *)
(* "complete" stands for the configuration the type requires; an           *)
(* incomplete node has the field, empty, so that the defaults merged into  *)
(* it change nothing.  Positions and titles are left out.                  *)
(***************************************************************************)
EXTENDS FlowGraph, Positions

(* The catalogue of steps: their outputs, in order; whether the palette    *)
(* offers them; whether the default configuration is already complete.     *)
NODE_SPECS ==
  [trigger        |-> [outputs |-> <<"next">>,             offered |-> FALSE, ready |-> TRUE],
   send_message   |-> [outputs |-> <<"next">>,             offered |-> TRUE,  ready |-> FALSE],
   ask            |-> [outputs |-> <<"reply", "timeout">>, offered |-> TRUE,  ready |-> FALSE],
   condition      |-> [outputs |-> <<"true", "false">>,    offered |-> TRUE,  ready |-> TRUE],
   wait           |-> [outputs |-> <<"next">>,             offered |-> TRUE,  ready |-> TRUE],
   transfer_queue |-> [outputs |-> <<"next">>,             offered |-> TRUE,  ready |-> FALSE],
   add_tag        |-> [outputs |-> <<"next">>,             offered |-> TRUE,  ready |-> FALSE],
   crm_move       |-> [outputs |-> <<"next">>,             offered |-> TRUE,  ready |-> FALSE],
   webhook        |-> [outputs |-> <<"next", "error">>,    offered |-> TRUE,  ready |-> FALSE],
   ai_agent       |-> [outputs |-> <<"done", "handoff">>,  offered |-> TRUE,  ready |-> FALSE],
   end            |-> [outputs |-> <<>>,                   offered |-> TRUE,  ready |-> TRUE]]

LEGACY_TYPES ==
  [message |-> "send_message", collect |-> "ask", collect_input |-> "ask", delay |-> "wait",
   http_request |-> "webhook", call_integration |-> "webhook", crm_stage |-> "crm_move",
   update_card |-> "crm_move", update_card_stage |-> "crm_move"]

(* The outputs a step shows, one source handle each.                       *)
StepOutputs(type) == {NODE_SPECS[type].outputs[i] : i \in DOMAIN NODE_SPECS[type].outputs}
FirstOutput(type) == IF NODE_SPECS[type].outputs = <<>> THEN "" ELSE NODE_SPECS[type].outputs[1]

(* What the readers may make of the data of a step: an end needs none, and *)
(* only the delay of a wait and the URL of a webhook are parsed, each in   *)
(* its own way; neither reader is the stricter one.                        *)
Verdicts(type) ==
  CASE type = "end" -> {Readers}
    [] type \in {"wait", "webhook"} -> SUBSET Readers
    [] OTHER -> {{}, Readers}

CanvasIds(c) == {c.nodes[i].id : i \in DOMAIN c.nodes}
StepOf(c, id) == c.nodes[FirstOf({i \in DOMAIN c.nodes : c.nodes[i].id = id})]
IsStart(node) == node.type = "trigger"

(* A step type the catalogue does not know is drawn as a message.          *)
CanvasType(type) ==
  LET today == IF type \in DOMAIN LEGACY_TYPES THEN LEGACY_TYPES[type] ELSE type
  IN IF today \in DOMAIN NODE_SPECS THEN today ELSE "send_message"

-----------------------------------------------------------------------------
(* Mutant of ToCanvas: every edge leaves by the first output of its step.  *)
ToCanvas_FirstOutput(def, fresh) ==
  LET nodes == [i \in DOMAIN def.nodes |-> [def.nodes[i] EXCEPT !.type = CanvasType(@)]]
      drawn == [nodes |-> nodes, edges |-> <<>>]
      ids == CanvasIds(drawn)
      kept == At(def.edges, {k \in DOMAIN def.edges : {def.edges[k].source, def.edges[k].target} \subseteq ids})
      edges == [k \in DOMAIN kept |->
                  [kept[k] EXCEPT !.handle = FirstOutput(StepOf(drawn, kept[k].source).type),
                                  !.exact = TRUE]]
  IN [nodes |-> nodes, edges |-> edges]

(* A stored definition as React Flow state.  Edges of missing steps are    *)
(* dropped; an edge whose sourceHandle is not an output of its step takes  *)
(* the first one, whatever its label says; and a flow from before triggers *)
(* existed gets a manual one in front of its root.                         *)
ToCanvas(def, fresh) ==
  LET nodes == [i \in DOMAIN def.nodes |-> [def.nodes[i] EXCEPT !.type = CanvasType(@)]]
      drawn == [nodes |-> nodes, edges |-> <<>>]
      ids == CanvasIds(drawn)
      kept == At(def.edges, {k \in DOMAIN def.edges : {def.edges[k].source, def.edges[k].target} \subseteq ids})
      Handle(e) == LET type == StepOf(drawn, e.source).type
                   IN IF e.exact /\ e.handle \in StepOutputs(type) THEN e.handle ELSE FirstOutput(type)
      edges == [k \in DOMAIN kept |-> [kept[k] EXCEPT !.handle = Handle(kept[k]), !.exact = TRUE]]
      roots == {i \in DOMAIN nodes : nodes[i].id \notin {edges[k].target : k \in DOMAIN edges}}
      root == nodes[IF roots = {} THEN 1 ELSE FirstOf(roots)]
  IN IF nodes = <<>> \/ \E i \in DOMAIN nodes : IsStart(nodes[i])
     THEN [nodes |-> nodes, edges |-> edges]
     ELSE [nodes |-> <<[id |-> fresh, type |-> "trigger", complete |-> Readers]>> \o nodes,
           edges |-> Append(edges, [source |-> fresh, target |-> root.id, handle |-> "next", exact |-> TRUE])]

(* What a save sends: the canvas as it is, an undefined handle left out;   *)
(* labels are not sent.                                                    *)
ToDefinition(c, trigger) == [nodes |-> c.nodes, edges |-> c.edges, trigger |-> trigger]

(* A new flow is its start step alone.                                     *)
StarterDefinition(trigger) ==
  [nodes |-> <<[id |-> "start", type |-> "trigger", complete |-> Readers]>>,
   edges |-> <<>>, trigger |-> trigger]

-----------------------------------------------------------------------------
(* Steps no path from the start reaches: outside of some set that holds    *)
(* the start and everything its members lead to.                           *)
Unreached(c, start) ==
  {id \in CanvasIds(c) : \E S \in SUBSET CanvasIds(c) :
      /\ start \in S /\ id \notin S
      /\ \A k \in DOMAIN c.edges : c.edges[k].source \in S => c.edges[k].target \in S}

(* Mutant of ValidateFlow: nobody asks whether the start is connected.     *)
ValidateFlow_LooseStart(c) ==
  LET triggers == {i \in DOMAIN c.nodes : IsStart(c.nodes[i])}
      ids == CanvasIds(c)
  IN [byNode |-> {<<c.nodes[i].id, "incomplete">> : i \in {j \in DOMAIN c.nodes : "browser" \notin c.nodes[j].complete}},
      global |-> {p \in {"no start", "two starts", "dangling"} :
                    CASE p = "no start" -> triggers = {}
                      [] p = "two starts" -> Cardinality(triggers) > 1
                      [] p = "dangling" -> \E k \in DOMAIN c.edges :
                                             \/ c.edges[k].source \notin ids
                                             \/ c.edges[k].target \notin ids},
      warnings |-> {}]

(* The problems of a canvas: those of a step, with the data as the browser *)
(* reads it, those of the whole, and the warnings, which stop nothing.     *)
ValidateFlow(c) ==
  LET triggers == {i \in DOMAIN c.nodes : IsStart(c.nodes[i])}
      ids == CanvasIds(c)
      start == c.nodes[FirstOf(triggers)].id
      loose == /\ triggers # {}
               /\ Len(c.nodes) > 1
               /\ \A k \in DOMAIN c.edges : c.edges[k].source # start
  IN [byNode |-> {<<c.nodes[i].id, "incomplete">> : i \in {j \in DOMAIN c.nodes : "browser" \notin c.nodes[j].complete}}
                   \cup (IF loose THEN {<<start, "not connected">>} ELSE {}),
      global |-> {p \in {"no start", "two starts", "dangling"} :
                    CASE p = "no start" -> triggers = {}
                      [] p = "two starts" -> Cardinality(triggers) > 1
                      [] p = "dangling" -> \E k \in DOMAIN c.edges :
                                             \/ c.edges[k].source \notin ids
                                             \/ c.edges[k].target \notin ids},
      warnings |-> IF triggers = {} THEN {} ELSE Unreached(c, start)]

(* validation.count = 0: the editor shows nothing that blocks activation.  *)
NoProblems(c) == ValidateFlow(c).byNode = {} /\ ValidateFlow(c).global = {}

-----------------------------------------------------------------------------
(* A canvas as the editor means it: steps that can be told apart, one of   *)
(* them the start, which nothing leads to; edges that join two steps by an *)
(* output of the first, or by none if it has none, one by each.            *)
WellDrawn(c) ==
  /\ \A i, j \in DOMAIN c.nodes : c.nodes[i].id = c.nodes[j].id => i = j
  /\ \E i \in DOMAIN c.nodes : \A j \in DOMAIN c.nodes : IsStart(c.nodes[j]) <=> j = i
  /\ \A k \in DOMAIN c.edges :
       /\ \E i \in DOMAIN c.nodes :
            /\ c.nodes[i].id = c.edges[k].source
            /\ \/ c.edges[k].handle \in StepOutputs(c.nodes[i].type)
               \/ c.edges[k].handle = "" /\ StepOutputs(c.nodes[i].type) = {}
       /\ \E i \in DOMAIN c.nodes : c.nodes[i].id = c.edges[k].target /\ ~IsStart(c.nodes[i])
       /\ \A j \in DOMAIN c.edges :
            c.edges[j].source = c.edges[k].source /\ c.edges[j].handle = c.edges[k].handle => j = k

-----------------------------------------------------------------------------
(* What two definitions have to share to run alike *)

(* The identifier behind an output, "" for none.                           *)
Follow(def, id, handle) ==
  LET next == NextNode(def, FindNode(def, id), handle)
  IN IF next = NoNode THEN "" ELSE def.nodes[next].id

(* The first step a run works on, past the trigger.                        *)
FirstStep(def) ==
  LET start == def.nodes[StartNode(def)]
  IN IF IsStart(start) THEN Follow(def, start.id, "") ELSE start.id

(* Every edge joins steps that exist and leaves by an output of its step,  *)
(* named or left out for the default, and no output has two edges.         *)
Legible(def) ==
  LET Out(e) == LET type == def.nodes[FindNode(def, e.source)].type
                IN IF e.handle = "" THEN DefaultHandle(type) ELSE e.handle
  IN /\ Cardinality(NodeIds(def)) = Len(def.nodes)
     /\ \A i \in DOMAIN def.nodes : def.nodes[i].type \in NodeTypes
     /\ \A k \in DOMAIN def.edges :
          /\ {def.edges[k].source, def.edges[k].target} \subseteq NodeIds(def)
          /\ Out(def.edges[k]) \in
               StepOutputs(def.nodes[FindNode(def, def.edges[k].source)].type) \cup {""}
          /\ \A j \in DOMAIN def.edges :
               /\ def.edges[j].source = def.edges[k].source
               /\ Out(def.edges[j]) = Out(def.edges[k])
               => j = k

(* Every edge of an output other than the default one names it where the   *)
(* browser looks for it.                                                   *)
Spelled(def) ==
  \A k \in DOMAIN def.edges :
    LET e == def.edges[k]
    IN e.exact \/ e.handle \in {"", DefaultHandle(def.nodes[FindNode(def, e.source)].type)}
=============================================================================
