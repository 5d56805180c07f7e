----------------------------- MODULE FlowGraph -----------------------------
(***************************************************************************)
(* The pure half of the automation engine (internal/flows/nodes.go): what  *)
(* a saved flow definition means.  A definition is a sequence of nodes and *)
(* a sequence of edges, as the canvas stores them: identifiers may repeat, *)
(* edges may dangle, and order decides ties.                               *)
(*                                                                         *)
(* A node is [id, type, complete]: "complete" says which readers of its    *)
(* data are content with it, the engine's Validate or the browser's copy:  *)
(* each parses URLs and amounts in its own way.  An edge is                *)
(* [source, target, handle, exact]: "handle" is what edgeHandle returns,   *)
(* the sourceHandle or else the label of older editors, ignoring case, ""  *)
(* for neither; "exact" says that it stands in sourceHandle, spelled as in *)
(* the catalogue, which is the one place the browser looks.  The third     *)
(* field of a definition is the data of its trigger node.  A               *)
(* *models.FlowNode is the position of the node in the sequence.           *)
(***************************************************************************)
EXTENDS Naturals, Sequences, FiniteSets

CONSTANT Names   \* the identifiers that nodes have and edges mention

NoNode == 0   \* the nil pointer

NodeTypes == {"trigger", "send_message", "ask", "condition", "wait", "transfer_queue",
              "add_tag", "crm_move", "webhook", "ai_agent", "end"}

(* Output handles per node type; the first is the default one.             *)
NodeHandles ==
  [trigger        |-> <<"next">>,
   send_message   |-> <<"next">>,
   ask            |-> <<"reply", "timeout">>,
   condition      |-> <<"true", "false">>,
   wait           |-> <<"next">>,
   transfer_queue |-> <<"next">>,
   add_tag        |-> <<"next">>,
   crm_move       |-> <<"next">>,
   webhook        |-> <<"next", "error">>,
   ai_agent       |-> <<"done", "handoff">>,
   end            |-> <<>>]

Handles == {"", "next", "reply", "timeout", "true", "false", "error", "done", "handoff"}

(* Names older editors gave to today's types.                              *)
OldTypes == {"message", "collect", "collect_input", "delay", "http_request", "call_integration",
             "crm_stage", "update_card", "update_card_stage"}

Readers == {"engine", "browser"}

FlowNode == [id : Names, type : NodeTypes \cup OldTypes \cup {"unknown"}, complete : SUBSET Readers]
FlowEdge == [source : Names, target : Names, handle : Handles, exact : BOOLEAN]
Trigger == [event : {"", "keyword", "new_conversation", "every_message", "manual"},
            channels : SUBSET STRING, keywords : SUBSET STRING]
FlowDefinition == [nodes : Seq(FlowNode), edges : Seq(FlowEdge), trigger : Trigger]

DefaultHandle(type) ==
  IF type \in NodeTypes /\ NodeHandles[type] # <<>>
  THEN NodeHandles[type][1]
  ELSE ""

(* Older definitions run as if they were written today.                    *)
Normalize(type) ==
  CASE type = "message" -> "send_message"
    [] type \in {"collect", "collect_input"} -> "ask"
    [] type = "delay" -> "wait"
    [] type \in {"http_request", "call_integration"} -> "webhook"
    [] type \in {"crm_stage", "update_card", "update_card_stage"} -> "crm_move"
    [] OTHER -> type

NormalizeDefinition(def) ==
  [def EXCEPT !.nodes = [i \in DOMAIN def.nodes |->
                           [def.nodes[i] EXCEPT !.type = Normalize(@)]]]

(* The first position in a set of positions, the nil pointer if there is   *)
(* none: what every early-returning loop of nodes.go computes.             *)
FirstOf(S) == IF S = {} THEN NoNode ELSE CHOOSE i \in S : \A j \in S : i <= j

NodeIds(def) == {def.nodes[i].id : i \in DOMAIN def.nodes}

FindNode(def, id) == FirstOf({i \in DOMAIN def.nodes : def.nodes[i].id = id})

(* The trigger, else the first node nothing points to, else the first.     *)
StartNode(def) ==
  LET trigger == FirstOf({i \in DOMAIN def.nodes : def.nodes[i].type = "trigger"})
      targets == {def.edges[k].target : k \in DOMAIN def.edges}
      root == FirstOf({i \in DOMAIN def.nodes : def.nodes[i].id \notin targets})
  IN CASE trigger # NoNode -> trigger
       [] trigger = NoNode /\ root # NoNode -> root
       [] OTHER -> FirstOf(DOMAIN def.nodes)

(* Mutant of NextNode: an edge without handle serves every output.         *)
NextNode_AnyHandle(def, i, handle) ==
  LET wanted == IF handle = "" THEN DefaultHandle(def.nodes[i].type) ELSE handle
      Leaving == {k \in DOMAIN def.edges : def.edges[k].source = def.nodes[i].id}
      named == FirstOf({k \in Leaving : def.edges[k].handle = wanted})
      plain == FirstOf({k \in Leaving : /\ def.edges[k].handle = ""
                                        /\ def.edges[k].target \in NodeIds(def)})
  IN CASE named # 0 -> FindNode(def, def.edges[named].target)
       [] named = 0 /\ plain # 0 -> FindNode(def, def.edges[plain].target)
       [] OTHER -> NoNode

(* The node behind an output.  The first edge that carries the handle wins *)
(* even when it dangles; otherwise, for the default output only, the first *)
(* edge without a handle that leads somewhere.                             *)
NextNode(def, i, handle) ==
  LET default == DefaultHandle(def.nodes[i].type)
      wanted == IF handle = "" THEN default ELSE handle
      Leaving == {k \in DOMAIN def.edges : def.edges[k].source = def.nodes[i].id}
      named == FirstOf({k \in Leaving : def.edges[k].handle = wanted})
      plain == FirstOf({k \in Leaving : /\ def.edges[k].handle = ""
                                        /\ wanted = default
                                        /\ def.edges[k].target \in NodeIds(def)})
  IN CASE named # 0 -> FindNode(def, def.edges[named].target)
       [] named = 0 /\ plain # 0 -> FindNode(def, def.edges[plain].target)
       [] OTHER -> NoNode

-----------------------------------------------------------------------------
(* Starting a flow from an inbound message *)

(* def.trigger is [event, channels, keywords]: the channels it is limited  *)
(* to (none: any) and its keywords; ev.words are the keywords found in the *)
(* text.  A definition that starts at another type of node never fires.    *)
Priority(def, ev) ==
  LET start == StartNode(def)
      trigger == def.trigger
      listens == /\ start # NoNode
                 /\ def.nodes[start].type = "trigger"
                 /\ trigger.channels = {} \/ ev.channel \in trigger.channels
  IN CASE listens /\ trigger.event = "keyword" /\ trigger.keywords \cap ev.words # {} -> 3
       [] listens /\ trigger.event \in {"new_conversation", ""} /\ ev.isNew -> 2
       [] listens /\ trigger.event = "every_message" -> 1
       [] OTHER -> 0

(* Mutant of BestFlow: a later flow of the same priority takes over.       *)
BestFlow_LastWins(defs, ev) ==
  LET Score(i) == Priority(defs[i], ev)
      best == {i \in DOMAIN defs : /\ Score(i) > 0
                                   /\ \A j \in DOMAIN defs : Score(j) <= Score(i)}
  IN IF best = {} THEN 0 ELSE CHOOSE i \in best : \A j \in best : j <= i

(* Which of the active flows, oldest first, answers the message: the first *)
(* of those with the highest priority; 0 for none.                         *)
BestFlow(defs, ev) ==
  LET Score(i) == Priority(defs[i], ev)
  IN FirstOf({i \in DOMAIN defs : /\ Score(i) > 0
                                  /\ \A j \in DOMAIN defs : Score(j) <= Score(i)})

-----------------------------------------------------------------------------
(* Activation *)

(* Mutant of Valid: edges to removed nodes are let through.                *)
Valid_DanglingEdges(def) ==
  LET Triggers == {i \in DOMAIN def.nodes : def.nodes[i].type = "trigger"}
  IN /\ Cardinality(NodeIds(def)) = Len(def.nodes)
     /\ \A i \in DOMAIN def.nodes :
          def.nodes[i].type \in NodeTypes /\ "engine" \in def.nodes[i].complete
     /\ Cardinality(Triggers) = 1
     /\ Len(def.nodes) > 1 => NextNode(def, StartNode(def), "") # NoNode

(* Validate finds no problem.                                              *)
Valid(def) ==
  LET Ids == NodeIds(def)
      Triggers == {i \in DOMAIN def.nodes : def.nodes[i].type = "trigger"}
  IN /\ Cardinality(Ids) = Len(def.nodes)
     /\ \A i \in DOMAIN def.nodes :
          def.nodes[i].type \in NodeTypes /\ "engine" \in def.nodes[i].complete
     /\ Cardinality(Triggers) = 1
     /\ \A k \in DOMAIN def.edges :
          def.edges[k].source \in Ids /\ def.edges[k].target \in Ids
     /\ Len(def.nodes) > 1 => NextNode(def, StartNode(def), "") # NoNode

-----------------------------------------------------------------------------
(* The definition starts at its trigger, and no output that has an edge    *)
(* leads nowhere.                                                          *)
LeadsSomewhere(def) ==
  /\ StartNode(def) \in DOMAIN def.nodes
  /\ def.nodes[StartNode(def)].type = "trigger"
  /\ \A k \in DOMAIN def.edges :
       NextNode(def, FindNode(def, def.edges[k].source), def.edges[k].handle) # NoNode
=============================================================================
