--------------------------- MODULE MCFlowReading ---------------------------
(***************************************************************************)
(* Small inputs for FlowReading: edges that dangle, repeat or have no      *)
(* handle, flows of every trigger, and definitions of every age.           *)
(***************************************************************************)
EXTENDS FlowReading, TLC

Edges == [source : {"a", "b"}, target : {"a", "b", "gone"}, handle : {"", "next", "error"},
          exact : {TRUE}]
EdgeLists == UNION {[1..n -> Edges] : n \in 0..2}
           \cup {<<e, f, g>> : e \in [source : {"a"}, target : {"b", "gone"}, handle : {"", "error"}, exact : {FALSE}],
                               f \in [source : {"a"}, target : {"a", "gone"}, handle : {"", "next"}, exact : {TRUE}],
                               g \in [source : {"a"}, target : {"b"}, handle : {"", "next", "error"}, exact : {TRUE}]}
Types == {"trigger", "send_message", "webhook", "end", "unknown"}
Always == [event |-> "every_message", channels |-> {}, keywords |-> {}]
Definitions ==
  [nodes : {<<[id |-> "a", type |-> s, complete |-> c], [id |-> "b", type |-> t, complete |-> Readers]>> :
              s \in Types, t \in {"trigger", "send_message"}, c \in {{"browser"}, {"engine"}}},
   edges : EdgeLists,
   trigger : {Always}]
MCWalks == [kind : {"walk"}, def : Definitions, node : {1}, handle : {"", "next", "error"}]

OnEvent == [event : {"keyword", "new_conversation", "every_message", "manual"},
             channels : {{}, {"ch1"}}, keywords : {{"boleto"}}]
Starts(type, trigger) ==
  [nodes |-> <<[id |-> "a", type |-> type, complete |-> Readers]>>,
   edges |-> <<>>, trigger |-> trigger]
Startable == {Starts("trigger", d) : d \in OnEvent} \cup {Starts("end", Always)}
Events == [channel : {"ch1", "ch2"}, words : {{}, {"boleto"}}, isNew : BOOLEAN]
MCArrivals == [kind : {"arrival"}, defs : UNION {[1..n -> Startable] : n \in 0..3}, ev : Events]

(* Three steps in today's and older types, two of which may share their    *)
(* identifier, up to two edges, named in their sourceHandle or by a label, *)
(* with and without a trigger.                                             *)
Ages == {"trigger", "http_request", "webhook", "end", "unknown"}
Links == [source : {"a", "b"}, target : {"b", "c", "gone"}, handle : {"", "next"}, exact : {TRUE}]
         \cup [source : {"a", "b"}, target : {"b", "c"}, handle : {"error"}, exact : BOOLEAN]
MCDrawings ==
  [kind : {"drawing"},
   def : [nodes : UNION {{<<[id |-> "a", type |-> s, complete |-> Readers], [id |-> "b", type |-> t, complete |-> c],
                            [id |-> id, type |-> u, complete |-> Readers]>> :
                            s \in Ages, u \in {"trigger", "message"}, c \in Verdicts(CanvasType(t)), id \in {"b", "c"}} :
                            t \in Ages},
          edges : UNION {[1..n -> Links] : n \in 0..2},
          trigger : {[event |-> "manual", channels |-> {}, keywords |-> {}]}]]

(* A condition that an older editor drew: its branches are named in their  *)
(* sourceHandle, or by a label as in the tests of the engine.              *)
Step(id, type) == [id |-> id, type |-> type, complete |-> Readers]
Leads(from, handle, to, exact) == [source |-> from, target |-> to, handle |-> handle, exact |-> exact]
MCLabelled ==
  [kind : {"drawing"},
   def : [nodes : {<<Step("a", "trigger"), Step("b", "condition"), Step("c", "message"), Step("d", "message")>>},
          edges : {<<Leads("a", "", "b", FALSE), Leads("b", "true", "c", yes), Leads("b", "false", "d", no)>> :
                     yes, no \in BOOLEAN},
          trigger : {Always}]]
=============================================================================
