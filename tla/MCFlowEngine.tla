---------------------------- MODULE MCFlowEngine ----------------------------
(***************************************************************************)
(* Small flows, conversations and goroutines for FlowEngine.               *)
(***************************************************************************)
EXTENDS FlowEngine, TLC

CONSTANTS c1, x1, x2, h1, h2, s1, e1, e2, u1

Node(id, type) == [id |-> id, type |-> type, complete |-> Readers]
Edge(source, target, handle) == [source |-> source, target |-> target, handle |-> handle, exact |-> TRUE]
OnEveryMessage == [event |-> "every_message", channels |-> {}, keywords |-> {}]

(* Asks, hands over to a queue on an answer, ends on silence.              *)
Triage ==
  [nodes |-> <<Node("t", "trigger"), Node("q", "ask"), Node("f", "transfer_queue"), Node("z", "end")>>,
   edges |-> <<Edge("t", "q", ""), Edge("q", "f", "reply"), Edge("q", "z", "timeout")>>,
   trigger |-> OnEveryMessage]

(* A condition that leads back to itself, an AI conversation, a delay.     *)
Cycle ==
  [nodes |-> <<Node("t", "trigger"), Node("w", "wait"), Node("c", "condition"), Node("a", "ai_agent"),
               Node("h", "webhook")>>,
   edges |-> <<Edge("t", "w", ""), Edge("w", "c", ""), Edge("c", "c", "true"), Edge("c", "a", "false"),
               Edge("a", "h", "handoff")>>,
   trigger |-> OnEveryMessage]

(* Half-built by an older editor: the trigger is connected to nothing.     *)
Broken ==
  [nodes |-> <<Node("t", "trigger"), Node("m", "message")>>, edges |-> <<>>,
   trigger |-> OnEveryMessage]

Row1(status, def) == [status |-> status, def |-> def]
Say(status, def) == [status |-> status, def |-> def]

TriageOnly == {Triage}
TriageOn == {<<Row1("active", Triage)>>}
CycleOn == {<<Row1("active", Cycle)>>}
Edited == {Cycle, Broken}
DraftOnly == {<<Row1("draft", Cycle)>>}
Edits1 == {Say("", Broken), Say("active", NoDefinition), Say("inactive", NoDefinition)}
BreakIt == {Say("", Broken), Say("inactive", NoDefinition)}
TurnOff == {Say("inactive", NoDefinition), Say("active", NoDefinition)}

Interchangeable == Permutations({x1, x2}) \cup Permutations({h1, h2})

Chat == {[channel |-> "whatsapp", words |-> {}]}
=============================================================================
