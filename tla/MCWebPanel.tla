----------------------------- MODULE MCWebPanel -----------------------------
EXTENDS WebPanel

ByHand == [event |-> "manual", channels |-> {}, keywords |-> {}]

(* A flow as "Nova automação" creates it, and one stored before the start  *)
(* step had a node of its own, with a step type of those days.             *)
MCStoredDefs ==
  {StarterDefinition(ByHand),
   [nodes |-> <<[id |-> "n1", type |-> "http_request", complete |-> Readers]>>, edges |-> <<>>, trigger |-> ByHand]}

(* Much drawing and no save; two saves of one visit; one save, two visits. *)
MCBudgets ==
  {[edits |-> 3, puts |-> 0, visits |-> 1], [edits |-> 1, puts |-> 2, visits |-> 1], [edits |-> 1, puts |-> 1, visits |-> 2]}

(* Writing in two conversations; resolving and assigning; tagging.         *)
MCShifts ==
  {[duties |-> {"write"}, mine |-> {"v1", "v2"}],
   [duties |-> {"filter", "status", "assign"}, mine |-> {"v1"}],
   [duties |-> {"tag"}, mine |-> {"v1", "v2"}]}
=============================================================================
