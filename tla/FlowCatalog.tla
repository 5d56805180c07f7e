---------------------------- MODULE FlowCatalog ----------------------------
(***************************************************************************)
(* The flows of a company and the requests that edit them                  *)
(* (internal/flows/handler.go).  UpdateFlow is three database statements:  *)
(* it reads the row and validates what it is about to activate, updates    *)
(* the columns the request names, and, when that turned an active flow     *)
(* off, stops its runs.  Nothing holds the row from one to the next.       *)
(***************************************************************************)
EXTENDS FlowGraph

CONSTANTS
  Flows,         \* flow rows, numbered in the order of created_at
  Definitions,   \* definitions the editor can save
  NoDefinition,  \* the request leaves the definition alone
  Editors,       \* concurrent UpdateFlow requests
  Requests,      \* what such a request may say: [status, def]
  Catalogs       \* the rows the company may have at the start

Requested == {"draft", "active", "inactive"}
FlowStatus == Requested \cup {"absent", "deleted"}
Rows == [status : FlowStatus, def : Definitions \cup {NoDefinition}]

ASSUME CatalogAssumption ==
  /\ Flows \subseteq Nat \ {0}
  /\ NoDefinition \notin FlowDefinition
  /\ Definitions \subseteq FlowDefinition
  /\ Requests \subseteq [status : Requested \cup {""}, def : Definitions \cup {NoDefinition}]
  /\ Catalogs \subseteq [Flows -> Rows]
  /\ \A cat \in Catalogs, f \in Flows :
       /\ cat[f].status \in Requested => cat[f].def \in Definitions
       /\ cat[f].status = "active" => Valid(NormalizeDefinition(cat[f].def))

VARIABLES
  flow,   \* [status, def] of each row; "absent" and "deleted" rows do not exist
  edit    \* the requests: next statement, row, status read, columns to write

catalogVars == <<flow, edit>>

NoEdit == [pc |-> "idle", flow |-> 0, was |-> "", status |-> "", def |-> NoDefinition]

Edits ==
  [pc : {"idle", "write", "stop"}, flow : Flows \cup {0}, was : FlowStatus \cup {""},
   status : Requested \cup {""}, def : Definitions \cup {NoDefinition}]

Stored(f) == flow[f].status \in Requested

(* What the engine makes of the saved definition_json.                     *)
Saved(f) == NormalizeDefinition(flow[f].def)

CatalogTypeOK ==
  /\ flow \in [Flows -> Rows]
  /\ \A f \in Flows : Stored(f) => flow[f].def \in Definitions
  /\ edit \in [Editors -> Edits]

CatalogInit ==
  /\ flow \in Catalogs
  /\ edit = [e \in Editors |-> NoEdit]

(* A new flow is a draft whatever the request says.                        *)
CreateFlow(f, def) ==
  /\ flow[f].status = "absent"
  /\ \A g \in Flows : g < f => flow[g].status # "absent"
  /\ flow' = [flow EXCEPT ![f] = [status |-> "draft", def |-> def]]
  /\ UNCHANGED edit

(* Read the row, validate when the outcome would be an active flow; an     *)
(* invalid one is refused and nothing happens.                             *)
ReadCurrent(e, f, req) ==
  LET final == IF req.status = "" THEN flow[f].status ELSE req.status
      resulting == IF req.def = NoDefinition THEN flow[f].def ELSE req.def
  IN /\ edit[e].pc = "idle"
     /\ Stored(f)
     /\ final = "active" => Valid(NormalizeDefinition(resulting))
     /\ edit' = [edit EXCEPT ![e] = [pc |-> "write", flow |-> f, was |-> flow[f].status,
                                     status |-> req.status, def |-> req.def]]
     /\ UNCHANGED flow

(* UPDATE ... COALESCE: a column the request does not name keeps the value *)
(* it has now, which may not be the one that was validated.                *)
WriteFlow(e) ==
  LET r == edit[e]
      row == flow[r.flow]
      new == [status |-> IF r.status = "" THEN row.status ELSE r.status,
              def |-> IF r.def = NoDefinition THEN row.def ELSE r.def]
  IN /\ r.pc = "write"
     /\ \/ /\ Stored(r.flow)
           /\ flow' = [flow EXCEPT ![r.flow] = new]
           /\ edit' = [edit EXCEPT ![e] =
                         IF new.status # "active" /\ r.was = "active"
                         THEN [r EXCEPT !.pc = "stop"] ELSE NoEdit]
        \/ /\ ~Stored(r.flow)
           /\ edit' = [edit EXCEPT ![e] = NoEdit]
           /\ UNCHANGED flow

(* The statement that follows cancels the flow's runs (FlowEngine).        *)
EndEdit(e) ==
  /\ edit[e].pc = "stop"
  /\ edit' = [edit EXCEPT ![e] = NoEdit]
  /\ UNCHANGED flow

(* Deleting the row cascades to its executions (FlowEngine).               *)
RemoveFlow(f) ==
  /\ Stored(f)
  /\ flow' = [flow EXCEPT ![f].status = "deleted"]
  /\ UNCHANGED edit

EditorStep ==
  \/ \E f \in Flows, def \in Definitions : CreateFlow(f, def)
  \/ \E e \in Editors, f \in Flows, req \in Requests : ReadCurrent(e, f, req)
  \/ \E e \in Editors : WriteFlow(e)

-----------------------------------------------------------------------------
(* "Drafts may be half-built; an active flow must be able to run"          *)
(* (UpdateFlow): whatever the requests, an active row would pass Validate. *)
ActiveFlowsAreValid ==
  \A f \in Flows : flow[f].status = "active" => Valid(Saved(f))
=============================================================================
