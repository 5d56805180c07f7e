----------------------------- MODULE PanelCalls -----------------------------
(***************************************************************************)
(* The HTTP calls a page of the panel has in flight, as the pages see them *)
(* through web/src/api/client.js: a call is sent, the server handles       *)
(* it, and some time later its answer runs the continuation the page left  *)
(* behind.  Answers of two calls may arrive in either order.               *)
(*                                                                         *)
(* A call is [slot, op, about, answer]: the operation, what it is about,   *)
(* and the answer, Waiting until the server has handled it.  Slots only    *)
(* tell calls apart that are otherwise equal.                              *)
(***************************************************************************)
EXTENDS Naturals, Sequences, FiniteSets

CONSTANTS MaxInFlight,   \* bound: calls of one page in flight at a time
          MaxActs,       \* bound: what the operator starts on a page
          MaxLost        \* bound: calls of a page that fail or whose answer is lost

ASSUME PanelCallsAssumption ==
  MaxInFlight \in Nat \ {0} /\ MaxActs \in Nat /\ MaxLost \in Nat

None == "none"

Waiting == [kind |-> "waiting"]
Failed == [kind |-> "failed"]          \* refused, or the answer was lost on its way
Ok(result) == [kind |-> "ok", result |-> result]

(* On most pages a call that fails takes the room of an act.               *)
Room(acts, lost) == acts + lost < MaxActs
MayFail(acts, lost) == lost < MaxLost /\ Room(acts, lost)

CanCall(calls) == Cardinality(calls) < MaxInFlight

FreeSlot(calls) == CHOOSE s \in 1..MaxInFlight : \A c \in calls : c.slot # s

(* ApiClient.get, post, put, patch and delete differ in the method alone.  *)
Send(calls, op, about) ==
  calls \cup {[slot |-> FreeSlot(calls), op |-> op, about |-> about, answer |-> Waiting]}

Answered(calls, call, answer) == (calls \ {call}) \cup {[call EXCEPT !.answer = answer]}

(* The call is over and its continuation sends the next one of a chain.    *)
Chain(calls, call, op, about) == Send(calls \ {call}, op, about)

Sent(calls, op) == {c \in calls : c.op = op /\ c.answer = Waiting}
Done(calls, op) == {c \in calls : c.op = op /\ c.answer # Waiting}

CallType(ops, abouts, results) ==
  [slot : 1..MaxInFlight, op : ops, about : abouts,
   answer : {Waiting, Failed} \cup [kind : {"ok"}, result : results]]
=============================================================================
