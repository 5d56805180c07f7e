------------------------- MODULE AtMostOnceDelivery -------------------------
(***************************************************************************)
(* What a sender promises each of its recipients, with no worker, lock or  *)
(* database in sight: a queued recipient is claimed once, the message      *)
(* leaves at most once and only under a claim, and a recipient that was    *)
(* settled, withdrawn or removed is never queued again.  CampaignDispatch  *)
(* implements this specification for the recipients of a mass-send job,    *)
(* Intake for the replies of attendants and bots.                          *)
(***************************************************************************)
EXTENDS Naturals

CONSTANT Recipients

VARIABLES
  phase,   \* what became of each recipient
  copies   \* how many copies of the message each recipient was sent

vars == <<phase, copies>>

Phases == {"unknown", "queued", "claimed", "settled", "removed"}

Init ==
  /\ phase = [r \in Recipients |-> "unknown"]
  /\ copies = [r \in Recipients |-> 0]

(* Any number of recipients move together: a CSV import, the failure of a  *)
(* whole campaign and a delete that cascades are single transactions.      *)
Enqueue(R) ==
  /\ \A r \in R : phase[r] = "unknown"
  /\ phase' = [r \in Recipients |-> IF r \in R THEN "queued" ELSE phase[r]]
  /\ UNCHANGED copies

GiveUp(R) ==
  /\ \A r \in R : phase[r] = "queued"
  /\ phase' = [r \in Recipients |-> IF r \in R THEN "settled" ELSE phase[r]]
  /\ UNCHANGED copies

Claim(r) ==
  /\ phase[r] = "queued"
  /\ copies[r] = 0
  /\ phase' = [phase EXCEPT ![r] = "claimed"]
  /\ UNCHANGED copies

(* A recipient removed while its message was on the way still receives it. *)
Deliver(r) ==
  /\ phase[r] \in {"claimed", "removed"}
  /\ copies[r] = 0
  /\ copies' = [copies EXCEPT ![r] = 1]
  /\ UNCHANGED phase

Settle(r) ==
  /\ phase[r] = "claimed"
  /\ phase' = [phase EXCEPT ![r] = "settled"]
  /\ UNCHANGED copies

Remove(R) ==
  /\ \A r \in R : phase[r] \in {"queued", "claimed", "settled"}
  /\ phase' = [r \in Recipients |-> IF r \in R THEN "removed" ELSE phase[r]]
  /\ UNCHANGED copies

Next ==
  \/ \E R \in SUBSET Recipients : Enqueue(R) \/ GiveUp(R) \/ Remove(R)
  \/ \E r \in Recipients : Claim(r) \/ Deliver(r) \/ Settle(r)

Spec == Init /\ [][Next]_vars
=============================================================================
