-------------------------- MODULE CampaignDispatch --------------------------
(***************************************************************************)
(* Mass campaigns (internal/campaigns): the HTTP handlers that create,     *)
(* fill, start and cancel a campaign, and the dispatcher that every API    *)
(* replica runs.  PostgreSQL is the queue: a dispatcher works inside one   *)
(* transaction that holds an advisory lock on the campaign, claims one     *)
(* recipient, commits the claim, calls the Meta API outside of any         *)
(* transaction and writes the outcome afterwards.                          *)
(*                                                                         *)
(* One action is one database statement or one external call, so every     *)
(* other actor may act between two statements of dispatchRecipient.        *)
(***************************************************************************)
EXTENDS Naturals, FiniteSets

CONSTANTS
  Campaigns,      \* campaign rows
  Recipients,     \* campaign_recipients rows
  CampaignOf,     \* the campaign each recipient row belongs to
  ValidPhone,     \* recipients whose phone has 8 to 15 digits
  Workers,        \* API replicas, one dispatcher goroutine each
  NoCampaign,     \* the dispatcher works on no campaign
  NoRecipient,    \* the dispatcher has picked no recipient
  MaxFaults,      \* bound: crashes, restarts and failed statements
  MaxDeletes      \* bound: contacts deleted by an operator

ASSUME CampaignAssumption ==
  /\ CampaignOf \in [Recipients -> Campaigns]
  /\ ValidPhone \subseteq Recipients
  /\ NoCampaign \notin Campaigns
  /\ NoRecipient \notin Recipients
  /\ MaxFaults \in Nat
  /\ MaxDeletes \in Nat

VARIABLES
  camp,       \* campaigns.status ("absent" before the row is inserted)
  rcpt,       \* campaign_recipients.status ("deleted" after the cascade)
  configOK,   \* whether campaignConfigQuery finds a usable channel and template
  todo,       \* campaigns the current tick of a dispatcher has still to visit
  pc,         \* the next statement of dispatchRecipient
  cur,        \* the campaign of the dispatcher's transaction
  pick,       \* the recipient it selected
  result,     \* what the Meta call returned
  accepted,   \* messages the Meta API accepted for each recipient
  lateSends,  \* messages accepted for a campaign that was already cancelled
  stray,      \* recipients imported while their campaign was not a draft
  faults,     \* faults so far
  deletes     \* deletions so far

dbVars == <<camp, rcpt, configOK>>
workerVars == <<todo, pc, cur, pick, result>>
observed == <<accepted, lateSends, stray>>
budget == <<faults, deletes>>
vars == <<camp, rcpt, configOK, todo, pc, cur, pick, result,
          accepted, lateSends, stray, faults, deletes>>

CampaignStatus ==
  {"absent", "draft", "scheduled", "processing", "completed", "cancelled"}
RecipientStatus ==
  {"absent", "pending", "processing", "sent", "failed", "deleted"}

(* Statements of dispatchRecipient, named for what has been done before.   *)
InTransaction == {"locked", "clear", "configured", "throttled", "checked"}
Steps == InTransaction \cup {"idle", "sending", "recording"}

RecipientsOf(c) == {r \in Recipients : CampaignOf[r] = c}
WithStatus(c, s) == {r \in RecipientsOf(c) : rcpt[r] = s}

(* Mutant of Locked: no advisory lock.                                      *)
Locked_Never(c) == FALSE

(* pg_try_advisory_xact_lock: held until the transaction ends.             *)
Locked(c) == \E w \in Workers : pc[w] \in InTransaction /\ cur[w] = c

(* FOR UPDATE OF r: the picked row is locked until the transaction ends.   *)
RowLocked(r) == \E w \in Workers : pc[w] \in InTransaction /\ pick[w] = r

Init ==
  /\ camp = [c \in Campaigns |-> "absent"]
  /\ rcpt = [r \in Recipients |-> "absent"]
  /\ configOK \in [Campaigns -> BOOLEAN]
  /\ todo = [w \in Workers |-> {}]
  /\ pc = [w \in Workers |-> "idle"]
  /\ cur = [w \in Workers |-> NoCampaign]
  /\ pick = [w \in Workers |-> NoRecipient]
  /\ result = [w \in Workers |-> "none"]
  /\ accepted = [r \in Recipients |-> 0]
  /\ lateSends = [c \in Campaigns |-> 0]
  /\ stray = {}
  /\ faults = 0
  /\ deletes = 0

-----------------------------------------------------------------------------
(* HTTP handlers *)

InsertPending(R) ==
  rcpt' = [r \in Recipients |-> IF r \in R THEN "pending" ELSE rcpt[r]]

(* One transaction inserts the draft and its recipients; the unique key    *)
(* (campaign_id, contact_id) drops repeated contacts.                      *)
CreateCampaign(c, R) ==
  /\ camp[c] = "absent"
  /\ camp' = [camp EXCEPT ![c] = "draft"]
  /\ InsertPending(R)
  /\ UNCHANGED <<configOK, workerVars, observed, budget>>

(* Mutant of ImportCSV: ON CONFLICT DO UPDATE SET status = 'pending'.        *)
ImportCSV_Upsert(c, R) ==
  /\ camp[c] # "absent"
  /\ R # {}
  /\ \A r \in R : rcpt[r] # "deleted"
  /\ InsertPending(R)
  /\ stray' = IF camp[c] = "draft" THEN stray ELSE stray \cup R
  /\ UNCHANGED <<camp, configOK, workerVars, accepted, lateSends, budget>>

(* The handler only checks that the campaign exists.                       *)
ImportCSV(c, R) ==
  /\ camp[c] # "absent"
  /\ R # {}
  /\ \A r \in R : rcpt[r] = "absent"
  /\ InsertPending(R)
  /\ stray' = IF camp[c] = "draft" THEN stray ELSE stray \cup R
  /\ UNCHANGED <<camp, configOK, workerVars, accepted, lateSends, budget>>

QueueCampaignTasks(c) ==
  /\ configOK[c]
  /\ camp[c] \in {"draft", "scheduled"}
  /\ camp' = [camp EXCEPT ![c] = "processing"]
  /\ UNCHANGED <<rcpt, configOK, workerVars, observed, budget>>

(* Mutant of CancelCampaign: a status name nothing else knows.               *)
CancelCampaign_Misspelt(c) ==
  /\ camp[c] # "absent"
  /\ camp' = [camp EXCEPT ![c] = "canceled"]
  /\ UNCHANGED <<rcpt, configOK, workerVars, observed, budget>>

(* Unconditional UPDATE: any status becomes cancelled.                     *)
CancelCampaign(c) ==
  /\ camp[c] # "absent"
  /\ camp' = [camp EXCEPT ![c] = "cancelled"]
  /\ UNCHANGED <<rcpt, configOK, workerVars, observed, budget>>

(* Channel, template and credentials change under a running campaign.      *)
ConfigChanges(c) ==
  /\ configOK' = [configOK EXCEPT ![c] = ~@]
  /\ UNCHANGED <<camp, rcpt, workerVars, observed, budget>>

(* Deleting a contact cascades to its recipient row, after the row lock.   *)
DeleteContact(r) ==
  /\ deletes < MaxDeletes
  /\ rcpt[r] \notin {"absent", "deleted"}
  /\ ~RowLocked(r)
  /\ rcpt' = [rcpt EXCEPT ![r] = "deleted"]
  /\ deletes' = deletes + 1
  /\ UNCHANGED <<camp, configOK, workerVars, observed, faults>>

-----------------------------------------------------------------------------
(* The dispatcher *)

(* Commit, rollback or return: the lock goes and the next campaign of the  *)
(* tick follows.                                                           *)
EndOfDispatch(w) ==
  /\ pc' = [pc EXCEPT ![w] = "idle"]
  /\ cur' = [cur EXCEPT ![w] = NoCampaign]
  /\ pick' = [pick EXCEPT ![w] = NoRecipient]
  /\ result' = [result EXCEPT ![w] = "none"]
  /\ UNCHANGED todo

Goto(w, s) ==
  /\ pc' = [pc EXCEPT ![w] = s]
  /\ UNCHANGED <<todo, cur>>

Tick(w) ==
  /\ pc[w] = "idle"
  /\ todo[w] = {}
  /\ todo' = [todo EXCEPT ![w] = {c \in Campaigns : camp[c] = "processing"}]
  /\ UNCHANGED <<dbVars, pc, cur, pick, result, observed, budget>>

TryLock(w, c) ==
  /\ pc[w] = "idle"
  /\ c \in todo[w]
  /\ todo' = [todo EXCEPT ![w] = @ \ {c}]
  /\ \/ /\ ~Locked(c)
        /\ pc' = [pc EXCEPT ![w] = "locked"]
        /\ cur' = [cur EXCEPT ![w] = c]
     \/ /\ Locked(c)
        /\ UNCHANGED <<pc, cur>>
  /\ UNCHANGED <<dbVars, pick, result, observed, budget>>

(* Mutant of CheckInFlight: the claims of other replicas are not looked at.  *)
CheckInFlight_Skipped(w) ==
  /\ pc[w] = "locked"
  /\ Goto(w, "clear")
  /\ UNCHANGED <<dbVars, pick, result, observed, budget>>

CheckInFlight(w) ==
  /\ pc[w] = "locked"
  /\ \/ /\ WithStatus(cur[w], "processing") # {}
        /\ EndOfDispatch(w)
     \/ /\ WithStatus(cur[w], "processing") = {}
        /\ Goto(w, "clear")
        /\ UNCHANGED <<pick, result>>
  /\ UNCHANGED <<dbVars, observed, budget>>

(* Mutants of Complete: without the status guard; and never completing.      *)
Complete_Unguarded(c) == camp' = [camp EXCEPT ![c] = "completed"]
Complete_Never(c) == UNCHANGED camp

(* An UPDATE ... WHERE status = 'processing'.                              *)
Complete(c) ==
  camp' = [camp EXCEPT ![c] = IF @ = "processing" THEN "completed" ELSE @]

FailCampaign(c) ==
  /\ rcpt' = [r \in Recipients |->
                IF r \in WithStatus(c, "pending") THEN "failed" ELSE rcpt[r]]
  /\ Complete(c)
  /\ UNCHANGED configOK

ReadConfig(w) ==
  /\ pc[w] = "clear"
  /\ \/ /\ configOK[cur[w]]
        /\ Goto(w, "configured")
        /\ UNCHANGED <<dbVars, pick, result>>
     \/ /\ ~configOK[cur[w]]
        /\ FailCampaign(cur[w])
        /\ EndOfDispatch(w)
  /\ UNCHANGED <<observed, budget>>

Selectable(c) ==
  IF camp[c] = "processing"
  THEN {r \in WithStatus(c, "pending") : ~RowLocked(r)}
  ELSE {}

(* One row, or none; with none left the campaign is completed.             *)
PickRecipient(w) ==
  /\ pc[w] = "configured"
  /\ \/ /\ \E r \in Selectable(cur[w]) : pick' = [pick EXCEPT ![w] = r]
        /\ Goto(w, "throttled")
        /\ UNCHANGED <<camp, result>>
     \/ /\ Selectable(cur[w]) = {}
        /\ IF WithStatus(cur[w], "pending") \cup WithStatus(cur[w], "processing") = {}
           THEN Complete(cur[w])
           ELSE UNCHANGED camp
        /\ EndOfDispatch(w)
  /\ UNCHANGED <<rcpt, configOK, observed, budget>>

(* After the rate-limit sleep the status is read again.                    *)
RecheckStatus(w) ==
  /\ pc[w] = "throttled"
  /\ \/ /\ camp[cur[w]] = "processing"
        /\ Goto(w, "checked")
        /\ UNCHANGED <<pick, result>>
     \/ /\ camp[cur[w]] # "processing"
        /\ EndOfDispatch(w)
  /\ UNCHANGED <<dbVars, observed, budget>>

(* Mutant of ClaimRecipient: the message is sent before the claim commits.   *)
ClaimRecipient_Uncommitted(w) ==
  /\ pc[w] = "checked"
  /\ Goto(w, "sending")
  /\ UNCHANGED <<dbVars, pick, result, observed, budget>>

(* The claim is committed, which also gives the locks back.                *)
ClaimRecipient(w) ==
  /\ pc[w] = "checked"
  /\ rcpt' = [rcpt EXCEPT ![pick[w]] = "processing"]
  /\ Goto(w, "sending")
  /\ UNCHANGED <<camp, configOK, pick, result, observed, budget>>

(* The Meta call: refused, accepted, or accepted with the answer lost.  A  *)
(* phone of a wrong length is never sent.                                  *)
SendTemplate(w) ==
  /\ pc[w] = "sending"
  /\ \/ /\ pick[w] \in ValidPhone
        /\ accepted' = [accepted EXCEPT ![pick[w]] = @ + 1]
        /\ lateSends' = [lateSends EXCEPT ![cur[w]] =
                           IF camp[cur[w]] = "cancelled" THEN @ + 1 ELSE @]
        /\ \E answer \in {"ok", "error"} : result' = [result EXCEPT ![w] = answer]
     \/ /\ result' = [result EXCEPT ![w] = "error"]
        /\ UNCHANGED <<accepted, lateSends>>
  /\ Goto(w, "recording")
  /\ UNCHANGED <<dbVars, pick, stray, budget>>

(* Mutants of RecordOutcome: an error is recorded as sent; is not recorded.  *)
RecordOutcome_AlwaysSent(w) ==
  /\ pc[w] = "recording"
  /\ rcpt' = [rcpt EXCEPT ![pick[w]] = IF @ = "deleted" THEN @ ELSE "sent"]
  /\ EndOfDispatch(w)
  /\ UNCHANGED <<camp, configOK, observed, budget>>
RecordOutcome_OnlySuccess(w) ==
  /\ pc[w] = "recording"
  /\ rcpt' = [rcpt EXCEPT ![pick[w]] =
                IF result[w] = "ok" /\ @ # "deleted" THEN "sent" ELSE @]
  /\ EndOfDispatch(w)
  /\ UNCHANGED <<camp, configOK, observed, budget>>

(* UPDATE ... WHERE id: a row deleted meanwhile is not there to update.    *)
RecordOutcome(w) ==
  /\ pc[w] = "recording"
  /\ rcpt' = [rcpt EXCEPT ![pick[w]] =
                CASE @ = "deleted" -> "deleted"
                  [] @ # "deleted" /\ result[w] = "ok" -> "sent"
                  [] OTHER -> "failed"]
  /\ EndOfDispatch(w)
  /\ UNCHANGED <<camp, configOK, observed, budget>>

-----------------------------------------------------------------------------
(* Faults *)

(* A failed statement ends the call: inside the transaction it rolls back, *)
(* at the end it loses the outcome.                                        *)
StatementFails(w) ==
  /\ faults < MaxFaults
  /\ pc[w] \in InTransaction \cup {"recording"}
  /\ faults' = faults + 1
  /\ EndOfDispatch(w)
  /\ UNCHANGED <<dbVars, observed, deletes>>

(* The replica stops and starts again, which loses everything in memory.   *)
Crash(w) ==
  /\ faults < MaxFaults
  /\ pc[w] # "idle"
  /\ faults' = faults + 1
  /\ pc' = [pc EXCEPT ![w] = "idle"]
  /\ cur' = [cur EXCEPT ![w] = NoCampaign]
  /\ pick' = [pick EXCEPT ![w] = NoRecipient]
  /\ result' = [result EXCEPT ![w] = "none"]
  /\ todo' = [todo EXCEPT ![w] = {}]
  /\ UNCHANGED <<dbVars, observed, deletes>>

-----------------------------------------------------------------------------
WorkerStep(w) ==
  \/ Tick(w)
  \/ \E c \in Campaigns : TryLock(w, c)
  \/ CheckInFlight(w)
  \/ ReadConfig(w)
  \/ PickRecipient(w)
  \/ RecheckStatus(w)
  \/ ClaimRecipient(w)
  \/ SendTemplate(w)
  \/ RecordOutcome(w)

HandlerStep(c) ==
  \/ \E R \in SUBSET RecipientsOf(c) : CreateCampaign(c, R) \/ ImportCSV(c, R)
  \/ QueueCampaignTasks(c)
  \/ CancelCampaign(c)
  \/ ConfigChanges(c)

Next ==
  \/ \E w \in Workers : WorkerStep(w) \/ StatementFails(w) \/ Crash(w)
  \/ \E c \in Campaigns : HandlerStep(c)
  \/ \E r \in Recipients : DeleteContact(r)

Spec == Init /\ [][Next]_vars

(* Each dispatcher is a loop around a ticker: it never stops by itself.    *)
Fairness == \A w \in Workers : WF_vars(WorkerStep(w))

FairSpec == Spec /\ Fairness

-----------------------------------------------------------------------------
(* Properties *)

(* Every variable has its type. *)
TypeOK ==
  /\ camp \in [Campaigns -> CampaignStatus]
  /\ rcpt \in [Recipients -> RecipientStatus]
  /\ configOK \in [Campaigns -> BOOLEAN]
  /\ todo \in [Workers -> SUBSET Campaigns]
  /\ pc \in [Workers -> Steps]
  /\ cur \in [Workers -> Campaigns \cup {NoCampaign}]
  /\ pick \in [Workers -> Recipients \cup {NoRecipient}]
  /\ result \in [Workers -> {"none", "ok", "error"}]
  /\ accepted \in [Recipients -> Nat]
  /\ lateSends \in [Campaigns -> Nat]
  /\ stray \subseteq Recipients
  /\ faults \in 0..MaxFaults
  /\ deletes \in 0..MaxDeletes

(* A recipient gets the template at most once, whatever replicas, crashes  *)
(* and failed statements do (the claim is committed before the call).      *)
AtMostOnce == \A r \in Recipients : accepted[r] <= 1

(* A row says "sent" only if the Meta API accepted the message.            *)
SentWasAccepted == \A r \in Recipients : rcpt[r] = "sent" => accepted[r] = 1

(* A campaign has at most one recipient claimed at a time, over all the    *)
(* replicas: what the advisory lock and the in-flight check are for.       *)
OneClaimPerCampaign ==
  \A r, s \in Recipients :
    /\ rcpt[r] = "processing"
    /\ rcpt[s] = "processing"
    /\ CampaignOf[r] = CampaignOf[s]
    => r = s

(* A completed campaign has no message on its way, and nobody left queued  *)
(* except those imported after it was started.                             *)
CompletedIsDrained ==
  \A r \in Recipients :
    camp[CampaignOf[r]] = "completed" =>
      /\ rcpt[r] # "processing"
      /\ rcpt[r] = "pending" => r \in stray

(* Cancelling stops the campaign but for the one message that was already  *)
(* past its last status check (as long as no contact is deleted).          *)
AtMostOneLateSend ==
  deletes = 0 => \A c \in Campaigns : lateSends[c] <= 1

(* A claim nobody is working on any more is always the trace of a fault:   *)
(* the "interrupted claims" of the comment in dispatchRecipient.           *)
OrphanedClaim(r) ==
  /\ rcpt[r] = "processing"
  /\ \A w \in Workers : pick[w] # r
OrphansComeFromFaults ==
  faults = 0 => \A r \in Recipients : ~OrphanedClaim(r)

(* No worker brings a cancelled campaign back, and a completed one is      *)
(* never started again.                                                    *)
CampaignNeverRevives ==
  [][\A c \in Campaigns :
       /\ camp[c] = "cancelled" => camp'[c] = "cancelled"
       /\ camp[c] = "completed" => camp'[c] \in {"completed", "cancelled"}]_vars

(* Every started campaign ends, unless an interrupted claim blocks it.     *)
StartedCampaignEnds ==
  \A c \in Campaigns :
    camp[c] = "processing" ~>
      \/ camp[c] \in {"completed", "cancelled"}
      \/ \E r \in RecipientsOf(c) : OrphanedClaim(r)

-----------------------------------------------------------------------------
(* The promise to each recipient, as an abstract specification             *)

PhaseOf(s) ==
  CASE s = "absent" -> "unknown"
    [] s = "pending" -> "queued"
    [] s = "processing" -> "claimed"
    [] s \in {"sent", "failed"} -> "settled"
    [] s = "deleted" -> "removed"

Delivery == INSTANCE AtMostOnceDelivery
              WITH phase <- [r \in Recipients |-> PhaseOf(rcpt[r])],
                   copies <- accepted

(* Every behaviour of the dispatcher is one of AtMostOnceDelivery.         *)
ImplementsDelivery == Delivery!Spec
=============================================================================
