----------------------- MODULE CampaignDispatchProofs -----------------------
(***************************************************************************)
(* For every number of campaigns, recipients, replicas, faults and         *)
(* deletions: a recipient is sent to at most once, "sent" means accepted,  *)
(* and a campaign has at most one claimed recipient.                       *)
(***************************************************************************)
EXTENDS CampaignDispatch, TLAPS

HasPick == {"throttled", "checked", "sending", "recording"}
PastInFlightCheck == {"clear", "configured", "throttled", "checked"}

(* What a dispatcher knows at each of its statements.                      *)
WorkerKnows(w) ==
  /\ pc[w] \in InTransaction \cup HasPick => cur[w] \in Campaigns
  /\ pc[w] \in HasPick <=> pick[w] \in Recipients
  /\ pc[w] \in {"throttled", "checked"} =>
       /\ CampaignOf[pick[w]] = cur[w]
       /\ rcpt[pick[w]] = "pending"
       /\ camp[cur[w]] \in {"processing", "cancelled"}
  /\ pc[w] \in {"sending", "recording"} =>
       rcpt[pick[w]] \in {"processing", "deleted"}
  /\ pc[w] = "sending" => accepted[pick[w]] = 0
  /\ pc[w] = "recording" /\ result[w] = "ok" => accepted[pick[w]] = 1
  /\ pc[w] \in PastInFlightCheck =>
       \A r \in Recipients : CampaignOf[r] = cur[w] => rcpt[r] # "processing"

(* The advisory lock admits one transaction per campaign, and no two       *)
(* dispatchers ever hold the same recipient.                               *)
Exclusive ==
  \A v, w \in Workers :
    /\ pc[v] \in InTransaction /\ pc[w] \in InTransaction /\ cur[v] = cur[w]
         => v = w
    /\ pick[v] \in Recipients /\ pick[v] = pick[w] => v = w

(* What the status of a recipient says about the messages it was sent.     *)
StatusTells(r) ==
  /\ rcpt[r] \in {"absent", "pending"} => accepted[r] = 0
  /\ rcpt[r] = "sent" => accepted[r] = 1
  /\ camp[CampaignOf[r]] = "absent" => rcpt[r] = "absent"
  /\ accepted[r] <= 1

IndInv ==
  /\ TypeOK
  /\ \A w \in Workers : WorkerKnows(w)
  /\ Exclusive
  /\ \A r \in Recipients : StatusTells(r)
  /\ OneClaimPerCampaign
  /\ CompletedIsDrained

-----------------------------------------------------------------------------
LEMMA TypeInit == Init => TypeOK
  BY CampaignAssumption DEF Init, TypeOK, Steps, CampaignStatus, RecipientStatus

LEMMA TypeStep == TypeOK /\ [Next]_vars => TypeOK'
<1> SUFFICES ASSUME TypeOK, [Next]_vars PROVE TypeOK'
  OBVIOUS
<1> USE DEF TypeOK, Steps, InTransaction, CampaignStatus, RecipientStatus,
            dbVars, workerVars, observed, budget
<1>1. ASSUME NEW w \in Workers, Tick(w)
      PROVE  TypeOK'
  BY <1>1, CampaignAssumption DEF Tick
<1>2. ASSUME NEW w \in Workers, NEW c \in Campaigns, TryLock(w, c)
      PROVE  TypeOK'
  BY <1>2, CampaignAssumption DEF TryLock
<1>3. ASSUME NEW w \in Workers, CheckInFlight(w)
      PROVE  TypeOK'
  BY <1>3, CampaignAssumption DEF CheckInFlight, EndOfDispatch, Goto
<1>4. ASSUME NEW w \in Workers, ReadConfig(w)
      PROVE  TypeOK'
  BY <1>4, CampaignAssumption DEF ReadConfig, EndOfDispatch, Goto,
     FailCampaign, Complete, WithStatus, RecipientsOf
<1>5. ASSUME NEW w \in Workers, PickRecipient(w)
      PROVE  TypeOK'
  BY <1>5, CampaignAssumption DEF PickRecipient, EndOfDispatch, Goto,
     Complete, Selectable, WithStatus, RecipientsOf
<1>6. ASSUME NEW w \in Workers, RecheckStatus(w)
      PROVE  TypeOK'
  BY <1>6, CampaignAssumption DEF RecheckStatus, EndOfDispatch, Goto
<1>7. ASSUME NEW w \in Workers, ClaimRecipient(w)
      PROVE  TypeOK'
  BY <1>7, CampaignAssumption DEF ClaimRecipient, Goto
<1>8. ASSUME NEW w \in Workers, SendTemplate(w)
      PROVE  TypeOK'
  BY <1>8, CampaignAssumption DEF SendTemplate, Goto
<1>9. ASSUME NEW w \in Workers, RecordOutcome(w)
      PROVE  TypeOK'
  BY <1>9, CampaignAssumption DEF RecordOutcome, EndOfDispatch
<1>10. ASSUME NEW w \in Workers, StatementFails(w)
      PROVE  TypeOK'
  BY <1>10, CampaignAssumption DEF StatementFails, EndOfDispatch
<1>11. ASSUME NEW w \in Workers, Crash(w)
      PROVE  TypeOK'
  BY <1>11, CampaignAssumption DEF Crash
<1>12. ASSUME NEW c \in Campaigns, NEW R \in SUBSET RecipientsOf(c), CreateCampaign(c, R)
      PROVE  TypeOK'
  BY <1>12, CampaignAssumption DEF CreateCampaign, InsertPending, RecipientsOf
<1>13. ASSUME NEW c \in Campaigns, NEW R \in SUBSET RecipientsOf(c), ImportCSV(c, R)
      PROVE  TypeOK'
  BY <1>13, CampaignAssumption DEF ImportCSV, InsertPending, RecipientsOf
<1>14. ASSUME NEW c \in Campaigns, QueueCampaignTasks(c)
      PROVE  TypeOK'
  BY <1>14, CampaignAssumption DEF QueueCampaignTasks
<1>15. ASSUME NEW c \in Campaigns, CancelCampaign(c)
      PROVE  TypeOK'
  BY <1>15, CampaignAssumption DEF CancelCampaign
<1>16. ASSUME NEW c \in Campaigns, ConfigChanges(c)
      PROVE  TypeOK'
  BY <1>16, CampaignAssumption DEF ConfigChanges
<1>17. ASSUME NEW r \in Recipients, DeleteContact(r)
      PROVE  TypeOK'
  BY <1>17, CampaignAssumption DEF DeleteContact
<1>18. CASE UNCHANGED vars
  BY <1>18 DEF vars
<1>19. QED
  BY <1>1, <1>2, <1>3, <1>4, <1>5, <1>6, <1>7, <1>8, <1>9, <1>10, <1>11,
     <1>12, <1>13, <1>14, <1>15, <1>16, <1>17, <1>18 DEF Next, WorkerStep,
     HandlerStep

(* Every variable keeps its type. *)
THEOREM TypeCorrect == Spec => []TypeOK
  BY TypeInit, TypeStep, PTL DEF Spec

-----------------------------------------------------------------------------
LEMMA IndInit == Init => IndInv
  BY TypeInit, CampaignAssumption
     DEF Init, IndInv, WorkerKnows, Exclusive, StatusTells, OneClaimPerCampaign,
         CompletedIsDrained, HasPick, PastInFlightCheck, InTransaction

(* The step that matters is PickRecipient: the row it takes is pending, so *)
(* no other dispatcher is sending to it, and not locked, so no other holds *)
(* it.  The claim then keeps the row from ever being picked again.         *)
LEMMA IndStep == IndInv /\ [Next]_vars => IndInv'
<1> SUFFICES ASSUME IndInv, [Next]_vars PROVE IndInv'
  OBVIOUS
<1>0. TypeOK'
  BY TypeStep DEF IndInv
<1> USE DEF IndInv, TypeOK, Steps, InTransaction, CampaignStatus, RecipientStatus,
            WorkerKnows, Exclusive, StatusTells, OneClaimPerCampaign,
            CompletedIsDrained, HasPick, PastInFlightCheck,
            dbVars, workerVars, observed, budget
<1>1. ASSUME NEW w \in Workers, Tick(w)
      PROVE  IndInv'
  BY <1>0, <1>1, CampaignAssumption DEF Tick
<1>2. ASSUME NEW w \in Workers, NEW c \in Campaigns, TryLock(w, c)
      PROVE  IndInv'
  BY <1>0, <1>2, CampaignAssumption DEF TryLock, Locked
<1>3. ASSUME NEW w \in Workers, CheckInFlight(w)
      PROVE  IndInv'
  BY <1>0, <1>3, CampaignAssumption DEF CheckInFlight, EndOfDispatch, Goto,
     WithStatus, RecipientsOf
<1>4. ASSUME NEW w \in Workers, ReadConfig(w)
      PROVE  IndInv'
  <2>1. \A v \in Workers : WorkerKnows(v)'
    BY <1>4, <1>0, CampaignAssumption DEF ReadConfig, EndOfDispatch, Goto,
       FailCampaign, Complete, WithStatus, RecipientsOf
  <2>2. Exclusive'
    BY <1>4, <1>0, CampaignAssumption DEF ReadConfig, EndOfDispatch, Goto,
       FailCampaign, Complete, WithStatus, RecipientsOf
  <2>3. \A s \in Recipients : StatusTells(s)'
    BY <1>4, <1>0, CampaignAssumption DEF ReadConfig, EndOfDispatch, Goto,
       FailCampaign, Complete, WithStatus, RecipientsOf
  <2>4. OneClaimPerCampaign'
    BY <1>4, <1>0, CampaignAssumption DEF ReadConfig, EndOfDispatch, Goto,
       FailCampaign, Complete, WithStatus, RecipientsOf
  <2>5. CompletedIsDrained'
    BY <1>4, <1>0, CampaignAssumption DEF ReadConfig, EndOfDispatch, Goto,
       FailCampaign, Complete, WithStatus, RecipientsOf
  <2>6. QED
    BY <1>0, <2>1, <2>2, <2>3, <2>4, <2>5 DEF IndInv
<1>5. ASSUME NEW w \in Workers, PickRecipient(w)
      PROVE  IndInv'
  BY <1>0, <1>5, CampaignAssumption DEF PickRecipient, EndOfDispatch, Goto,
     Complete, Selectable, WithStatus, RecipientsOf, RowLocked
<1>6. ASSUME NEW w \in Workers, RecheckStatus(w)
      PROVE  IndInv'
  BY <1>0, <1>6, CampaignAssumption DEF RecheckStatus, EndOfDispatch, Goto
<1>7. ASSUME NEW w \in Workers, ClaimRecipient(w)
      PROVE  IndInv'
  BY <1>0, <1>7, CampaignAssumption DEF ClaimRecipient, Goto
<1>8. ASSUME NEW w \in Workers, SendTemplate(w)
      PROVE  IndInv'
  BY <1>0, <1>8, CampaignAssumption DEF SendTemplate, Goto
<1>9. ASSUME NEW w \in Workers, RecordOutcome(w)
      PROVE  IndInv'
  BY <1>0, <1>9, CampaignAssumption DEF RecordOutcome, EndOfDispatch
<1>10. ASSUME NEW w \in Workers, StatementFails(w)
      PROVE  IndInv'
  BY <1>0, <1>10, CampaignAssumption DEF StatementFails, EndOfDispatch
<1>11. ASSUME NEW w \in Workers, Crash(w)
      PROVE  IndInv'
  BY <1>0, <1>11, CampaignAssumption DEF Crash
<1>12. ASSUME NEW c \in Campaigns, NEW R \in SUBSET RecipientsOf(c), CreateCampaign(c, R)
      PROVE  IndInv'
  BY <1>0, <1>12, CampaignAssumption DEF CreateCampaign, InsertPending,
     RecipientsOf
<1>13. ASSUME NEW c \in Campaigns, NEW R \in SUBSET RecipientsOf(c), ImportCSV(c, R)
      PROVE  IndInv'
  BY <1>0, <1>13, CampaignAssumption DEF ImportCSV, InsertPending,
     RecipientsOf
<1>14. ASSUME NEW c \in Campaigns, QueueCampaignTasks(c)
      PROVE  IndInv'
  BY <1>0, <1>14, CampaignAssumption DEF QueueCampaignTasks
<1>15. ASSUME NEW c \in Campaigns, CancelCampaign(c)
      PROVE  IndInv'
  BY <1>0, <1>15, CampaignAssumption DEF CancelCampaign
<1>16. ASSUME NEW c \in Campaigns, ConfigChanges(c)
      PROVE  IndInv'
  BY <1>0, <1>16, CampaignAssumption DEF ConfigChanges
<1>17. ASSUME NEW r \in Recipients, DeleteContact(r)
      PROVE  IndInv'
  BY <1>0, <1>17, CampaignAssumption DEF DeleteContact, RowLocked
<1>18. CASE UNCHANGED vars
  BY <1>18 DEF vars
<1>19. QED
  BY <1>1, <1>2, <1>3, <1>4, <1>5, <1>6, <1>7, <1>8, <1>9, <1>10, <1>11,
     <1>12, <1>13, <1>14, <1>15, <1>16, <1>17, <1>18 DEF Next, WorkerStep,
     HandlerStep

LEMMA IndInvariant == Spec => []IndInv
  BY IndInit, IndStep, PTL DEF Spec

(* No recipient is sent the template twice, whatever the replicas, crashes *)
(* and failed statements do.                                               *)
THEOREM SendsAtMostOnce == Spec => []AtMostOnce
<1>1. IndInv => AtMostOnce
  BY DEF IndInv, StatusTells, AtMostOnce
<1>2. QED
  BY <1>1, IndInvariant, PTL

(* "sent" is written only for messages the Meta API accepted.              *)
THEOREM SentMeansAccepted == Spec => []SentWasAccepted
<1>1. IndInv => SentWasAccepted
  BY DEF IndInv, StatusTells, SentWasAccepted
<1>2. QED
  BY <1>1, IndInvariant, PTL

(* Over all replicas a campaign has one claimed recipient at most.         *)
THEOREM ClaimsAreExclusive == Spec => []OneClaimPerCampaign
  BY IndInvariant, PTL DEF IndInv

(* A completed campaign left nobody of its own queued or on the way.       *)
THEOREM CompletionMeansDrained == Spec => []CompletedIsDrained
  BY IndInvariant, PTL DEF IndInv

-----------------------------------------------------------------------------
(* Faults and late sends *)

(* While nothing has failed, the claim of a row is held by the dispatcher  *)
(* that is sending to it or writing what came of it.                       *)
ClaimIsHeld(r) ==
  faults = 0 /\ rcpt[r] = "processing" =>
    \E w \in Workers : pc[w] \in {"sending", "recording"} /\ pick[w] = r

PickIsOfCampaign(w) ==
  pc[w] \in {"sending", "recording"} => CampaignOf[pick[w]] = cur[w]

DeletedWasCounted(r) == rcpt[r] = "deleted" => deletes > 0

(* Once a message went out for a cancelled campaign, no dispatcher is past *)
(* the second look at its status any more.                                 *)
LateSendIsLast(c) ==
  deletes = 0 /\ lateSends[c] > 0 =>
    /\ lateSends[c] = 1
    /\ camp[c] = "cancelled"
    /\ \A w \in Workers :
         cur[w] = c => pc[w] \notin {"throttled", "checked", "sending"}

CauseInv ==
  /\ \A r \in Recipients : ClaimIsHeld(r) /\ DeletedWasCounted(r)
  /\ \A w \in Workers : PickIsOfCampaign(w)
  /\ \A c \in Campaigns : LateSendIsLast(c)

LEMMA CauseInit == Init => CauseInv
  BY CampaignAssumption
     DEF Init, CauseInv, ClaimIsHeld, PickIsOfCampaign, DeletedWasCounted,
         LateSendIsLast

(* The step that matters is SendTemplate for a cancelled campaign: without *)
(* deletions the claimed row is still "processing", so no other dispatcher *)
(* is past the in-flight check, and none can select a row any more.        *)
LEMMA CauseStep == IndInv /\ CauseInv /\ [Next]_vars => CauseInv'
<1> SUFFICES ASSUME IndInv, CauseInv, [Next]_vars PROVE CauseInv'
  OBVIOUS
<1> USE DEF IndInv, TypeOK, Steps, InTransaction, CampaignStatus, RecipientStatus,
            WorkerKnows, Exclusive, OneClaimPerCampaign, HasPick,
            PastInFlightCheck, CauseInv, ClaimIsHeld, PickIsOfCampaign,
            DeletedWasCounted, LateSendIsLast, dbVars, workerVars, observed, budget
<1>1. ASSUME NEW w \in Workers, Tick(w)
      PROVE  CauseInv'
  BY <1>1, CampaignAssumption DEF Tick
<1>2. ASSUME NEW w \in Workers, NEW c \in Campaigns, TryLock(w, c)
      PROVE  CauseInv'
  BY <1>2, CampaignAssumption DEF TryLock, Locked
<1>3. ASSUME NEW w \in Workers, CheckInFlight(w)
      PROVE  CauseInv'
  BY <1>3, CampaignAssumption DEF CheckInFlight, EndOfDispatch, Goto,
     WithStatus, RecipientsOf
<1>4. ASSUME NEW w \in Workers, ReadConfig(w)
      PROVE  CauseInv'
  BY <1>4, CampaignAssumption DEF ReadConfig, EndOfDispatch, Goto,
     FailCampaign, Complete, WithStatus, RecipientsOf
<1>5. ASSUME NEW w \in Workers, PickRecipient(w)
      PROVE  CauseInv'
  BY <1>5, CampaignAssumption DEF PickRecipient, EndOfDispatch, Goto,
     Complete, Selectable, WithStatus, RecipientsOf, RowLocked
<1>6. ASSUME NEW w \in Workers, RecheckStatus(w)
      PROVE  CauseInv'
  BY <1>6, CampaignAssumption DEF RecheckStatus, EndOfDispatch, Goto
<1>7. ASSUME NEW w \in Workers, ClaimRecipient(w)
      PROVE  CauseInv'
  BY <1>7, CampaignAssumption DEF ClaimRecipient, Goto
<1>8. ASSUME NEW w \in Workers, SendTemplate(w)
      PROVE  CauseInv'
  BY <1>8, CampaignAssumption DEF SendTemplate, Goto
<1>9. ASSUME NEW w \in Workers, RecordOutcome(w)
      PROVE  CauseInv'
  BY <1>9, CampaignAssumption DEF RecordOutcome, EndOfDispatch
<1>10. ASSUME NEW w \in Workers, StatementFails(w)
      PROVE  CauseInv'
  BY <1>10, CampaignAssumption DEF StatementFails, EndOfDispatch
<1>11. ASSUME NEW w \in Workers, Crash(w)
      PROVE  CauseInv'
  BY <1>11, CampaignAssumption DEF Crash
<1>12. ASSUME NEW c \in Campaigns, NEW R \in SUBSET RecipientsOf(c), CreateCampaign(c, R)
      PROVE  CauseInv'
  BY <1>12, CampaignAssumption DEF CreateCampaign, InsertPending, RecipientsOf
<1>13. ASSUME NEW c \in Campaigns, NEW R \in SUBSET RecipientsOf(c), ImportCSV(c, R)
      PROVE  CauseInv'
  BY <1>13, CampaignAssumption DEF ImportCSV, InsertPending, RecipientsOf
<1>14. ASSUME NEW c \in Campaigns, QueueCampaignTasks(c)
      PROVE  CauseInv'
  BY <1>14, CampaignAssumption DEF QueueCampaignTasks
<1>15. ASSUME NEW c \in Campaigns, CancelCampaign(c)
      PROVE  CauseInv'
  BY <1>15, CampaignAssumption DEF CancelCampaign
<1>16. ASSUME NEW c \in Campaigns, ConfigChanges(c)
      PROVE  CauseInv'
  BY <1>16, CampaignAssumption DEF ConfigChanges
<1>17. ASSUME NEW r \in Recipients, DeleteContact(r)
      PROVE  CauseInv'
  BY <1>17, CampaignAssumption DEF DeleteContact, RowLocked
<1>18. CASE UNCHANGED vars
  BY <1>18 DEF vars
<1>19. QED
  BY <1>1, <1>2, <1>3, <1>4, <1>5, <1>6, <1>7, <1>8, <1>9, <1>10, <1>11,
     <1>12, <1>13, <1>14, <1>15, <1>16, <1>17, <1>18 DEF Next, WorkerStep,
     HandlerStep

LEMMA CauseInvariant == Spec => []CauseInv
<1>1. Init => CauseInv
  BY CauseInit
<1>2. IndInv /\ CauseInv /\ [Next]_vars => CauseInv'
  BY CauseStep
<1>3. QED
  BY <1>1, <1>2, IndInvariant, PTL DEF Spec

(* Without faults no claim is left that nobody works on.                   *)
THEOREM OrphanedClaimsComeFromFaults == Spec => []OrphansComeFromFaults
<1>1. CauseInv => OrphansComeFromFaults
  BY DEF CauseInv, ClaimIsHeld, OrphansComeFromFaults, OrphanedClaim
<1>2. QED
  BY <1>1, CauseInvariant, PTL

(* A cancelled campaign sends one message more at most, over all replicas. *)
THEOREM CancelStopsAllButOne == Spec => []AtMostOneLateSend
<1>1. TypeOK /\ CauseInv => AtMostOneLateSend
  BY DEF CauseInv, LateSendIsLast, AtMostOneLateSend, TypeOK
<1>2. QED
  BY <1>1, CauseInvariant, TypeCorrect, PTL

-----------------------------------------------------------------------------
(* No statement of any replica gives an ended campaign its status back.    *)
LEMMA NeverRevivesStep ==
  TypeOK /\ [Next]_vars =>
    \A c \in Campaigns :
      /\ camp[c] = "cancelled" => camp'[c] = "cancelled"
      /\ camp[c] = "completed" => camp'[c] \in {"completed", "cancelled"}
<1> SUFFICES ASSUME TypeOK, [Next]_vars, NEW e \in Campaigns
             PROVE  /\ camp[e] = "cancelled" => camp'[e] = "cancelled"
                    /\ camp[e] = "completed" => camp'[e] \in {"completed", "cancelled"}
  OBVIOUS
<1> USE DEF TypeOK, dbVars, workerVars, observed, budget
<1>1. ASSUME NEW w \in Workers, WorkerStep(w)
      PROVE  UNCHANGED camp \/ Complete(cur[w])
  BY <1>1 DEF WorkerStep, Tick, TryLock, CheckInFlight, ReadConfig, FailCampaign,
     PickRecipient, RecheckStatus, ClaimRecipient, SendTemplate, RecordOutcome
<1>2. ASSUME NEW w \in Workers, StatementFails(w) \/ Crash(w)
      PROVE  UNCHANGED camp
  BY <1>2 DEF StatementFails, Crash
<1>3. ASSUME NEW w \in Workers, Complete(cur[w])
      PROVE  camp'[e] = IF e = cur[w] /\ camp[e] = "processing" THEN "completed" ELSE camp[e]
  BY <1>3 DEF Complete
<1>4. ASSUME NEW c \in Campaigns, HandlerStep(c)
      PROVE  \/ camp'[e] = camp[e]
             \/ camp[e] = "absent"
             \/ camp[e] \in {"draft", "scheduled"}
             \/ camp'[e] = "cancelled"
  <2>1. CASE \E R \in SUBSET RecipientsOf(c) : CreateCampaign(c, R) \/ ImportCSV(c, R)
    BY <2>1 DEF CreateCampaign, ImportCSV
  <2>2. CASE QueueCampaignTasks(c)
    BY <2>2 DEF QueueCampaignTasks
  <2>3. CASE CancelCampaign(c)
    BY <2>3 DEF CancelCampaign
  <2>4. CASE ConfigChanges(c)
    BY <2>4 DEF ConfigChanges
  <2>5. QED
    BY <1>4, <2>1, <2>2, <2>3, <2>4 DEF HandlerStep
<1>5. ASSUME NEW r \in Recipients, DeleteContact(r)
      PROVE  UNCHANGED camp
  BY <1>5 DEF DeleteContact
<1>6. CASE UNCHANGED vars
  BY <1>6 DEF vars
<1>7. QED
  BY <1>1, <1>2, <1>3, <1>4, <1>5, <1>6 DEF Next

(* A cancelled campaign stays cancelled, and a completed one is never      *)
(* started again, by whatever handler or dispatcher.                       *)
THEOREM EndedCampaignsStayEnded == Spec => CampaignNeverRevives
<1>1. TypeOK /\ [Next]_vars =>
        [\A c \in Campaigns :
           /\ camp[c] = "cancelled" => camp'[c] = "cancelled"
           /\ camp[c] = "completed" => camp'[c] \in {"completed", "cancelled"}]_vars
  BY NeverRevivesStep
<1>2. QED
  BY <1>1, TypeCorrect, PTL DEF Spec, CampaignNeverRevives

-----------------------------------------------------------------------------
(* The refinement: which abstract step each statement takes.               *)
LEMMA DeliveryInit == Init => Delivery!Init
  BY DEF Init, Delivery!Init, PhaseOf

LEMMA DeliveryStutter ==
  UNCHANGED <<rcpt, accepted>> => UNCHANGED Delivery!vars
  BY DEF Delivery!vars

LEMMA DeliveryStep == IndInv /\ [Next]_vars => [Delivery!Next]_Delivery!vars
<1> SUFFICES ASSUME IndInv, [Next]_vars
             PROVE  Delivery!Next \/ UNCHANGED Delivery!vars
  OBVIOUS
<1> USE DEF IndInv, TypeOK, RecipientStatus, dbVars, workerVars, observed, budget
<1>1. ASSUME NEW w \in Workers,
             Tick(w) \/ (\E c \in Campaigns : TryLock(w, c)) \/ CheckInFlight(w)
               \/ RecheckStatus(w) \/ PickRecipient(w) \/ StatementFails(w)
               \/ Crash(w)
      PROVE  UNCHANGED <<rcpt, accepted>>
  BY <1>1 DEF Tick, TryLock, CheckInFlight, RecheckStatus, PickRecipient,
              StatementFails, Crash
<1>2. ASSUME NEW c \in Campaigns,
             QueueCampaignTasks(c) \/ CancelCampaign(c) \/ ConfigChanges(c)
      PROVE  UNCHANGED <<rcpt, accepted>>
  BY <1>2 DEF QueueCampaignTasks, CancelCampaign, ConfigChanges
<1>3. ASSUME NEW c \in Campaigns, NEW R \in SUBSET RecipientsOf(c),
             CreateCampaign(c, R) \/ ImportCSV(c, R)
      PROVE  Delivery!Enqueue(R)
  <2>1. \A r \in R : rcpt[r] = "absent"
    BY <1>3 DEF CreateCampaign, ImportCSV, RecipientsOf, StatusTells
  <2>2. InsertPending(R) /\ UNCHANGED accepted
    BY <1>3 DEF CreateCampaign, ImportCSV
  <2>3. QED
    BY <2>1, <2>2 DEF InsertPending, RecipientsOf, Delivery!Enqueue, PhaseOf
<1>4. ASSUME NEW w \in Workers, ReadConfig(w)
      PROVE  \/ UNCHANGED <<rcpt, accepted>>
             \/ Delivery!GiveUp(WithStatus(cur[w], "pending"))
  <2>1. CASE configOK[cur[w]]
    BY <1>4, <2>1 DEF ReadConfig
  <2>2. CASE ~configOK[cur[w]]
    BY <1>4, <2>2 DEF ReadConfig, FailCampaign, WithStatus, RecipientsOf,
                      Delivery!GiveUp, PhaseOf
  <2>3. QED
    BY <2>1, <2>2
<1>5. ASSUME NEW w \in Workers, ClaimRecipient(w)
      PROVE  Delivery!Claim(pick[w]) /\ pick[w] \in Recipients
  BY <1>5 DEF ClaimRecipient, WorkerKnows, StatusTells, HasPick,
              Delivery!Claim, PhaseOf
<1>6. ASSUME NEW w \in Workers, SendTemplate(w)
      PROVE  \/ UNCHANGED <<rcpt, accepted>>
             \/ Delivery!Deliver(pick[w]) /\ pick[w] \in Recipients
  BY <1>6 DEF SendTemplate, WorkerKnows, HasPick, Delivery!Deliver, PhaseOf
<1>7. ASSUME NEW w \in Workers, RecordOutcome(w)
      PROVE  \/ UNCHANGED <<rcpt, accepted>>
             \/ Delivery!Settle(pick[w]) /\ pick[w] \in Recipients
  <2>1. pick[w] \in Recipients /\ rcpt[pick[w]] \in {"processing", "deleted"}
    BY <1>7 DEF RecordOutcome, WorkerKnows, HasPick
  <2>2. CASE rcpt[pick[w]] = "deleted"
    BY <1>7, <2>1, <2>2 DEF RecordOutcome
  <2>3. CASE rcpt[pick[w]] = "processing"
    BY <1>7, <2>1, <2>3 DEF RecordOutcome, Delivery!Settle, PhaseOf
  <2>4. QED
    BY <2>1, <2>2, <2>3
<1>8. ASSUME NEW r \in Recipients, DeleteContact(r)
      PROVE  Delivery!Remove({r})
  BY <1>8 DEF DeleteContact, Delivery!Remove, PhaseOf
<1>9. CASE UNCHANGED vars
  BY <1>9, DeliveryStutter DEF vars
<1>10. ASSUME NEW w \in Workers, WorkerStep(w) \/ StatementFails(w) \/ Crash(w)
       PROVE  Delivery!Next \/ UNCHANGED Delivery!vars
  <2>1. WithStatus(cur[w], "pending") \in SUBSET Recipients
    BY DEF WithStatus, RecipientsOf
  <2>2. CASE ReadConfig(w)
    BY <1>4, <2>1, <2>2, DeliveryStutter DEF Delivery!Next
  <2>3. CASE ClaimRecipient(w)
    BY <1>5, <2>3 DEF Delivery!Next
  <2>4. CASE SendTemplate(w)
    BY <1>6, <2>4, DeliveryStutter DEF Delivery!Next
  <2>5. CASE RecordOutcome(w)
    BY <1>7, <2>5, DeliveryStutter DEF Delivery!Next
  <2>6. QED
    BY <1>1, <1>10, <2>2, <2>3, <2>4, <2>5, DeliveryStutter DEF WorkerStep
<1>11. ASSUME NEW c \in Campaigns, HandlerStep(c)
       PROVE  Delivery!Next \/ UNCHANGED Delivery!vars
  <2>1. SUBSET RecipientsOf(c) \subseteq SUBSET Recipients
    BY DEF RecipientsOf
  <2>2. CASE \E R \in SUBSET RecipientsOf(c) : CreateCampaign(c, R) \/ ImportCSV(c, R)
    BY <1>3, <2>1, <2>2 DEF Delivery!Next
  <2>3. QED
    BY <1>2, <1>11, <2>2, DeliveryStutter DEF HandlerStep
<1>12. ASSUME NEW r \in Recipients, DeleteContact(r)
       PROVE  Delivery!Next
  <2>1. {r} \in SUBSET Recipients
    OBVIOUS
  <2>2. QED
    BY <1>8, <1>12, <2>1 DEF Delivery!Next
<1>13. QED
  BY <1>9, <1>10, <1>11, <1>12 DEF Next

(* The dispatcher implements the abstract promise to its recipients.       *)
THEOREM DispatcherImplementsDelivery == Spec => ImplementsDelivery
<1>1. Init => Delivery!Init
  BY DeliveryInit
<1>2. QED
  BY <1>1, DeliveryStep, IndInvariant, PTL DEF Spec, ImplementsDelivery, Delivery!Spec
=============================================================================
