---------------------------- MODULE CampaignsPage ----------------------------
(***************************************************************************)
(* The campaign page (web/src/pages/Campaigns.jsx): the list with its      *)
(* poll and its buttons, and the wizard, whose last step sends three calls *)
(* one after the other: create, import of the file, start.  A chain that   *)
(* has begun goes on when the operator leaves the page.                    *)
(*                                                                         *)
(* A channel has one approved template; names, rates and counts are left   *)
(* out.  Campaign k is the kth one created.                                *)
(***************************************************************************)
EXTENDS PanelCalls

CONSTANTS OfficialChannels,   \* official channels, of which the company has all or one
          MaxCampaigns        \* bound: campaigns created

ASSUME CampaignsPageAssumption == None \notin OfficialChannels /\ OfficialChannels # {} /\ MaxCampaigns \in Nat

VARIABLES wizard,          \* React state of the page
          campaignCalls,   \* its calls in flight
          campaignDb       \* the server: channels, campaigns, calls lost so far

campaignVars == <<wizard, campaignCalls, campaignDb>>

(* "opening" only tells one opening of the wizard from the others.         *)
EmptyWizard(opening) ==
  [channel |-> None, template |-> None, audience |-> "tag", filled |-> {}, opening |-> opening]

PageOpened(acts) ==
  [mounted |-> TRUE, shown |-> <<>>, busy |-> 0, step |-> 0, form |-> EmptyWizard(0),
   channels |-> {}, templates |-> None, submitting |-> FALSE, error |-> "", acts |-> acts]

CampaignsInit ==
  /\ wizard = PageOpened(0)
  /\ campaignCalls = Send({}, "list", [why |-> "open"])
  /\ campaignDb \in [channels : {OfficialChannels, {CHOOSE c \in OfficialChannels : TRUE}}, rows : {<<>>}, lost : {0}]

Rows == campaignDb.rows
ActsOnCampaigns == wizard.mounted /\ wizard.acts < MaxActs /\ CanCall(campaignCalls)
CampaignAct(page) == [page EXCEPT !.acts = @ + 1]

-----------------------------------------------------------------------------
(* The list *)

CampaignListArrives(call) ==
  /\ wizard.mounted /\ call \in Done(campaignCalls, "list")
  /\ campaignCalls' = campaignCalls \ {call}
  /\ wizard' = [wizard EXCEPT !.shown = IF call.answer = Failed THEN @ ELSE call.answer.result.rows,
                              !.busy = IF call.about.why = "row" THEN 0 ELSE @]
  /\ UNCHANGED campaignDb

Following == wizard.mounted /\ \E k \in DOMAIN wizard.shown : wizard.shown[k] = "processing"

(* While a campaign is shown as sending, the list is read every 5 seconds. *)
Poll ==
  /\ Following /\ CanCall(campaignCalls)
  /\ campaignCalls' = Send(campaignCalls, "list", [why |-> "poll"])
  /\ UNCHANGED <<wizard, campaignDb>>

(* "Iniciar" on a draft, "Cancelar" on what is shown as sending; one row   *)
(* is busy at a time, and the wizard covers the list.                      *)
RowButton(k, action) ==
  /\ wizard.step = 0 /\ k \in DOMAIN wizard.shown /\ wizard.busy # k
  /\ wizard.shown[k] = IF action = "startRow" THEN "draft" ELSE "processing"

RunAction(k, action) ==
  /\ ActsOnCampaigns /\ RowButton(k, action)
  /\ wizard' = CampaignAct([wizard EXCEPT !.busy = k])
  /\ campaignCalls' = Send(campaignCalls, action, [row |-> k])
  /\ UNCHANGED campaignDb

RowAnswered(call) ==
  /\ wizard.mounted
  /\ call \in Done(campaignCalls, "startRow") \cup Done(campaignCalls, "cancel")
  /\ IF call.answer = Failed
     THEN wizard' = [wizard EXCEPT !.busy = 0] /\ campaignCalls' = campaignCalls \ {call}
     ELSE UNCHANGED wizard /\ campaignCalls' = Chain(campaignCalls, call, "list", [why |-> "row"])
  /\ UNCHANGED campaignDb

-----------------------------------------------------------------------------
(* The wizard *)

OpenWizard ==
  /\ ActsOnCampaigns /\ wizard.step = 0
  /\ wizard' = CampaignAct([wizard EXCEPT !.step = 1, !.form = EmptyWizard(wizard.acts), !.templates = None, !.error = ""])
  /\ campaignCalls' = Send(campaignCalls, "channels", [why |-> "open"])
  /\ UNCHANGED campaignDb

(* Another channel asks for its templates, without waiting for the answer  *)
(* about the last one; no channel or no wizard clears them.                *)
Picks(page, calls, channel) ==
  LET asks == page.step > 0 /\ channel # page.form.channel
  IN /\ wizard' = [page EXCEPT !.form.channel = channel]
     /\ campaignCalls' = IF asks THEN Send(calls, "templates", [channel |-> channel]) ELSE calls

(* An only channel is chosen for the operator.                             *)
ChannelsArrive(call) ==
  /\ wizard.mounted /\ call \in Done(campaignCalls, "channels")
  /\ LET found == IF call.answer = Failed THEN {} ELSE call.answer.result.channels
         page == [wizard EXCEPT !.channels = found]
     IN IF Cardinality(found) = 1
        THEN \E channel \in found : Picks(page, campaignCalls \ {call}, channel)
        ELSE wizard' = page /\ campaignCalls' = campaignCalls \ {call}
  /\ UNCHANGED campaignDb

ChooseChannel(channel) ==
  /\ ActsOnCampaigns /\ wizard.step = 1
  /\ channel \in wizard.channels \ {wizard.form.channel}
  /\ Picks(CampaignAct([wizard EXCEPT !.form.template = None]), campaignCalls, channel)
  /\ UNCHANGED campaignDb

TemplatesArrive(call) ==
  /\ wizard.mounted /\ call \in Done(campaignCalls, "templates")
  /\ campaignCalls' = campaignCalls \ {call}
  /\ wizard' = [wizard EXCEPT !.templates = IF call.answer = Failed THEN None ELSE call.about.channel]
  /\ UNCHANGED campaignDb

ChooseTemplate ==
  /\ wizard.mounted /\ wizard.step = 2 /\ wizard.templates \notin {None, wizard.form.template}
  /\ wizard' = [wizard EXCEPT !.form.template = wizard.templates]
  /\ UNCHANGED <<campaignCalls, campaignDb>>

(* By tag or by a file; what was filled in for the other one is kept.      *)
ChooseAudience(kind) ==
  /\ wizard.mounted /\ wizard.step = 2
  /\ \/ kind # wizard.form.audience /\ wizard' = [wizard EXCEPT !.form.audience = kind]
     \/ /\ kind = wizard.form.audience /\ kind \notin wizard.form.filled
        /\ wizard' = [wizard EXCEPT !.form.filled = @ \cup {kind}]
  /\ UNCHANGED <<campaignCalls, campaignDb>>

CanAdvance ==
  CASE wizard.step = 1 -> wizard.form.channel # None
    [] wizard.step = 2 -> wizard.form.template # None /\ wizard.form.audience \in wizard.form.filled
    [] OTHER -> TRUE

(* Mutant of HandleSubmit: the last step advances as the others do.        *)
HandleSubmit_PastTheEnd ==
  /\ wizard.mounted /\ wizard.step > 0 /\ CanAdvance
  /\ wizard' = [wizard EXCEPT !.step = @ + 1]
  /\ UNCHANGED <<campaignCalls, campaignDb>>

HandleSubmit ==
  /\ wizard.mounted /\ wizard.step \in {1, 2} /\ CanAdvance
  /\ wizard' = [wizard EXCEPT !.step = @ + 1]
  /\ UNCHANGED <<campaignCalls, campaignDb>>

StepBack ==
  /\ wizard.mounted /\ wizard.step \in {2, 3} /\ ~wizard.submitting
  /\ wizard' = [wizard EXCEPT !.step = @ - 1]
  /\ UNCHANGED <<campaignCalls, campaignDb>>

CloseWizard ==
  /\ wizard.mounted /\ wizard.step > 0 /\ ~wizard.submitting
  /\ wizard' = [wizard EXCEPT !.step = 0, !.templates = None]
  /\ UNCHANGED <<campaignCalls, campaignDb>>

(* Mutant of HandleCreate: the button stays enabled while it submits.      *)
HandleCreate_Enabled ==
  /\ ActsOnCampaigns /\ wizard.step = 3
  /\ wizard' = CampaignAct([wizard EXCEPT !.submitting = TRUE, !.error = ""])
  /\ campaignCalls' = Send(campaignCalls, "create",
                           [form |-> wizard.form, row |-> 0, mine |-> TRUE])
  /\ UNCHANGED campaignDb

HandleCreate ==
  /\ ActsOnCampaigns /\ wizard.step = 3 /\ ~wizard.submitting
  /\ wizard' = CampaignAct([wizard EXCEPT !.submitting = TRUE, !.error = ""])
  /\ campaignCalls' = Send(campaignCalls, "create",
                           [form |-> wizard.form, row |-> 0, mine |-> TRUE])
  /\ UNCHANGED campaignDb

(* The chain ends: the wizard closes, or stays open with an error that     *)
(* tells whether the campaign was created; the list is read again.         *)
ChainEnds(call, error) ==
  IF call.about.mine
  THEN /\ wizard' = [wizard EXCEPT !.submitting = FALSE, !.error = error,
                                   !.step = IF error = "" THEN 0 ELSE @,
                                   !.templates = IF error = "" THEN None ELSE @]
       /\ campaignCalls' = Chain(campaignCalls, call, "list", [why |-> "created"])
  ELSE UNCHANGED wizard /\ campaignCalls' = campaignCalls \ {call}

Continues(call, op, row) ==
  /\ campaignCalls' = Chain(campaignCalls, call, op, [call.about EXCEPT !.row = row])
  /\ UNCHANGED wizard

(* Mutant of ChainAnswered: a file that could not be imported is passed    *)
(* over.                                                                   *)
ChainAnswered_Regardless(call) ==
  /\ \E op \in {"create", "import", "start"} : call \in Done(campaignCalls, op)
  /\ CASE call.answer = Failed /\ call.op # "import" ->
            ChainEnds(call, IF call.op = "create" THEN "create" ELSE "draft")
       [] call.op = "create" /\ call.answer # Failed ->
            Continues(call, IF call.about.form.audience = "csv" THEN "import" ELSE "start", call.answer.result.row)
       [] call.op = "import" -> Continues(call, "start", call.about.row)
       [] OTHER -> ChainEnds(call, "")
  /\ UNCHANGED campaignDb

ChainAnswered(call) ==
  /\ \E op \in {"create", "import", "start"} : call \in Done(campaignCalls, op)
  /\ CASE call.answer = Failed -> ChainEnds(call, IF call.op = "create" THEN "create" ELSE "draft")
       [] call.op = "create" /\ call.answer # Failed ->
            Continues(call, IF call.about.form.audience = "csv" THEN "import" ELSE "start", call.answer.result.row)
       [] call.op = "import" /\ call.answer # Failed -> Continues(call, "start", call.about.row)
       [] OTHER -> ChainEnds(call, "")
  /\ UNCHANGED campaignDb

-----------------------------------------------------------------------------
(* Leaving the page and coming back *)

LeaveCampaigns ==
  /\ wizard.mounted
  /\ wizard' = [PageOpened(wizard.acts) EXCEPT !.mounted = FALSE]
  /\ campaignCalls' = {IF c.op \in {"startRow", "cancel"} THEN c ELSE [c EXCEPT !.about.mine = FALSE] :
                         c \in {d \in campaignCalls : d.op \notin {"list", "channels", "templates"}}}
  /\ UNCHANGED campaignDb

ReturnToCampaigns ==
  /\ ~wizard.mounted /\ wizard.acts < MaxActs /\ CanCall(campaignCalls)
  /\ wizard' = PageOpened(wizard.acts + 1)
  /\ campaignCalls' = Send({c \in campaignCalls : c.op \notin {"startRow", "cancel"} \/ c.answer = Waiting},
                           "list", [why |-> "open"])
  /\ UNCHANGED campaignDb

-----------------------------------------------------------------------------
(* The server: the status of the campaigns as CampaignDispatch has it.     *)

Starts(k, by) ==
  IF Rows[k].status = "draft"
  THEN campaignDb' = [campaignDb EXCEPT !.rows[k].status = "processing", !.rows[k].by = by]
  ELSE UNCHANGED campaignDb

CampaignServer(call) ==
  /\ call \in campaignCalls /\ call.answer = Waiting
  /\ \/ /\ call.op = "list"
        /\ campaignCalls' = Answered(campaignCalls, call, Ok([rows |-> [k \in DOMAIN Rows |-> Rows[k].status]]))
        /\ UNCHANGED campaignDb
     \/ /\ call.op \in {"channels", "templates"}
        /\ campaignCalls' = Answered(campaignCalls, call, Ok([channels |-> campaignDb.channels]))
        /\ UNCHANGED campaignDb
     \/ /\ call.op = "create" /\ Len(Rows) < MaxCampaigns
        /\ campaignDb' = [campaignDb EXCEPT !.rows =
             Append(@, [status |-> "draft", audience |-> call.about.form.audience,
                        opening |-> call.about.form.opening, imported |-> FALSE, by |-> None, unheard |-> FALSE])]
        /\ campaignCalls' = Answered(campaignCalls, call, Ok([row |-> Len(Rows) + 1]))
     \/ /\ call.op = "import"
        /\ campaignDb' = [campaignDb EXCEPT !.rows[call.about.row].imported = TRUE]
        /\ campaignCalls' = Answered(campaignCalls, call, Ok([done |-> TRUE]))
     \/ /\ call.op \in {"start", "startRow"}
        /\ Starts(call.about.row, call.op)
        /\ campaignCalls' = Answered(campaignCalls, call,
             IF Rows[call.about.row].status = "draft" THEN Ok([done |-> TRUE]) ELSE Failed)
     \/ /\ call.op = "cancel"
        /\ campaignDb' = [campaignDb EXCEPT !.rows[call.about.row].status = "cancelled"]
        /\ campaignCalls' = Answered(campaignCalls, call, Ok([done |-> TRUE]))
  /\ UNCHANGED wizard

(* A call that does not reach the server, and an answer lost on its way.   *)
CampaignCallFails(call) ==
  /\ call \in campaignCalls /\ call.answer # Failed
  /\ campaignDb.lost < MaxLost
  /\ campaignCalls' = Answered(campaignCalls, call, Failed)
  /\ campaignDb' = [campaignDb EXCEPT
       !.lost = @ + 1,
       !.rows = [k \in DOMAIN @ |-> IF call.op = "start" /\ call.answer # Waiting /\ call.about.row = k
                                    THEN [@[k] EXCEPT !.unheard = TRUE] ELSE @[k]]]
  /\ UNCHANGED wizard

(* The dispatcher has sent a campaign to everybody.                        *)
CampaignCompletes(k) ==
  /\ k \in DOMAIN Rows /\ Rows[k].status = "processing"
  /\ campaignDb' = [campaignDb EXCEPT !.rows[k].status = "completed"]
  /\ UNCHANGED <<wizard, campaignCalls>>

CampaignsNext ==
  \/ Poll \/ OpenWizard \/ HandleSubmit \/ StepBack \/ CloseWizard \/ HandleCreate
  \/ ChooseTemplate \/ LeaveCampaigns \/ ReturnToCampaigns
  \/ \E channel \in OfficialChannels : ChooseChannel(channel)
  \/ \E kind \in {"tag", "csv"} : ChooseAudience(kind)
  \/ \E k \in 1..MaxCampaigns :
       CampaignCompletes(k) \/ \E action \in {"startRow", "cancel"} : RunAction(k, action)
  \/ \E call \in campaignCalls :
       \/ CampaignListArrives(call) \/ RowAnswered(call) \/ ChannelsArrive(call)
       \/ TemplatesArrive(call) \/ ChainAnswered(call)
       \/ CampaignServer(call) \/ CampaignCallFails(call)

CampaignsSpec == CampaignsInit /\ [][CampaignsNext]_campaignVars

(* The interval ticks, and calls are answered.                             *)
CampaignsFair ==
  /\ WF_campaignVars(Poll)
  /\ WF_campaignVars(\E call \in campaignCalls : CampaignServer(call))
  /\ WF_campaignVars(\E call \in campaignCalls :
       \/ CampaignListArrives(call) \/ RowAnswered(call) \/ ChannelsArrive(call)
       \/ TemplatesArrive(call) \/ ChainAnswered(call))

-----------------------------------------------------------------------------
CampaignsTypeOK ==
  /\ wizard.step \in 0..3 /\ wizard.busy \in 0..MaxCampaigns
  /\ {wizard.mounted, wizard.submitting} \subseteq BOOLEAN
  /\ wizard.form \in [channel : OfficialChannels \cup {None}, template : OfficialChannels \cup {None},
                      audience : {"tag", "csv"}, filled : SUBSET {"tag", "csv"}, opening : 0..MaxActs]
  /\ wizard.error \in {"", "create", "draft"}
  /\ Rows \in Seq([status : {"draft", "processing", "completed", "cancelled"}, audience : {"tag", "csv"},
                   opening : 0..MaxActs, imported : BOOLEAN, by : {None, "start", "startRow"}, unheard : BOOLEAN])
  /\ campaignDb.lost \in 0..MaxLost

(* What the wizard starts has its audience, a file being imported first,   *)
(* and one opening of the wizard sends to it once however often it is      *)
(* submitted, unless the answer to a start was lost: then the wizard says  *)
(* that the campaign was saved as a draft while it is being sent, and      *)
(* submitting again sends a second one.                                    *)
WizardSendsOnce ==
  \A k \in DOMAIN Rows : Rows[k].by = "start" =>
    /\ Rows[k].audience = "tag" \/ Rows[k].imported
    /\ \A j \in DOMAIN Rows : Rows[j].by = "start" /\ Rows[j].opening = Rows[k].opening /\ j # k =>
         Rows[j].unheard \/ Rows[k].unheard

(* A campaign that has ended does not go on being shown as sending.        *)
SendingIsFollowed ==
  []<>(wizard.mounted =>
         \A k \in DOMAIN wizard.shown : wizard.shown[k] = "processing" => Rows[k].status = "processing")
=============================================================================
