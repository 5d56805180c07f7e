-------------------------- MODULE DraftPagesProofs --------------------------
(***************************************************************************)
(* The two pages on which something is put together before it counts, for  *)
(* every number of acts, calls in flight and failures.  The campaign       *)
(* wizard: what it starts has its audience, and one opening of it sends    *)
(* once.  The flow editor: what it says is saved is what the server has,   *)
(* and the drawing stays one that the engine can follow.                   *)
(***************************************************************************)
EXTENDS WebPanelProofs

-----------------------------------------------------------------------------
(* Types *)

ChainOps == {"create", "import", "start"}

AForm ==
  [channel : OfficialChannels \cup {None}, template : OfficialChannels \cup {None},
   audience : {"tag", "csv"}, filled : SUBSET {"tag", "csv"}, opening : 0..MaxActs]

ARow ==
  [status : {"draft", "processing", "completed", "cancelled"}, audience : {"tag", "csv"},
   opening : 0..MaxActs, imported : BOOLEAN, by : {None, "start", "startRow"}, unheard : BOOLEAN]

IsPage(w) ==
  w \in [mounted : BOOLEAN, shown : {w.shown}, busy : 0..MaxCampaigns, step : 0..3, form : AForm,
         channels : SUBSET OfficialChannels, templates : OfficialChannels \cup {None},
         submitting : BOOLEAN, error : {"", "create", "draft"}, acts : 0..MaxActs]

CallFits(c) ==
  /\ IsCall(c)
  /\ c.op = "channels" /\ IsDone(c) => c.answer.result.channels \subseteq OfficialChannels
  /\ c.op = "templates" => c.about.channel \in OfficialChannels
  /\ c.op \in ChainOps => c.about \in [form : AForm, row : Nat, mine : BOOLEAN]
  /\ c.op = "create" /\ IsDone(c) => c.answer.result.row \in Nat

IsServer(db) == db \in [channels : SUBSET OfficialChannels, rows : Seq(ARow), lost : 0..MaxLost]

CampaignsFit ==
  /\ IsPage(wizard)
  /\ IsServer(campaignDb)
  /\ \A c \in campaignCalls : CallFits(c)

(* A call that is sent awaits its answer.                                  *)
LEMMA SendFits ==
  ASSUME NEW calls, \A c \in calls : CallFits(c), NEW op, NEW about,
         op = "templates" => about.channel \in OfficialChannels,
         op \in ChainOps => about \in [form : AForm, row : Nat, mine : BOOLEAN]
  PROVE  \A c \in Send(calls, op, about) : CallFits(c)
<1> DEFINE new == [slot |-> FreeSlot(calls), op |-> op, about |-> about, answer |-> Waiting]
<1>1. IsCall(new) /\ new.op = op /\ new.about = about /\ new.answer = Waiting
  BY DEF IsCall
<1>2. Send(calls, op, about) = calls \cup {new}
  BY Zenon DEF Send
<1> HIDE DEF new
<1>3. CallFits(new)
  BY <1>1 DEF CallFits, IsDone
<1>4. QED
  BY <1>2, <1>3

LEMMA ChainFits ==
  ASSUME NEW calls, \A c \in calls : CallFits(c), NEW call, NEW op, NEW about,
         op = "templates" => about.channel \in OfficialChannels,
         op \in ChainOps => about \in [form : AForm, row : Nat, mine : BOOLEAN]
  PROVE  \A c \in Chain(calls, call, op, about) : CallFits(c)
<1>1. \A c \in calls \ {call} : CallFits(c)
  OBVIOUS
<1>2. QED
  BY <1>1, SendFits, Zenon DEF Chain

LEMMA AnsweredFits ==
  ASSUME NEW calls, \A c \in calls : CallFits(c), NEW call \in calls, NEW answer,
         call.op = "channels" /\ answer # Failed => answer.result.channels \subseteq OfficialChannels,
         call.op = "create" /\ answer # Failed => answer.result.row \in Nat
  PROVE  \A c \in Answered(calls, call, answer) : CallFits(c)
<1> SUFFICES ASSUME NEW c \in Answered(calls, call, answer) PROVE CallFits(c)
  OBVIOUS
<1>1. CallFits(call)
  OBVIOUS
<1>2. CASE c \in calls \ {call}
  BY <1>2
<1>3. CASE IsCall(c) /\ c.op = call.op /\ c.about = call.about /\ c.answer = answer
  BY <1>1, <1>3 DEF CallFits, IsDone
<1>4. QED
  BY <1>1, <1>2, <1>3, AnsweredReplaces DEF CallFits

LEMMA OpenedFits ==
  ASSUME NEW acts \in 0..MaxActs
  PROVE  IsPage(PageOpened(acts)) /\ PageOpened(acts).step = 0
<1>1. 0 \in 0..MaxActs /\ 0 \in 0..MaxCampaigns
  BY PanelCallsAssumption, CampaignsPageAssumption
<1>2. EmptyWizard(0) \in AForm
  BY <1>1 DEF EmptyWizard, AForm
<1>3. QED
  BY <1>1, <1>2 DEF PageOpened, IsPage

LEMMA ActFits ==
  ASSUME NEW page, IsPage(page), page.acts < MaxActs
  PROVE  /\ IsPage(CampaignAct(page)) /\ CampaignAct(page).acts = page.acts + 1
         /\ CampaignAct(page).step = page.step /\ CampaignAct(page).form = page.form
         /\ CampaignAct(page).mounted = page.mounted /\ CampaignAct(page).submitting = page.submitting
<1> DEFINE acts == page.acts + 1
<1>1. acts \in 0..MaxActs
  <2>1. page.acts \in 0..MaxActs
    BY DEF IsPage
  <2>2. QED
    BY <2>1, PanelCallsAssumption
<1>2. CampaignAct(page) = [page EXCEPT !.acts = acts]
  BY Zenon DEF CampaignAct
<1> HIDE DEF acts
<1>3. /\ IsPage(CampaignAct(page)) /\ CampaignAct(page).acts = acts
      /\ CampaignAct(page).step = page.step /\ CampaignAct(page).form = page.form
      /\ CampaignAct(page).mounted = page.mounted /\ CampaignAct(page).submitting = page.submitting
  BY <1>1, <1>2 DEF IsPage
<1>4. QED
  BY <1>3 DEF acts

-----------------------------------------------------------------------------
(* Steps that are no business of a chain *)

ChainsIn(calls) == {c \in calls : c.op \in ChainOps}

(* The calls of the chains stay as they are.                               *)
Aside(old, new) ==
  /\ \A c \in new : CallFits(c)
  /\ ChainsIn(new) = ChainsIn(old)

(* The wizard stays at its opening, or closes; while it submits, it stays. *)
QuietPage(old, new) ==
  /\ IsPage(new)
  /\ new.acts >= old.acts
  /\ new.step > 0 => old.step > 0 /\ new.form.opening = old.form.opening
  /\ old.mounted /\ old.submitting /\ old.step = 3 => new.mounted /\ new.submitting /\ new.step = 3

LEMMA OtherSent ==
  ASSUME NEW calls, \A c \in calls : CallFits(c), NEW op, NEW about, op \notin ChainOps,
         op = "templates" => about.channel \in OfficialChannels
  PROVE  Aside(calls, Send(calls, op, about))
<1>1. \A c \in Send(calls, op, about) : CallFits(c)
  BY SendFits
<1>2. \A c \in Send(calls, op, about) : c \in calls \/ c.op = op
  BY SendAdds
<1>3. calls \subseteq Send(calls, op, about)
  BY Zenon DEF Send
<1>4. QED
  BY <1>1, <1>2, <1>3 DEF Aside, ChainsIn

LEMMA OtherGone ==
  ASSUME NEW calls, \A c \in calls : CallFits(c), NEW call, call.op \notin ChainOps
  PROVE  Aside(calls, calls \ {call})
  BY DEF Aside, ChainsIn

LEMMA OtherChained ==
  ASSUME NEW calls, \A c \in calls : CallFits(c), NEW call, call.op \notin ChainOps,
         NEW op, NEW about, op \notin ChainOps, op = "templates" => about.channel \in OfficialChannels
  PROVE  Aside(calls, Chain(calls, call, op, about))
<1>1. Aside(calls, calls \ {call})
  BY OtherGone
<1>2. Aside(calls \ {call}, Send(calls \ {call}, op, about))
  BY <1>1, OtherSent DEF Aside
<1>3. QED
  BY <1>1, <1>2, Zenon DEF Aside, Chain

LEMMA OtherAnswered ==
  ASSUME NEW calls, \A c \in calls : CallFits(c), NEW call \in calls, call.op \notin ChainOps, NEW answer,
         call.op = "channels" /\ answer # Failed => answer.result.channels \subseteq OfficialChannels
  PROVE  Aside(calls, Answered(calls, call, answer))
<1>1. \A c \in Answered(calls, call, answer) : CallFits(c)
  BY AnsweredFits DEF ChainOps
<1>2. \A c \in Answered(calls, call, answer) : c \in calls \/ c.op = call.op
  BY AnsweredReplaces DEF CallFits
<1>3. calls \ {call} \subseteq Answered(calls, call, answer)
  BY Zenon DEF Answered
<1>4. QED
  BY <1>1, <1>2, <1>3 DEF Aside, ChainsIn

LEMMA StillIsQuiet ==
  ASSUME IsPage(wizard)
  PROVE  QuietPage(wizard, wizard)
<1>1. wizard.acts \in 0..MaxActs
  BY DEF IsPage
<1>2. wizard.acts >= wizard.acts
  BY <1>1, PanelCallsAssumption
<1>3. QED
  BY <1>2, Zenon DEF QuietPage

(* A page with the acts, the opening, the step and the state of the submit *)
(* it had.                                                                 *)
LEMMA SameIsQuiet ==
  ASSUME IsPage(wizard), NEW page, IsPage(page), page.acts = wizard.acts \/ page.acts = wizard.acts + 1,
         page.mounted = wizard.mounted, page.submitting = wizard.submitting,
         page.form.opening = wizard.form.opening,
         page.step = wizard.step \/ (page.step \in 0..3 /\ wizard.step > 0 /\ wizard.step < 3)
                                 \/ (page.step \in 0..3 /\ wizard.step > 0 /\ ~wizard.submitting)
  PROVE  QuietPage(wizard, page)
<1>1. wizard.acts \in 0..MaxActs /\ wizard.step \in 0..3
  BY DEF IsPage
<1>2. page.acts >= wizard.acts
  BY <1>1, PanelCallsAssumption
<1>3. page.step > 0 => wizard.step > 0 
  BY <1>1
<1>4. wizard.submitting /\ wizard.step = 3 => page.step = 3
  <2>1. \A step : step = 3 => ~(step < 3)
    OBVIOUS
  <2>2. QED
    BY <2>1, Zenon
<1>5. QED
  BY <1>2, <1>3, <1>4, Zenon DEF QuietPage

(* What the page does beside the chains.                                   *)
AsideStep ==
  /\ IsServer(campaignDb')
  /\ QuietPage(wizard, wizard')
  /\ Aside(campaignCalls, campaignCalls')

LEMMA ListIsAside ==
  ASSUME CampaignsFit,
         \/ Poll \/ \E call \in campaignCalls : CampaignListArrives(call) \/ RowAnswered(call)
         \/ \E k \in 1..MaxCampaigns, action \in {"startRow", "cancel"} : RunAction(k, action)
  PROVE  AsideStep /\ UNCHANGED campaignDb
<1>1. /\ IsPage(wizard) /\ (\A c \in campaignCalls : CallFits(c))
      /\ 0 \in 0..MaxCampaigns /\ 1..MaxCampaigns \subseteq 0..MaxCampaigns
  BY CampaignsPageAssumption DEF CampaignsFit
<1>2. UNCHANGED campaignDb /\ IsServer(campaignDb')
  <2>1. UNCHANGED campaignDb
    BY Zenon DEF Poll, CampaignListArrives, RowAnswered, RunAction
  <2>2. QED
    BY <2>1, Zenon DEF CampaignsFit
<1>3. "list" \notin ChainOps /\ "startRow" \notin ChainOps /\ "cancel" \notin ChainOps
  BY DEF ChainOps
<1>4. CASE Poll
  <2>1. UNCHANGED wizard /\ campaignCalls' = Send(campaignCalls, "list", [why |-> "poll"])
    BY <1>4 DEF Poll
  <2>2. Aside(campaignCalls, campaignCalls')
    BY <1>1, <1>3, <2>1, OtherSent
  <2>3. QED
    BY <1>1, <1>2, <2>1, <2>2, StillIsQuiet, Zenon DEF AsideStep
<1>5. ASSUME NEW call \in campaignCalls, CampaignListArrives(call)
      PROVE  AsideStep
  <2>1. campaignCalls' = campaignCalls \ {call} /\ call.op = "list"
    BY <1>5 DEF CampaignListArrives, Done
  <2>2. Aside(campaignCalls, campaignCalls')
    BY <1>1, <1>3, <2>1, OtherGone
  <2> DEFINE shown == IF call.answer = Failed THEN wizard.shown ELSE call.answer.result.rows
             busy == IF call.about.why = "row" THEN 0 ELSE wizard.busy
  <2>3. busy \in 0..MaxCampaigns /\ wizard' = [wizard EXCEPT !.shown = shown, !.busy = busy]
    BY <1>1, <1>5 DEF CampaignListArrives, IsPage
  <2> HIDE DEF shown, busy
  <2>4. /\ IsPage(wizard') /\ wizard'.acts = wizard.acts /\ wizard'.mounted = wizard.mounted
        /\ wizard'.submitting = wizard.submitting /\ wizard'.form = wizard.form /\ wizard'.step = wizard.step
    BY <1>1, <2>3 DEF IsPage
  <2>5. QED
    BY <1>1, <1>2, <2>2, <2>4, SameIsQuiet, Zenon DEF AsideStep
<1>6. ASSUME NEW call \in campaignCalls, RowAnswered(call)
      PROVE  AsideStep
  <2>1. call.op \notin ChainOps
    BY <1>3, <1>6 DEF RowAnswered, Done
  <2>2. CASE call.answer = Failed
    <3> DEFINE page == [wizard EXCEPT !.busy = 0]
    <3>1. wizard' = page /\ campaignCalls' = campaignCalls \ {call}
      BY <1>6, <2>2, Zenon DEF RowAnswered
    <3>2. /\ IsPage(page) /\ page.acts = wizard.acts /\ page.mounted = wizard.mounted
          /\ page.submitting = wizard.submitting /\ page.form = wizard.form /\ page.step = wizard.step
      BY <1>1 DEF IsPage
    <3> HIDE DEF page
    <3>3. QuietPage(wizard, wizard')
      BY <1>1, <3>1, <3>2, SameIsQuiet, Zenon
    <3>4. QED
      BY <1>1, <1>2, <2>1, <3>1, <3>3, OtherGone DEF AsideStep
  <2>3. CASE call.answer # Failed
    <3>1. UNCHANGED wizard /\ campaignCalls' = Chain(campaignCalls, call, "list", [why |-> "row"])
      BY <1>6, <2>3, Zenon DEF RowAnswered
    <3>2. Aside(campaignCalls, campaignCalls')
      BY <1>1, <1>3, <2>1, <3>1, OtherChained
    <3>3. QED
      BY <1>1, <1>2, <3>1, <3>2, StillIsQuiet, Zenon DEF AsideStep
  <2>4. QED
    BY <2>2, <2>3
<1>7. ASSUME NEW k \in 1..MaxCampaigns, NEW action \in {"startRow", "cancel"}, RunAction(k, action)
      PROVE  AsideStep
  <2>1. campaignCalls' = Send(campaignCalls, action, [row |-> k])
    BY <1>7 DEF RunAction
  <2>2. Aside(campaignCalls, campaignCalls')
    BY <1>1, <1>3, <2>1, OtherSent
  <2> DEFINE page == [wizard EXCEPT !.busy = k]
  <2>3. wizard' = CampaignAct(page) /\ wizard.acts < MaxActs
    BY <1>7 DEF RunAction, ActsOnCampaigns
  <2>4. /\ IsPage(page) /\ page.acts = wizard.acts /\ page.mounted = wizard.mounted
        /\ page.submitting = wizard.submitting /\ page.form = wizard.form /\ page.step = wizard.step
    BY <1>1 DEF IsPage
  <2> HIDE DEF page
  <2>5. QuietPage(wizard, wizard')
    BY <1>1, <2>3, <2>4, ActFits, SameIsQuiet
  <2>6. QED
    BY <1>2, <2>2, <2>5, Zenon DEF AsideStep
<1>8. QED
  BY <1>2, <1>4, <1>5, <1>6, <1>7

LEMMA FormKeepsPage ==
  ASSUME NEW page, IsPage(page), NEW form \in AForm
  PROVE  LET next == [page EXCEPT !.form = form]
         IN /\ IsPage(next) /\ next.form = form /\ next.acts = page.acts /\ next.mounted = page.mounted
            /\ next.submitting = page.submitting /\ next.step = page.step
  BY DEF IsPage

LEMMA StepKeepsPage ==
  ASSUME NEW page, IsPage(page), NEW step \in 0..3
  PROVE  LET next == [page EXCEPT !.step = step]
         IN /\ IsPage(next) /\ next.form = page.form /\ next.acts = page.acts /\ next.mounted = page.mounted
            /\ next.submitting = page.submitting /\ next.step = step
  BY DEF IsPage

(* Choosing a channel asks for its templates and changes the form alone.   *)
LEMMA PicksIsAside ==
  ASSUME NEW page, IsPage(page), NEW calls, \A c \in calls : CallFits(c), NEW channel \in OfficialChannels,
         Picks(page, calls, channel)
  PROVE  /\ IsPage(wizard') /\ wizard'.acts = page.acts /\ wizard'.mounted = page.mounted
         /\ wizard'.submitting = page.submitting /\ wizard'.step = page.step
         /\ wizard'.form.opening = page.form.opening
         /\ Aside(calls, campaignCalls')
<1> DEFINE form == [page.form EXCEPT !.channel = channel]
<1>1. page.form \in AForm
  BY DEF IsPage
<1>2. form \in AForm /\ form.opening = page.form.opening
  BY <1>1 DEF AForm
<1>3. wizard' = [page EXCEPT !.form = form]
  BY DEF Picks
<1> HIDE DEF form
<1>4. /\ IsPage(wizard') /\ wizard'.acts = page.acts /\ wizard'.mounted = page.mounted
      /\ wizard'.submitting = page.submitting /\ wizard'.step = page.step
      /\ wizard'.form.opening = page.form.opening
  BY <1>2, <1>3, FormKeepsPage
<1>5. Aside(calls, campaignCalls')
  <2> DEFINE about == [channel |-> channel]
  <2>1. campaignCalls' = calls \/ campaignCalls' = Send(calls, "templates", about)
    BY Zenon DEF Picks
  <2>2. about.channel \in OfficialChannels /\ "templates" \notin ChainOps
    BY DEF ChainOps
  <2> HIDE DEF about
  <2>3. Aside(calls, calls)
    BY DEF Aside
  <2>4. Aside(calls, Send(calls, "templates", about))
    BY <2>2, OtherSent
  <2>5. QED
    BY <2>1, <2>3, <2>4
<1>6. QED
  BY <1>4, <1>5

LEMMA ChannelsAreAside ==
  ASSUME CampaignsFit,
         \/ \E call \in campaignCalls : ChannelsArrive(call)
         \/ \E channel \in OfficialChannels : ChooseChannel(channel)
  PROVE  AsideStep /\ UNCHANGED campaignDb
<1>1. IsPage(wizard) /\ (\A c \in campaignCalls : CallFits(c))
  BY DEF CampaignsFit
<1>2. UNCHANGED campaignDb /\ IsServer(campaignDb')
  <2>1. UNCHANGED campaignDb
    BY Zenon DEF ChannelsArrive, ChooseChannel
  <2>2. QED
    BY <2>1, Zenon DEF CampaignsFit
<1>3. ASSUME NEW call \in campaignCalls, ChannelsArrive(call)
      PROVE  AsideStep
  <2> DEFINE found == IF call.answer = Failed THEN {} ELSE call.answer.result.channels
             page == [wizard EXCEPT !.channels = found]
             calls == campaignCalls \ {call}
  <2>1. call.op = "channels" /\ call.answer # Waiting /\ call.op \notin ChainOps
    BY <1>3 DEF ChannelsArrive, Done, ChainOps
  <2>2. found \subseteq OfficialChannels
    <3>1. CallFits(call)
      BY <1>1
    <3>2. QED
      BY <2>1, <3>1 DEF CallFits, IsDone
  <2>3. /\ IsPage(page) /\ page.acts = wizard.acts /\ page.mounted = wizard.mounted
        /\ page.submitting = wizard.submitting /\ page.step = wizard.step /\ page.form = wizard.form
    <3> HIDE DEF found
    <3>1. QED
      BY <1>1, <2>2 DEF IsPage
  <2>4. Aside(campaignCalls, calls)
    BY <1>1, <2>1, OtherGone
  <2>5. \/ wizard' = page /\ campaignCalls' = calls
        \/ \E channel \in found : Picks(page, calls, channel)
    BY <1>3, Zenon DEF ChannelsArrive
  <2> HIDE DEF page, calls, found
  <2>6. QuietPage(wizard, wizard') /\ Aside(campaignCalls, campaignCalls')
    <3>1. CASE wizard' = page /\ campaignCalls' = calls
      BY <1>1, <2>3, <2>4, <3>1, SameIsQuiet
    <3>2. ASSUME NEW channel \in found, Picks(page, calls, channel)
          PROVE  QuietPage(wizard, wizard') /\ Aside(campaignCalls, campaignCalls')
      <4>1. channel \in OfficialChannels /\ (\A c \in calls : CallFits(c))
        BY <2>2, <2>4 DEF Aside
      <4>2. /\ IsPage(wizard') /\ wizard'.acts = page.acts /\ wizard'.mounted = page.mounted
            /\ wizard'.submitting = page.submitting /\ wizard'.step = page.step
            /\ wizard'.form.opening = page.form.opening
            /\ Aside(calls, campaignCalls')
        BY <2>3, <3>2, <4>1, PicksIsAside
      <4>3. QuietPage(wizard, wizard')
        BY <1>1, <2>3, <4>2, SameIsQuiet
      <4>4. QED
        BY <2>4, <4>2, <4>3 DEF Aside
    <3>3. QED
      BY <2>5, <3>1, <3>2
  <2>7. QED
    BY <1>2, <2>6, Zenon DEF AsideStep
<1>4. ASSUME NEW channel \in OfficialChannels, ChooseChannel(channel)
      PROVE  AsideStep
  <2> DEFINE form == [wizard.form EXCEPT !.template = None]
             page == [wizard EXCEPT !.form = form]
  <2>1. form \in AForm /\ form.opening = wizard.form.opening
    BY <1>1 DEF IsPage, AForm
  <2>2. Picks(CampaignAct(page), campaignCalls, channel) /\ wizard.acts < MaxActs
    BY <1>4 DEF ChooseChannel, ActsOnCampaigns
  <2>3. /\ IsPage(page) /\ page.acts = wizard.acts /\ page.mounted = wizard.mounted
        /\ page.submitting = wizard.submitting /\ page.step = wizard.step
        /\ page.form.opening = wizard.form.opening
    <3> HIDE DEF form
    <3>1. QED
      BY <1>1, <2>1, FormKeepsPage
  <2> HIDE DEF page
  <2> DEFINE act == CampaignAct(page)
  <2>4. /\ IsPage(act) /\ act.acts = wizard.acts + 1 /\ act.mounted = wizard.mounted
        /\ act.submitting = wizard.submitting /\ act.step = wizard.step
        /\ act.form.opening = wizard.form.opening
    BY <2>2, <2>3, ActFits
  <2> HIDE DEF act
  <2>5. /\ IsPage(wizard') /\ wizard'.acts = act.acts /\ wizard'.mounted = act.mounted
        /\ wizard'.submitting = act.submitting /\ wizard'.step = act.step
        /\ wizard'.form.opening = act.form.opening
        /\ Aside(campaignCalls, campaignCalls')
    BY <1>1, <2>2, <2>4, PicksIsAside DEF act
  <2>6. QuietPage(wizard, wizard')
    BY <1>1, <2>4, <2>5, SameIsQuiet
  <2>7. QED
    BY <1>2, <2>5, <2>6, Zenon DEF AsideStep
<1>5. QED
  BY <1>2, <1>3, <1>4

LEMMA StepsAreAside ==
  ASSUME CampaignsFit,
         \/ HandleSubmit \/ StepBack \/ CloseWizard \/ ChooseTemplate
         \/ \E kind \in {"tag", "csv"} : ChooseAudience(kind)
  PROVE  AsideStep /\ UNCHANGED campaignDb
<1>1. IsPage(wizard) /\ wizard.step \in 0..3 /\ wizard.form \in AForm /\ Aside(campaignCalls, campaignCalls)
  BY DEF CampaignsFit, IsPage, Aside
<1>2. /\ UNCHANGED <<campaignDb, campaignCalls>> /\ IsServer(campaignDb')
      /\ Aside(campaignCalls, campaignCalls')
  <2>1. UNCHANGED <<campaignDb, campaignCalls>>
    BY Zenon DEF HandleSubmit, StepBack, CloseWizard, ChooseTemplate, ChooseAudience
  <2>2. QED
    BY <1>1, <2>1, Zenon DEF CampaignsFit
<1>3. CASE HandleSubmit
  <2> DEFINE step == wizard.step + 1
  <2>1. step \in 0..3 /\ wizard.step > 0 /\ wizard.step < 3
    <3>1. wizard.step \in {1, 2}
      BY <1>3 DEF HandleSubmit
    <3>2. QED
      BY <3>1
  <2>2. wizard' = [wizard EXCEPT !.step = step]
    BY <1>3, Zenon DEF HandleSubmit
  <2> HIDE DEF step
  <2>3. QuietPage(wizard, wizard')
    <3>1. /\ IsPage(wizard') /\ wizard'.acts = wizard.acts /\ wizard'.mounted = wizard.mounted
          /\ wizard'.submitting = wizard.submitting /\ wizard'.form = wizard.form /\ wizard'.step = step
      BY <1>1, <2>1, <2>2, StepKeepsPage
    <3>2. QED
      BY <1>1, <2>1, <3>1, SameIsQuiet, Zenon
  <2>4. QED
    BY <1>2, <2>3, Zenon DEF AsideStep
<1>4. CASE StepBack
  <2> DEFINE step == wizard.step - 1
  <2>1. step \in 0..3 /\ wizard.step > 0 /\ ~wizard.submitting
    <3>1. wizard.step \in {2, 3} /\ ~wizard.submitting
      BY <1>4 DEF StepBack
    <3>2. QED
      BY <3>1
  <2>2. wizard' = [wizard EXCEPT !.step = step]
    BY <1>4, Zenon DEF StepBack
  <2> HIDE DEF step
  <2>3. QuietPage(wizard, wizard')
    <3>1. /\ IsPage(wizard') /\ wizard'.acts = wizard.acts /\ wizard'.mounted = wizard.mounted
          /\ wizard'.submitting = wizard.submitting /\ wizard'.form = wizard.form /\ wizard'.step = step
      BY <1>1, <2>1, <2>2, StepKeepsPage
    <3>2. QED
      BY <1>1, <2>1, <3>1, SameIsQuiet, Zenon
  <2>4. QED
    BY <1>2, <2>3, Zenon DEF AsideStep
<1>5. CASE CloseWizard
  <2>1. wizard' = [wizard EXCEPT !.step = 0, !.templates = None] /\ wizard.step > 0 /\ ~wizard.submitting
    BY <1>5 DEF CloseWizard
  <2>2. /\ IsPage(wizard') /\ wizard'.acts = wizard.acts /\ wizard'.mounted = wizard.mounted
        /\ wizard'.submitting = wizard.submitting /\ wizard'.form = wizard.form /\ wizard'.step = 0
    <3> DEFINE step == 0
               templates == None
    <3>1. wizard' = [wizard EXCEPT !.step = step, !.templates = templates]
      BY <2>1
    <3>2. step \in 0..3 /\ templates \in OfficialChannels \cup {None} /\ step = 0
      OBVIOUS
    <3> HIDE DEF step, templates
    <3>3. QED
      BY <1>1, <3>1, <3>2 DEF IsPage
  <2>3. QuietPage(wizard, wizard')
    <3>1. 0 \in 0..3
      OBVIOUS
    <3>2. QED
      BY <1>1, <2>1, <2>2, <3>1, SameIsQuiet, Zenon
  <2>4. QED
    BY <1>2, <2>3, Zenon DEF AsideStep
<1>6. CASE ChooseTemplate
  <2> DEFINE form == [wizard.form EXCEPT !.template = wizard.templates]
  <2>1. wizard' = [wizard EXCEPT !.form = form]
    BY <1>6 DEF ChooseTemplate
  <2>2. form \in AForm /\ form.opening = wizard.form.opening
    <3>1. wizard.templates \in OfficialChannels \cup {None}
      BY <1>1 DEF IsPage
    <3>2. QED
      BY <1>1, <3>1 DEF AForm
  <2> HIDE DEF form
  <2>3. QuietPage(wizard, wizard')
    BY <1>1, <2>1, <2>2, FormKeepsPage, SameIsQuiet
  <2>4. QED
    BY <1>2, <2>3, Zenon DEF AsideStep
<1>7. ASSUME NEW kind \in {"tag", "csv"}, ChooseAudience(kind)
      PROVE  AsideStep
  <2> DEFINE chosen == [wizard.form EXCEPT !.audience = kind]
             both == wizard.form.filled \cup {kind}
             filled == [wizard.form EXCEPT !.filled = both]
  <2>1. wizard' = [wizard EXCEPT !.form = chosen] \/ wizard' = [wizard EXCEPT !.form = filled]
    BY <1>7 DEF ChooseAudience
  <2>2. chosen \in AForm /\ chosen.opening = wizard.form.opening
    BY <1>1 DEF AForm
  <2>3. both \subseteq {"tag", "csv"}
    BY <1>1 DEF AForm
  <2>4. filled \in AForm /\ filled.opening = wizard.form.opening
    <3> HIDE DEF both
    <3>1. QED
      BY <1>1, <2>3 DEF AForm
  <2> HIDE DEF chosen, filled
  <2>5. QuietPage(wizard, wizard')
    <3>1. PICK form \in {chosen, filled} : wizard' = [wizard EXCEPT !.form = form]
      BY <2>1
    <3>2. form \in AForm /\ form.opening = wizard.form.opening
      BY <2>2, <2>4
    <3>3. QED
      BY <1>1, <3>1, <3>2, FormKeepsPage, SameIsQuiet
  <2>6. QED
    BY <1>2, <2>5, Zenon DEF AsideStep
<1>8. QED
  BY <1>2, <1>3, <1>4, <1>5, <1>6, <1>7

LEMMA ReturnIsAside ==
  ASSUME CampaignsFit, ReturnToCampaigns \/ \E call \in campaignCalls : TemplatesArrive(call)
  PROVE  AsideStep /\ UNCHANGED campaignDb
<1>1. IsPage(wizard) /\ wizard.acts \in 0..MaxActs /\ (\A c \in campaignCalls : CallFits(c))
  BY DEF CampaignsFit, IsPage
<1>2. UNCHANGED campaignDb /\ IsServer(campaignDb')
  <2>1. UNCHANGED campaignDb
    BY Zenon DEF ReturnToCampaigns, TemplatesArrive
  <2>2. QED
    BY <2>1, Zenon DEF CampaignsFit
<1>3. CASE ReturnToCampaigns
  <2> DEFINE acts == wizard.acts + 1
             kept == {c \in campaignCalls : c.op \notin {"startRow", "cancel"} \/ c.answer = Waiting}
  <2>1. wizard' = PageOpened(acts) /\ campaignCalls' = Send(kept, "list", [why |-> "open"]) /\ ~wizard.mounted
    BY <1>3 DEF ReturnToCampaigns
  <2>2. acts \in 0..MaxActs /\ acts >= wizard.acts
    <3>1. wizard.acts < MaxActs
      BY <1>3 DEF ReturnToCampaigns
    <3>2. QED
      BY <1>1, <3>1, PanelCallsAssumption
  <2> HIDE DEF acts
  <2>3. /\ IsPage(wizard') /\ wizard'.step = 0 /\ wizard'.acts = acts
    BY <2>1, <2>2, OpenedFits DEF PageOpened
  <2>4. QuietPage(wizard, wizard')
    <3>1. ~(wizard'.step > 0)
      BY <2>3
    <3>2. QED
      BY <2>1, <2>2, <2>3, <3>1, Zenon DEF QuietPage
  <2>5. Aside(campaignCalls, kept)
    BY <1>1 DEF Aside, ChainsIn, ChainOps
  <2> HIDE DEF kept
  <2>6. Aside(kept, campaignCalls')
    <3>1. "list" \notin ChainOps /\ (\A c \in kept : CallFits(c))
      BY <2>5 DEF ChainOps, Aside
    <3>2. QED
      BY <2>1, <3>1, OtherSent
  <2>7. QED
    BY <1>2, <2>4, <2>5, <2>6, Zenon DEF AsideStep, Aside
<1>4. ASSUME NEW call \in campaignCalls, TemplatesArrive(call)
      PROVE  AsideStep
  <2> DEFINE templates == IF call.answer = Failed THEN None ELSE call.about.channel
  <2>1. call.op = "templates" /\ call.op \notin ChainOps /\ campaignCalls' = campaignCalls \ {call}
    BY <1>4 DEF TemplatesArrive, Done, ChainOps
  <2>2. wizard' = [wizard EXCEPT !.templates = templates]
    BY <1>4 DEF TemplatesArrive
  <2>3. templates \in OfficialChannels \cup {None}
    <3>1. CallFits(call)
      BY <1>1
    <3>2. QED
      BY <2>1, <3>1 DEF CallFits
  <2> HIDE DEF templates
  <2>4. /\ IsPage(wizard') /\ wizard'.acts = wizard.acts /\ wizard'.mounted = wizard.mounted
        /\ wizard'.submitting = wizard.submitting /\ wizard'.form = wizard.form /\ wizard'.step = wizard.step
    BY <1>1, <2>2, <2>3 DEF IsPage
  <2>5. Aside(campaignCalls, campaignCalls')
    BY <1>1, <2>1, OtherGone
  <2>6. QED
    BY <1>1, <1>2, <2>4, <2>5, SameIsQuiet, Zenon DEF AsideStep
<1>5. QED
  BY <1>2, <1>3, <1>4

-----------------------------------------------------------------------------
(* The wizard sends once *)

OpeningOf(c) == c.about.form.opening

(* Campaign k is the one this chain has created.                           *)
OwnRow(rows, c, k) ==
  k \in DOMAIN rows /\ rows[k].opening = OpeningOf(c) /\ rows[k].audience = c.about.form.audience

HasAudience(row) == row.audience = "tag" \/ row.imported

(* A chain carries its own campaign from call to call, and asks for the    *)
(* start once the audience is there.                                       *)
Carries(rows, c) ==
  /\ c.op = "create" /\ IsDone(c) => OwnRow(rows, c, c.answer.result.row)
  /\ c.op \in {"import", "start"} => OwnRow(rows, c, c.about.row)
  /\ c.op = "import" => c.about.form.audience = "csv"
  /\ c.op = "import" /\ IsDone(c) => rows[c.about.row].imported
  /\ c.op = "start" => HasAudience(rows[c.about.row])

(* The wizard waits for the chain that is its own, and is at an opening of *)
(* its own while one it has left goes on.                                  *)
Visits(w, c) ==
  /\ OpeningOf(c) < w.acts
  /\ c.about.mine => w.mounted /\ w.submitting /\ w.step = 3 /\ w.form.opening = OpeningOf(c)
  /\ ~c.about.mine /\ w.step > 0 => w.form.opening # OpeningOf(c)

(* The server has started campaign k for this chain.                       *)
SentFor(c, k) == c.op = "start" /\ c.about.row = k /\ IsDone(c)

(* Nothing can start a second campaign of the opening that has started     *)
(* this one: a chain of the opening only waits for its last answer, and a  *)
(* wizard still at the opening waits with it.                              *)
StartedOnce(w, chains, row, k) ==
  row.by = "start" =>
    /\ HasAudience(row)
    /\ ~row.unheard =>
         /\ \A c \in chains : OpeningOf(c) = row.opening => SentFor(c, k)
         /\ w.step > 0 /\ w.form.opening = row.opening => \E c \in chains : OpeningOf(c) = row.opening

Apart(rows) ==
  \A j, k \in DOMAIN rows :
    rows[j].by = "start" /\ rows[k].by = "start" /\ rows[j].opening = rows[k].opening /\ j # k =>
      rows[j].unheard \/ rows[k].unheard

Sends(w, chains, rows) ==
  /\ w.step > 0 => w.form.opening < w.acts
  /\ \A c \in chains : Visits(w, c) /\ Carries(rows, c)
  /\ \A b, c \in chains : OpeningOf(b) = OpeningOf(c) => b = c
  /\ \A k \in DOMAIN rows : rows[k].opening < w.acts /\ StartedOnce(w, chains, rows[k], k)
  /\ Apart(rows)

(* The acts only grow.                                                     *)
LEMMA QuietSends ==
  ASSUME NEW w, IsPage(w), NEW chains, \A c \in chains : OpeningOf(c) \in Nat,
         NEW rows, \A k \in DOMAIN rows : rows[k].opening \in Nat,
         Sends(w, chains, rows), NEW v, QuietPage(w, v)
  PROVE  Sends(v, chains, rows)
<1>1. /\ w.acts \in Nat /\ v.acts \in Nat /\ v.acts >= w.acts
      /\ w.form.opening \in Nat /\ v.form.opening \in Nat
  <2>1. /\ w.acts \in 0..MaxActs /\ v.acts \in 0..MaxActs /\ v.acts >= w.acts
        /\ w.form \in AForm /\ v.form \in AForm
    BY Zenon DEF IsPage, QuietPage
  <2>2. w.form.opening \in 0..MaxActs /\ v.form.opening \in 0..MaxActs
    BY <2>1 DEF AForm
  <2>3. QED
    BY <2>1, <2>2, PanelCallsAssumption
<1>2. \A n \in Nat : n < w.acts => n < v.acts
  BY <1>1
<1>3. v.step > 0 => v.form.opening < v.acts
  <2>1. v.step > 0 => w.form.opening < w.acts /\ v.form.opening = w.form.opening
    BY Zenon DEF QuietPage, Sends
  <2>2. QED
    BY <1>1, <1>2, <2>1, Zenon
<1>4. ASSUME NEW c \in chains
      PROVE  Visits(v, c)
  <2>1. Visits(w, c) /\ OpeningOf(c) \in Nat
    BY Zenon DEF Sends
  <2>2. OpeningOf(c) < v.acts
    BY <1>2, <2>1, Zenon DEF Visits
  <2>3. c.about.mine => v.mounted /\ v.submitting /\ v.step = 3 /\ v.form.opening = OpeningOf(c)
    <3>1. v.step = 3 => v.step > 0
      OBVIOUS
    <3>2. QED
      BY <2>1, <3>1, Zenon DEF Visits, QuietPage
  <2>4. ~c.about.mine /\ v.step > 0 => v.form.opening # OpeningOf(c)
    BY <2>1, Zenon DEF Visits, QuietPage
  <2>5. QED
    BY <2>2, <2>3, <2>4, Zenon DEF Visits
<1>5. \A k \in DOMAIN rows : rows[k].opening < v.acts /\ StartedOnce(v, chains, rows[k], k)
  BY <1>2, Zenon DEF QuietPage, Sends, StartedOnce
<1>6. QED
  BY <1>3, <1>4, <1>5, Zenon DEF Sends

(* Campaigns keep what a chain knows of them.                              *)
LEMMA RowsKeepCarried ==
  ASSUME NEW rows, NEW next,
         \A k \in DOMAIN rows :
           /\ k \in DOMAIN next /\ next[k].opening = rows[k].opening /\ next[k].audience = rows[k].audience
           /\ rows[k].imported => next[k].imported,
         NEW c, Carries(rows, c)
  PROVE  Carries(next, c)
<1>1. \A k : OwnRow(rows, c, k) =>
        /\ OwnRow(next, c, k)
        /\ rows[k].imported => next[k].imported
        /\ HasAudience(rows[k]) => HasAudience(next[k])
  BY Zenon DEF OwnRow, HasAudience
<1>2. c.op = "create" => c.op # "import" /\ c.op # "start"
  OBVIOUS
<1>3. c.op \in {"import", "start"} <=> c.op = "import" \/ c.op = "start"
  OBVIOUS
<1>4. QED
  BY <1>1, <1>2, <1>3, Zenon DEF Carries

(* A campaign that is started from its row, completed or cancelled.        *)
LEMMA RowsMoveSends ==
  ASSUME NEW w, NEW chains, NEW rows, Sends(w, chains, rows), NEW next, DOMAIN next = DOMAIN rows,
         \A k \in DOMAIN rows :
           /\ next[k].opening = rows[k].opening /\ next[k].audience = rows[k].audience
           /\ next[k].imported = rows[k].imported /\ next[k].unheard = rows[k].unheard
           /\ next[k].by = "start" => rows[k].by = "start"
  PROVE  Sends(w, chains, next)
<1>1. \A c \in chains : Carries(next, c)
  BY RowsKeepCarried DEF Sends
<1>2. ASSUME NEW k \in DOMAIN next
      PROVE  next[k].opening < w.acts /\ StartedOnce(w, chains, next[k], k)
  <2>1. rows[k].opening < w.acts /\ StartedOnce(w, chains, rows[k], k)
    BY Zenon DEF Sends
  <2>2. /\ next[k].opening = rows[k].opening /\ next[k].unheard = rows[k].unheard
        /\ next[k].by = "start" => rows[k].by = "start"
        /\ HasAudience(rows[k]) => HasAudience(next[k])
    BY Zenon DEF HasAudience
  <2>3. QED
    BY <2>1, <2>2, Zenon DEF StartedOnce
<1>3. Apart(next)
  BY Zenon DEF Sends, Apart
<1>4. QED
  BY <1>1, <1>2, <1>3, Zenon DEF Sends

(* One chain goes a step on, or the server does it for it.  A campaign     *)
(* that has started before is of another opening; one that starts now is   *)
(* the chain's own, whose start was not answered yet.                      *)
LEMMA ChainMoveSends ==
  ASSUME NEW w, NEW chains, NEW rows, Sends(w, chains, rows), NEW call \in chains,
         NEW new, new.about.form = call.about.form, new.about.mine = call.about.mine,
         NEW next, Carries(next, new), \A k \in DOMAIN next : next[k].opening < w.acts,
         \A k \in DOMAIN rows :
           /\ k \in DOMAIN next /\ next[k].opening = rows[k].opening /\ next[k].audience = rows[k].audience
           /\ rows[k].imported => next[k].imported
           /\ rows[k].unheard => next[k].unheard,
         \A k \in DOMAIN next : next[k].by = "start" =>
           /\ k \in DOMAIN rows
           /\ \/ rows[k].by = "start" /\ (SentFor(call, k) => next[k].unheard)
              \/ ~IsDone(call) /\ HasAudience(rows[k]) /\ SentFor(new, k) /\ rows[k].opening = OpeningOf(call)
  PROVE  Sends(w, (chains \ {call}) \cup {new}, next)
<1> DEFINE left == chains \ {call}
           after == left \cup {new}
<1>1. OpeningOf(new) = OpeningOf(call)
  BY DEF OpeningOf
<1>2. \A c \in after : Visits(w, c)
  <2>1. Visits(w, new)
    BY <1>1, Zenon DEF Sends, Visits
  <2>2. QED
    BY <2>1 DEF Sends
<1>3. \A c \in after : Carries(next, c)
  <2>1. \A c \in chains : Carries(next, c)
    BY RowsKeepCarried DEF Sends
  <2>2. QED
    BY <2>1
<1>4. \A b, c \in after : OpeningOf(b) = OpeningOf(c) => b = c
  <2>1. \A c \in left : OpeningOf(c) # OpeningOf(new)
    BY <1>1 DEF Sends
  <2>2. QED
    BY <2>1 DEF Sends
<1>5. \A k \in DOMAIN next : next[k].by = "start" /\ ~next[k].unheard =>
        \/ /\ rows[k].by = "start" /\ ~rows[k].unheard /\ OpeningOf(call) # next[k].opening
        \/ ~IsDone(call) /\ SentFor(new, k) /\ next[k].opening = OpeningOf(call)
  BY Zenon DEF Sends, StartedOnce
<1>6. ASSUME NEW k \in DOMAIN next
      PROVE  StartedOnce(w, after, next[k], k)
  <2> SUFFICES ASSUME next[k].by = "start"
               PROVE  StartedOnce(w, after, next[k], k)
    BY Zenon DEF StartedOnce
  <2>1. k \in DOMAIN rows /\ next[k].opening = rows[k].opening
    BY Zenon
  <2>2. HasAudience(next[k])
    BY <2>1, Zenon DEF Sends, StartedOnce, HasAudience
  <2>3. CASE next[k].unheard
    BY <2>2, <2>3, Zenon DEF StartedOnce
  <2>4. CASE /\ rows[k].by = "start" /\ ~rows[k].unheard /\ OpeningOf(call) # next[k].opening
    <3>1. /\ \A c \in chains : OpeningOf(c) = next[k].opening => SentFor(c, k)
          /\ w.step > 0 /\ w.form.opening = next[k].opening => \E c \in chains : OpeningOf(c) = next[k].opening
      <4>1. StartedOnce(w, chains, rows[k], k)
        BY <2>1, Zenon DEF Sends
      <4>2. QED
        BY <2>1, <2>4, <4>1, Zenon DEF StartedOnce
    <3>2. /\ \A c \in after : OpeningOf(c) = next[k].opening => c \in chains
          /\ \A c \in chains : OpeningOf(c) = next[k].opening => c \in after
      BY <1>1, <2>4
    <3>3. QED
      BY <2>2, <3>1, <3>2, Zenon DEF StartedOnce
  <2>5. CASE ~IsDone(call) /\ SentFor(new, k) /\ next[k].opening = OpeningOf(call)
    <3>1. new \in after /\ OpeningOf(new) = next[k].opening
      BY <1>1, <2>5
    <3>2. \A c \in after : OpeningOf(c) = next[k].opening => c = new
      BY <1>4, <3>1, Zenon
    <3>3. QED
      BY <2>2, <2>5, <3>1, <3>2, Zenon DEF StartedOnce
  <2>6. QED
    BY <1>5, <2>3, <2>4, <2>5, Zenon
<1>7. Apart(next)
  <2>1. \A j, k : SentFor(new, j) /\ SentFor(new, k) => j = k
    BY Zenon DEF SentFor
  <2>2. \A j, k \in DOMAIN rows : rows[j].by = "start" /\ rows[k].by = "start"
          /\ rows[j].opening = rows[k].opening /\ j # k => rows[j].unheard \/ rows[k].unheard
    BY Zenon DEF Sends, Apart
  <2>3. \A k \in DOMAIN next : next[k].by = "start" => k \in DOMAIN rows /\ next[k].opening = rows[k].opening
    BY Zenon
  <2> SUFFICES ASSUME NEW j \in DOMAIN next, NEW k \in DOMAIN next,
                      next[j].by = "start", next[k].by = "start", next[j].opening = next[k].opening, j # k,
                      ~next[j].unheard, ~next[k].unheard
               PROVE  FALSE
    BY Zenon DEF Apart
  <2>4. \/ rows[j].by = "start" /\ ~rows[j].unheard /\ OpeningOf(call) # next[j].opening
        \/ SentFor(new, j) /\ next[j].opening = OpeningOf(call)
    BY <1>5, Zenon
  <2>5. \/ rows[k].by = "start" /\ ~rows[k].unheard /\ OpeningOf(call) # next[k].opening
        \/ SentFor(new, k) /\ next[k].opening = OpeningOf(call)
    BY <1>5, Zenon
  <2>6. /\ j \in DOMAIN rows /\ next[j].opening = rows[j].opening
        /\ k \in DOMAIN rows /\ next[k].opening = rows[k].opening
    BY <2>3, Zenon
  <2>7. QED
    BY <2>1, <2>2, <2>4, <2>5, <2>6, Zenon
<1>8. QED
  BY <1>2, <1>3, <1>4, <1>6, <1>7, Zenon DEF Sends

(* A chain ends: the wizard it is of closes, or, after a failure, stays    *)
(* open for another attempt.                                               *)
LEMMA ChainEndSends ==
  ASSUME NEW w, NEW chains, NEW rows, Sends(w, chains, rows), NEW call \in chains,
         NEW v, v.acts = w.acts, v.form = w.form,
         \/ ~call.about.mine /\ v = w
         \/ call.about.mine /\ (v.step = 0 \/ (v.step = w.step /\ ~IsDone(call)))
  PROVE  Sends(v, chains \ {call}, rows)
<1> DEFINE left == chains \ {call}
<1>1. v.step > 0 => w.step > 0 /\ (call.about.mine => ~IsDone(call))
  <2>1. ~(0 > 0)
    OBVIOUS
  <2>2. QED
    BY <2>1, Zenon
<1>2. ASSUME NEW c \in left
      PROVE  Visits(v, c) /\ Carries(rows, c)
  <2>1. c \in chains /\ c # call /\ Visits(w, c) /\ Carries(rows, c) /\ Visits(w, call)
    BY DEF Sends
  <2>2. CASE ~call.about.mine /\ v = w
    BY <2>1, <2>2, Zenon
  <2>3. CASE call.about.mine
    <3>1. ~c.about.mine
      BY <2>1, <2>3, Zenon DEF Visits, Sends
    <3>2. OpeningOf(c) < v.acts
      BY <2>1, Zenon DEF Visits
    <3>3. v.step > 0 => w.form.opening # OpeningOf(c)
      BY <1>1, <2>1, <3>1, Zenon DEF Visits
    <3>4. v.step > 0 => v.form.opening # OpeningOf(c)
      BY <3>3, Zenon
    <3>5. QED
      BY <2>1, <3>1, <3>2, <3>4, Zenon DEF Visits
  <2>4. QED
    BY <2>2, <2>3, Zenon
<1>3. ASSUME NEW k \in DOMAIN rows
      PROVE  rows[k].opening < v.acts /\ StartedOnce(v, left, rows[k], k)
  <2>1. /\ rows[k].opening < w.acts /\ StartedOnce(w, chains, rows[k], k)
        /\ Visits(w, call)
    BY Zenon DEF Sends
  <2>2. ASSUME rows[k].by = "start", ~rows[k].unheard, v.step > 0, v.form.opening = rows[k].opening
        PROVE  \E c \in left : OpeningOf(c) = rows[k].opening
    <3>1. w.step > 0 /\ w.form.opening = rows[k].opening
      BY <1>1, <2>2, Zenon
    <3>2. PICK c \in chains : OpeningOf(c) = rows[k].opening
      BY <2>1, <2>2, <3>1, Zenon DEF StartedOnce
    <3>3. OpeningOf(call) # rows[k].opening
      <4>1. CASE call.about.mine
        <5>1. ~SentFor(call, k)
          BY <1>1, <2>2, <4>1, Zenon DEF SentFor
        <5>2. QED
          BY <2>1, <2>2, <5>1, Zenon DEF StartedOnce
      <4>2. CASE ~call.about.mine
        BY <2>1, <3>1, <4>2, Zenon DEF Visits
      <4>3. QED
        BY <4>1, <4>2
    <3>4. c # call
      BY <3>2, <3>3, Zenon
    <3>5. c \in left
      BY <3>4
    <3>6. QED
      BY <3>2, <3>5, Zenon
  <2>3. \A c \in left : c \in chains
    OBVIOUS
  <2> HIDE DEF left
  <2>4. QED
    BY <2>1, <2>2, <2>3, Zenon DEF StartedOnce
<1>4. v.step > 0 => v.form.opening < v.acts
  BY <1>1, Zenon DEF Sends
<1>5. \A b, c \in left : OpeningOf(b) = OpeningOf(c) => b = c
  BY DEF Sends
<1>6. QED
  BY <1>2, <1>3, <1>4, <1>5, Zenon DEF Sends

(* Call c of a chain is what becomes of call d when the page is left.      *)
LeftOf(c, d) ==
  /\ c.op = d.op /\ c.answer = d.answer
  /\ c.about.form = d.about.form /\ c.about.row = d.about.row /\ ~c.about.mine

(* The operator leaves the page: its chains go on for nobody.              *)
LEMMA LeaveSends ==
  ASSUME NEW w, NEW chains, NEW rows, Sends(w, chains, rows),
         NEW v, v.acts = w.acts, v.step = 0,
         NEW left, \A c \in left : \E d \in chains : LeftOf(c, d),
         \A d \in chains : \A b, c \in left : LeftOf(b, d) /\ LeftOf(c, d) => b = c
  PROVE  Sends(v, left, rows)
<1>1. ~(v.step > 0)
  OBVIOUS
<1>2. \A c, d : LeftOf(c, d) =>
        /\ OpeningOf(c) = OpeningOf(d)
        /\ Visits(w, d) => Visits(v, c)
        /\ Carries(rows, d) => Carries(rows, c)
        /\ \A k : SentFor(d, k) => SentFor(c, k)
  <2> SUFFICES ASSUME NEW c, NEW d, LeftOf(c, d)
               PROVE  /\ OpeningOf(c) = OpeningOf(d)
                      /\ Visits(w, d) => Visits(v, c)
                      /\ Carries(rows, d) => Carries(rows, c)
                      /\ \A k : SentFor(d, k) => SentFor(c, k)
    OBVIOUS
  <2>1. /\ c.op = d.op /\ c.answer = d.answer
        /\ c.about.form = d.about.form /\ c.about.row = d.about.row /\ ~c.about.mine
    BY Zenon DEF LeftOf
  <2>2. OpeningOf(c) = OpeningOf(d)
    BY <2>1, Zenon DEF OpeningOf
  <2>3. IsDone(c) <=> IsDone(d)
    BY <2>1, Zenon DEF IsDone
  <2>4. \A k : OwnRow(rows, d, k) => OwnRow(rows, c, k)
    BY <2>1, <2>2, Zenon DEF OwnRow
  <2>5. \A k : SentFor(d, k) => SentFor(c, k)
    BY <2>1, <2>3, Zenon DEF SentFor
  <2>6. Visits(w, d) => Visits(v, c)
    BY <1>1, <2>1, <2>2, Zenon DEF Visits
  <2>7. Carries(rows, d) => Carries(rows, c)
    BY <2>1, <2>3, <2>4, Zenon DEF Carries
  <2>8. QED
    BY <2>2, <2>5, <2>6, <2>7
<1>3. \A c \in left : Visits(v, c) /\ Carries(rows, c)
  BY <1>2, Zenon DEF Sends
<1>4. ASSUME NEW b \in left, NEW c \in left, OpeningOf(b) = OpeningOf(c)
      PROVE  b = c
  <2>1. PICK d \in chains : LeftOf(b, d)
    BY Zenon
  <2>2. PICK e \in chains : LeftOf(c, e)
    BY Zenon
  <2>3. d = e
    BY <1>2, <1>4, <2>1, <2>2, Zenon DEF Sends
  <2>4. QED
    BY <2>1, <2>2, <2>3, Zenon
<1>5. ASSUME NEW k \in DOMAIN rows
      PROVE  rows[k].opening < v.acts /\ StartedOnce(v, left, rows[k], k)
  <2>1. rows[k].opening < w.acts /\ StartedOnce(w, chains, rows[k], k)
    BY Zenon DEF Sends
  <2>2. QED
    BY <1>1, <1>2, <2>1, Zenon DEF StartedOnce
<1>6. QED
  BY <1>1, <1>3, <1>4, <1>5, Zenon DEF Sends

(* The wizard submits: no chain of its opening is under way, and none has  *)
(* started a campaign unless the answer was lost.                          *)
LEMMA CreateSends ==
  ASSUME NEW w, IsPage(w), NEW chains, \A c \in chains : OpeningOf(c) \in Nat,
         NEW rows, \A k \in DOMAIN rows : rows[k].opening \in Nat,
         Sends(w, chains, rows), w.step = 3, ~w.submitting, w.mounted,
         NEW v, v.acts = w.acts + 1, v.step = 3, v.mounted, v.submitting, v.form = w.form,
         NEW new, new.op = "create", ~IsDone(new), new.about.form = w.form, new.about.mine
  PROVE  Sends(v, chains \cup {new}, rows)
<1> DEFINE after == chains \cup {new}
<1>1. w.acts \in Nat /\ w.step > 0 /\ v.step > 0 /\ OpeningOf(new) = w.form.opening
  <2>1. w.acts \in 0..MaxActs
    BY Zenon DEF IsPage
  <2>2. QED
    BY <2>1, PanelCallsAssumption DEF OpeningOf
<1>2. /\ w.form.opening \in Nat
      /\ \A n \in Nat : n < w.acts => n < v.acts
  <2>1. w.form \in AForm
    BY DEF IsPage
  <2>2. w.form.opening \in 0..MaxActs
    BY <2>1 DEF AForm
  <2>3. QED
    BY <1>1, <2>2, PanelCallsAssumption
<1>3. w.form.opening < w.acts
  BY <1>1, Zenon DEF Sends
<1>4. \A c \in chains : ~c.about.mine /\ OpeningOf(c) # w.form.opening
  BY <1>1, Zenon DEF Sends, Visits
<1>5. ASSUME NEW c \in after
      PROVE  Visits(v, c) /\ Carries(rows, c)
  <2>1. CASE c \in chains
    <3>1. Visits(w, c) /\ Carries(rows, c)
      BY <2>1, Zenon DEF Sends
    <3>2. OpeningOf(c) < v.acts
      BY <1>2, <2>1, <3>1, Zenon DEF Visits
    <3>3. QED
      BY <1>4, <2>1, <3>1, <3>2, Zenon DEF Visits
  <2>2. CASE c = new
    <3>1. OpeningOf(c) < v.acts
      BY <1>1, <1>2, <1>3, <2>2, Zenon
    <3>2. Visits(v, c)
      BY <1>1, <2>2, <3>1, Zenon DEF Visits
    <3>3. Carries(rows, c)
      BY <2>2 DEF Carries
    <3>4. QED
      BY <3>2, <3>3
  <2>3. QED
    BY <2>1, <2>2
<1>6. \A b, c \in after : OpeningOf(b) = OpeningOf(c) => b = c
  <2>1. \A c \in chains : OpeningOf(c) # OpeningOf(new)
    BY <1>1, <1>4, Zenon
  <2>2. QED
    BY <2>1 DEF Sends
<1>7. ASSUME NEW k \in DOMAIN rows
      PROVE  rows[k].opening < v.acts /\ StartedOnce(v, after, rows[k], k)
  <2>1. rows[k].opening < w.acts /\ StartedOnce(w, chains, rows[k], k) /\ rows[k].opening \in Nat
    BY Zenon DEF Sends
  <2>2. rows[k].by = "start" /\ ~rows[k].unheard => rows[k].opening # w.form.opening
    BY <1>1, <1>4, <2>1, Zenon DEF StartedOnce
  <2>3. \A c \in after : OpeningOf(c) = rows[k].opening => c \in chains \/ rows[k].opening = w.form.opening
    BY <1>1
  <2> HIDE DEF after
  <2>4. QED
    BY <1>2, <2>1, <2>2, <2>3, Zenon DEF StartedOnce
<1>8. v.step > 0 => v.form.opening < v.acts
  BY <1>2, <1>3, Zenon
<1>9. QED
  BY <1>5, <1>6, <1>7, <1>8, Zenon DEF Sends

(* The wizard opens: no chain and no campaign is of this opening yet.      *)
LEMMA OpenSends ==
  ASSUME NEW w, IsPage(w), NEW chains, \A c \in chains : OpeningOf(c) \in Nat,
         NEW rows, \A k \in DOMAIN rows : rows[k].opening \in Nat,
         Sends(w, chains, rows), w.step = 0,
         NEW v, v.acts = w.acts + 1, v.form.opening = w.acts
  PROVE  Sends(v, chains, rows)
<1>1. w.acts \in Nat
  <2>1. w.acts \in 0..MaxActs
    BY Zenon DEF IsPage
  <2>2. QED
    BY <2>1, PanelCallsAssumption
<1>2. /\ \A n \in Nat : n < w.acts => n < v.acts /\ n # w.acts
      /\ w.acts < v.acts
  BY <1>1
<1>3. w.step # 3
  OBVIOUS
<1>4. ASSUME NEW c \in chains
      PROVE  Visits(v, c)
  <2>1. Visits(w, c)
    BY Zenon DEF Sends
  <2>2. OpeningOf(c) < v.acts /\ OpeningOf(c) # w.acts
    BY <1>2, <2>1, Zenon DEF Visits
  <2>3. QED
    BY <1>3, <2>1, <2>2, Zenon DEF Visits
<1>5. ASSUME NEW k \in DOMAIN rows
      PROVE  rows[k].opening < v.acts /\ StartedOnce(v, chains, rows[k], k)
  <2>1. rows[k].opening < w.acts /\ StartedOnce(w, chains, rows[k], k)
    BY Zenon DEF Sends
  <2>2. rows[k].opening < v.acts /\ rows[k].opening # w.acts
    BY <1>2, <2>1, Zenon
  <2>3. QED
    BY <2>1, <2>2, Zenon DEF StartedOnce
<1>6. v.form.opening < v.acts
  BY <1>2
<1>7. QED
  BY <1>4, <1>5, <1>6, Zenon DEF Sends

-----------------------------------------------------------------------------
(* The calls of the chains *)

LEMMA ChainsOfSend ==
  ASSUME NEW calls, NEW op \in ChainOps, NEW about
  PROVE  \E new : /\ new.op = op /\ new.about = about /\ new.answer = Waiting
                  /\ ChainsIn(Send(calls, op, about)) = ChainsIn(calls) \cup {new}
<1> DEFINE new == [slot |-> FreeSlot(calls), op |-> op, about |-> about, answer |-> Waiting]
<1>1. new.op = op /\ new.about = about /\ new.answer = Waiting
  OBVIOUS
<1>2. Send(calls, op, about) = calls \cup {new}
  BY Zenon DEF Send
<1> HIDE DEF new
<1>3. ChainsIn(calls \cup {new}) = ChainsIn(calls) \cup {new}
  BY <1>1 DEF ChainsIn
<1>4. QED
  BY <1>1, <1>2, <1>3, Zenon

LEMMA ChainsOfChain ==
  ASSUME NEW calls, NEW call, NEW op \in ChainOps, NEW about
  PROVE  \E new : /\ new.op = op /\ new.about = about /\ new.answer = Waiting
                  /\ ChainsIn(Chain(calls, call, op, about)) = (ChainsIn(calls) \ {call}) \cup {new}
<1>1. ChainsIn(calls \ {call}) = ChainsIn(calls) \ {call}
  BY DEF ChainsIn
<1>2. \E new : /\ new.op = op /\ new.about = about /\ new.answer = Waiting
               /\ ChainsIn(Send(calls \ {call}, op, about)) = ChainsIn(calls \ {call}) \cup {new}
  BY ChainsOfSend
<1>3. QED
  BY <1>1, <1>2, Zenon DEF Chain

LEMMA ChainsOfAnswered ==
  ASSUME NEW calls, NEW call \in calls, IsCall(call), call.op \in ChainOps, NEW answer
  PROVE  \E new : /\ new.op = call.op /\ new.about = call.about /\ new.answer = answer
                  /\ ChainsIn(Answered(calls, call, answer)) = (ChainsIn(calls) \ {call}) \cup {new}
<1> DEFINE new == [slot |-> call.slot, op |-> call.op, about |-> call.about, answer |-> answer]
<1>1. new.op = call.op /\ new.about = call.about /\ new.answer = answer
  OBVIOUS
<1>2. Answered(calls, call, answer) = (calls \ {call}) \cup {new}
  BY AnswerKeepsCall, Zenon DEF Answered
<1> HIDE DEF new
<1>3. ChainsIn((calls \ {call}) \cup {new}) = (ChainsIn(calls) \ {call}) \cup {new}
  BY <1>1 DEF ChainsIn
<1>4. QED
  BY <1>1, <1>2, <1>3, Zenon

(* The wizard's own invariant.                                             *)
WizardInv ==
  /\ CampaignsFit
  /\ Sends(wizard, ChainsIn(campaignCalls), Rows)

LEMMA OpeningsAreNumbers ==
  ASSUME CampaignsFit
  PROVE  /\ \A c \in ChainsIn(campaignCalls) : c \in campaignCalls /\ c.about.form \in AForm /\ OpeningOf(c) \in Nat
         /\ Rows \in Seq(ARow)
         /\ \A k \in DOMAIN Rows : Rows[k] \in ARow /\ Rows[k].opening \in Nat
<1>1. 0..MaxActs \subseteq Nat
  BY PanelCallsAssumption
<1>2. \A form \in AForm : form.opening \in 0..MaxActs
  BY DEF AForm
<1>3. ASSUME NEW c \in ChainsIn(campaignCalls)
      PROVE  c \in campaignCalls /\ c.about.form \in AForm /\ OpeningOf(c) \in Nat
  <2>1. c \in campaignCalls /\ c.op \in ChainOps /\ CallFits(c)
    BY <1>3 DEF ChainsIn, CampaignsFit
  <2>2. c.about \in [form : AForm, row : Nat, mine : BOOLEAN]
    BY <2>1 DEF CallFits
  <2>3. c.about.form \in AForm
    BY <2>2
  <2>4. QED
    BY <1>1, <1>2, <2>1, <2>3 DEF OpeningOf
<1>4. Rows \in Seq(ARow)
  BY DEF CampaignsFit, IsServer, Rows
<1>5. \A row \in ARow : row.opening \in 0..MaxActs
  BY DEF ARow
<1>6. \A k \in DOMAIN Rows : Rows[k] \in ARow
  BY <1>4
<1>7. QED
  BY <1>1, <1>3, <1>4, <1>5, <1>6

LEMMA AsideKeepsInv ==
  ASSUME WizardInv, AsideStep, UNCHANGED campaignDb
  PROVE  WizardInv'
<1>1. CampaignsFit'
  BY Zenon DEF AsideStep, QuietPage, Aside, CampaignsFit
<1>2. Rows' = Rows /\ ChainsIn(campaignCalls') = ChainsIn(campaignCalls)
  BY Zenon DEF AsideStep, Aside, Rows
<1>3. Sends(wizard', ChainsIn(campaignCalls), Rows)
  BY OpeningsAreNumbers, QuietSends, Zenon DEF WizardInv, AsideStep, CampaignsFit
<1>4. QED
  BY <1>1, <1>2, <1>3, Zenon DEF WizardInv

LEMMA OpenKeepsInv ==
  ASSUME WizardInv, OpenWizard
  PROVE  WizardInv'
<1>1. IsPage(wizard) /\ wizard.acts \in 0..MaxActs /\ (\A c \in campaignCalls : CallFits(c)) /\ IsServer(campaignDb)
  BY DEF WizardInv, CampaignsFit, IsPage
<1> DEFINE form == EmptyWizard(wizard.acts)
           step == 1
           templates == None
           error == ""
           page == [wizard EXCEPT !.step = step, !.form = form, !.templates = templates, !.error = error]
<1>2. /\ wizard' = CampaignAct(page) /\ wizard.acts < MaxActs /\ wizard.step = 0 /\ UNCHANGED campaignDb
      /\ campaignCalls' = Send(campaignCalls, "channels", [why |-> "open"])
  BY Zenon DEF OpenWizard, ActsOnCampaigns
<1>3. form \in AForm /\ form.opening = wizard.acts
  BY <1>1 DEF EmptyWizard, AForm
<1>4. step \in 0..3 /\ templates \in OfficialChannels \cup {None} /\ error \in {"", "create", "draft"}
  OBVIOUS
<1>5. IsPage(page) /\ page.acts = wizard.acts /\ page.form = form
  <2> HIDE DEF form, step, templates, error
  <2>1. QED
    BY <1>1, <1>3, <1>4 DEF IsPage
<1> HIDE DEF page
<1>6. IsPage(wizard') /\ wizard'.acts = wizard.acts + 1 /\ wizard'.form.opening = wizard.acts
  BY <1>2, <1>3, <1>5, ActFits
<1>7. Aside(campaignCalls, campaignCalls')
  <2>1. "channels" \notin ChainOps
    BY DEF ChainOps
  <2>2. QED
    BY <1>1, <1>2, <2>1, OtherSent
<1>8. CampaignsFit'
  BY <1>1, <1>2, <1>6, <1>7, Zenon DEF CampaignsFit, Aside
<1>9. Sends(wizard', ChainsIn(campaignCalls), Rows)
  BY <1>1, <1>2, <1>6, OpeningsAreNumbers, OpenSends, Zenon DEF WizardInv
<1>10. Rows' = Rows /\ ChainsIn(campaignCalls') = ChainsIn(campaignCalls)
  BY <1>2, <1>7, Zenon DEF Aside, Rows
<1>11. QED
  BY <1>8, <1>9, <1>10, Zenon DEF WizardInv

LEMMA CreateKeepsInv ==
  ASSUME WizardInv, HandleCreate
  PROVE  WizardInv'
<1>1. /\ IsPage(wizard) /\ (\A c \in campaignCalls : CallFits(c)) /\ IsServer(campaignDb)
      /\ wizard.form \in AForm
  BY DEF WizardInv, CampaignsFit, IsPage
<1> DEFINE submitting == TRUE
           error == ""
           page == [wizard EXCEPT !.submitting = submitting, !.error = error]
           about == [form |-> wizard.form, row |-> 0, mine |-> TRUE]
<1>2. /\ wizard' = CampaignAct(page) /\ wizard.acts < MaxActs /\ UNCHANGED campaignDb
      /\ wizard.step = 3 /\ ~wizard.submitting /\ wizard.mounted
      /\ campaignCalls' = Send(campaignCalls, "create", about)
  BY Zenon DEF HandleCreate, ActsOnCampaigns
<1>3. submitting /\ submitting \in BOOLEAN /\ error \in {"", "create", "draft"}
  OBVIOUS
<1>4. /\ IsPage(page) /\ page.acts = wizard.acts /\ page.form = wizard.form /\ page.step = wizard.step
      /\ page.mounted = wizard.mounted /\ page.submitting = submitting
  <2> HIDE DEF submitting, error
  <2>1. QED
    BY <1>1, <1>3 DEF IsPage
<1> HIDE DEF page
<1>5. /\ IsPage(wizard') /\ wizard'.acts = wizard.acts + 1 /\ wizard'.form = wizard.form
      /\ wizard'.step = 3 /\ wizard'.mounted = wizard.mounted /\ wizard'.submitting = submitting
  BY <1>2, <1>4, ActFits
<1>6. about.form = wizard.form /\ about.mine /\ about \in [form : AForm, row : Nat, mine : BOOLEAN]
  BY <1>1
<1> HIDE DEF about, submitting, error
<1>7. PICK new : /\ new.op = "create" /\ new.about = about /\ new.answer = Waiting
                 /\ ChainsIn(campaignCalls') = ChainsIn(campaignCalls) \cup {new}
  <2>1. "create" \in ChainOps
    BY DEF ChainOps
  <2>2. \E new : /\ new.op = "create" /\ new.about = about /\ new.answer = Waiting
                 /\ ChainsIn(Send(campaignCalls, "create", about)) = ChainsIn(campaignCalls) \cup {new}
    BY <2>1, ChainsOfSend
  <2>3. QED
    BY <1>2, <2>2, Zenon
<1>8. \A c \in campaignCalls' : CallFits(c)
  BY <1>1, <1>2, <1>6, SendFits
<1>9. CampaignsFit'
  BY <1>1, <1>2, <1>5, <1>8, Zenon DEF CampaignsFit
<1>10. Sends(wizard', ChainsIn(campaignCalls'), Rows)
  <2>1. ~IsDone(new) /\ new.about.form = wizard.form /\ new.about.mine
    BY <1>6, <1>7, Zenon DEF IsDone
  <2>2. wizard'.mounted /\ wizard'.submitting
    BY <1>2, <1>3, <1>5, Zenon
  <2>3. /\ \A c \in ChainsIn(campaignCalls) : OpeningOf(c) \in Nat
        /\ \A k \in DOMAIN Rows : Rows[k].opening \in Nat
        /\ Sends(wizard, ChainsIn(campaignCalls), Rows)
    BY OpeningsAreNumbers DEF WizardInv
  <2>4. Sends(wizard', ChainsIn(campaignCalls) \cup {new}, Rows)
    BY <1>1, <1>2, <1>5, <1>7, <2>1, <2>2, <2>3, CreateSends
  <2>5. QED
    BY <1>7, <2>4, Zenon
<1>11. Rows' = Rows
  BY <1>2, Zenon DEF Rows
<1>12. QED
  BY <1>9, <1>10, <1>11, Zenon DEF WizardInv

LEMMA NoStep == 0 \in 0..3
  OBVIOUS

LEMMA EndKeepsInv ==
  ASSUME WizardInv, NEW call \in ChainsIn(campaignCalls), NEW error \in {"", "create", "draft"},
         error = "" \/ ~IsDone(call), ChainEnds(call, error), UNCHANGED campaignDb
  PROVE  WizardInv'
<1>1. /\ IsPage(wizard) /\ (\A c \in campaignCalls : CallFits(c)) /\ IsServer(campaignDb)
      /\ Sends(wizard, ChainsIn(campaignCalls), Rows) /\ Rows' = Rows /\ campaignDb' = campaignDb
  BY Zenon DEF WizardInv, CampaignsFit, Rows
<1>2. call \in campaignCalls /\ call.op \in ChainOps
  BY DEF ChainsIn
<1>3. ChainsIn(campaignCalls \ {call}) = ChainsIn(campaignCalls) \ {call}
  BY DEF ChainsIn
<1>4. CASE ~call.about.mine
  <2>1. wizard' = wizard /\ campaignCalls' = campaignCalls \ {call}
    BY <1>4, Zenon DEF ChainEnds
  <2>2. CampaignsFit'
    BY <1>1, <2>1 DEF CampaignsFit
  <2>3. Sends(wizard', ChainsIn(campaignCalls) \ {call}, Rows)
    BY <1>1, <1>4, <2>1, ChainEndSends, Zenon
  <2>4. QED
    BY <1>1, <1>3, <2>1, <2>2, <2>3, Zenon DEF WizardInv
<1>5. CASE call.about.mine
  <2> DEFINE submitting == FALSE
             step == IF error = "" THEN 0 ELSE wizard.step
             templates == IF error = "" THEN None ELSE wizard.templates
  <2>1. /\ wizard' = [wizard EXCEPT !.submitting = submitting, !.error = error, !.step = step, !.templates = templates]
        /\ campaignCalls' = Chain(campaignCalls, call, "list", [why |-> "created"])
    BY <1>5, Zenon DEF ChainEnds
  <2>2. step \in 0..3 /\ templates \in OfficialChannels \cup {None} /\ submitting \in BOOLEAN
    <3>1. wizard.step \in 0..3 /\ wizard.templates \in OfficialChannels \cup {None}
      BY <1>1 DEF IsPage
    <3>2. QED
      BY <3>1, NoStep
  <2>3. step = 0 \/ (step = wizard.step /\ ~IsDone(call))
    BY Zenon
  <2> HIDE DEF submitting, step, templates
  <2>4. IsPage(wizard') /\ wizard'.acts = wizard.acts /\ wizard'.form = wizard.form /\ wizard'.step = step
    BY <1>1, <2>1, <2>2 DEF IsPage
  <2>5. Aside(campaignCalls \ {call}, campaignCalls')
    <3>1. "list" \notin ChainOps /\ "list" # "templates"
      BY DEF ChainOps
    <3>2. Aside(campaignCalls \ {call}, Send(campaignCalls \ {call}, "list", [why |-> "created"]))
      BY <1>1, <3>1, OtherSent
    <3>3. QED
      BY <2>1, <3>2, Zenon DEF Chain
  <2>6. CampaignsFit'
    BY <1>1, <2>4, <2>5, Zenon DEF CampaignsFit, Aside
  <2>7. Sends(wizard', ChainsIn(campaignCalls) \ {call}, Rows)
    <3>1. wizard'.step = 0 \/ (wizard'.step = wizard.step /\ ~IsDone(call))
      BY <2>3, <2>4, Zenon
    <3>2. QED
      BY <1>1, <1>5, <2>4, <3>1, ChainEndSends
  <2>8. QED
    BY <1>1, <1>3, <2>5, <2>6, <2>7, Zenon DEF WizardInv, Aside
<1>6. QED
  BY <1>4, <1>5

LEMMA ContinueKeepsInv ==
  ASSUME WizardInv, NEW call \in ChainsIn(campaignCalls), call.op # "start",
         NEW op \in {"import", "start"}, NEW row \in Nat, OwnRow(Rows, call, row),
         op = "import" => call.about.form.audience = "csv", op = "start" => HasAudience(Rows[row]),
         Continues(call, op, row), UNCHANGED campaignDb
  PROVE  WizardInv'
<1>1. /\ IsPage(wizard) /\ (\A c \in campaignCalls : CallFits(c)) /\ IsServer(campaignDb)
      /\ Sends(wizard, ChainsIn(campaignCalls), Rows) /\ Rows' = Rows /\ campaignDb' = campaignDb
  BY Zenon DEF WizardInv, CampaignsFit, Rows
<1>2. call \in campaignCalls /\ call.op \in ChainOps /\ op \in ChainOps /\ op # "create" /\ op # "templates"
  BY DEF ChainsIn, ChainOps
<1> DEFINE about == [call.about EXCEPT !.row = row]
<1>3. campaignCalls' = Chain(campaignCalls, call, op, about) /\ wizard' = wizard
  BY Zenon DEF Continues
<1>4. /\ about \in [form : AForm, row : Nat, mine : BOOLEAN] /\ about.row = row
      /\ about.form = call.about.form /\ about.mine = call.about.mine
  <2>1. CallFits(call)
    BY <1>1, <1>2
  <2>2. call.about \in [form : AForm, row : Nat, mine : BOOLEAN]
    BY <1>2, <2>1 DEF CallFits
  <2>3. QED
    BY <2>2
<1> HIDE DEF about
<1>5. PICK new : /\ new.op = op /\ new.about = about /\ new.answer = Waiting
                 /\ ChainsIn(campaignCalls') = (ChainsIn(campaignCalls) \ {call}) \cup {new}
  <2>1. \E new : /\ new.op = op /\ new.about = about /\ new.answer = Waiting
                 /\ ChainsIn(Chain(campaignCalls, call, op, about)) = (ChainsIn(campaignCalls) \ {call}) \cup {new}
    BY <1>2, ChainsOfChain
  <2>2. QED
    BY <1>3, <2>1, Zenon
<1>6. \A c \in campaignCalls' : CallFits(c)
  BY <1>1, <1>2, <1>3, <1>4, ChainFits
<1>7. CampaignsFit'
  BY <1>1, <1>3, <1>6, Zenon DEF CampaignsFit
<1>8. Carries(Rows, new)
  <2>1. ~IsDone(new) /\ new.about.row = row /\ new.about.form = call.about.form
    BY <1>4, <1>5, Zenon DEF IsDone
  <2>2. OwnRow(Rows, new, row)
    BY <2>1, Zenon DEF OwnRow, OpeningOf
  <2>3. QED
    BY <1>2, <1>5, <2>1, <2>2, Zenon DEF Carries
<1>9. Sends(wizard, (ChainsIn(campaignCalls) \ {call}) \cup {new}, Rows)
  <2>1. new.about.form = call.about.form /\ new.about.mine = call.about.mine
    BY <1>4, <1>5, Zenon
  <2>2. \A k : ~SentFor(call, k)
    BY Zenon DEF SentFor
  <2>3. \A k \in DOMAIN Rows : Rows[k].opening < wizard.acts
    BY <1>1, Zenon DEF Sends
  <2>4. QED
    BY <1>1, <1>8, <2>1, <2>2, <2>3, ChainMoveSends
<1>10. QED
  BY <1>1, <1>3, <1>5, <1>7, <1>9, Zenon DEF WizardInv

LEMMA ChainKeepsInv ==
  ASSUME WizardInv, NEW call \in campaignCalls, ChainAnswered(call)
  PROVE  WizardInv'
<1>1. call.op \in ChainOps /\ call.answer # Waiting /\ call \in ChainsIn(campaignCalls)
  BY DEF ChainAnswered, Done, ChainsIn, ChainOps
<1>2. /\ CallFits(call) /\ Carries(Rows, call) /\ UNCHANGED campaignDb
      /\ call.about \in [form : AForm, row : Nat, mine : BOOLEAN]
  <2>1. CallFits(call) /\ Carries(Rows, call)
    BY <1>1, Zenon DEF WizardInv, CampaignsFit, Sends
  <2>2. call.about \in [form : AForm, row : Nat, mine : BOOLEAN]
    BY <1>1, <2>1 DEF CallFits
  <2>3. QED
    BY <2>1, <2>2, Zenon DEF ChainAnswered
<1>3. CASE call.answer = Failed
  <2> DEFINE error == IF call.op = "create" THEN "create" ELSE "draft"
  <2>1. ChainEnds(call, error)
    BY <1>3, Zenon DEF ChainAnswered
  <2>2. error \in {"", "create", "draft"} /\ ~IsDone(call)
    BY <1>3 DEF IsDone
  <2> HIDE DEF error
  <2>3. QED
    BY <1>1, <1>2, <2>1, <2>2, EndKeepsInv
<1>4. CASE call.answer # Failed /\ call.op = "create"
  <2> DEFINE op == IF call.about.form.audience = "csv" THEN "import" ELSE "start"
             row == call.answer.result.row
  <2>1. Continues(call, op, row)
    BY <1>4, Zenon DEF ChainAnswered
  <2>2. IsDone(call) /\ row \in Nat /\ OwnRow(Rows, call, row) /\ call.op # "start"
    BY <1>1, <1>2, <1>4 DEF IsDone, CallFits, Carries
  <2>3. op \in {"import", "start"} /\ (op = "import" => call.about.form.audience = "csv")
    OBVIOUS
  <2>4. op = "start" => HasAudience(Rows[row])
    <3>1. call.about.form \in AForm
      BY <1>2
    <3>2. call.about.form.audience \in {"tag", "csv"}
      BY <3>1 DEF AForm
    <3>3. QED
      BY <2>2, <3>2 DEF OwnRow, HasAudience
  <2> HIDE DEF op, row
  <2>5. QED
    BY <1>1, <1>2, <2>1, <2>2, <2>3, <2>4, ContinueKeepsInv
<1>5. CASE call.answer # Failed /\ call.op = "import"
  <2>1. Continues(call, "start", call.about.row)
    BY <1>5 DEF ChainAnswered
  <2>2. IsDone(call) /\ OwnRow(Rows, call, call.about.row) /\ HasAudience(Rows[call.about.row])
    BY <1>1, <1>2, <1>5 DEF IsDone, Carries, HasAudience
  <2>3. call.about.row \in Nat /\ call.op # "start"
    BY <1>2, <1>5
  <2>4. QED
    BY <1>1, <1>2, <2>1, <2>2, <2>3, ContinueKeepsInv
<1>6. CASE call.answer # Failed /\ call.op = "start"
  <2>1. ChainEnds(call, "")
    BY <1>6 DEF ChainAnswered
  <2>2. QED
    BY <1>1, <1>2, <2>1, EndKeepsInv
<1>7. QED
  BY <1>1, <1>3, <1>4, <1>5, <1>6 DEF ChainOps

-----------------------------------------------------------------------------
(* Leaving, and the server *)

LEMMA LeaveKeepsInv ==
  ASSUME WizardInv, LeaveCampaigns
  PROVE  WizardInv'
<1>1. /\ IsPage(wizard) /\ wizard.acts \in 0..MaxActs /\ (\A c \in campaignCalls : CallFits(c))
      /\ IsServer(campaignDb) /\ Sends(wizard, ChainsIn(campaignCalls), Rows)
  BY DEF WizardInv, CampaignsFit, IsPage
<1> DEFINE Muted(c) == [c EXCEPT !.about.mine = FALSE]
           page == PageOpened(wizard.acts)
           mounted == FALSE
           kept == {d \in campaignCalls : d.op \notin {"list", "channels", "templates"}}
<1>2. /\ wizard' = [page EXCEPT !.mounted = mounted] /\ UNCHANGED campaignDb
      /\ campaignCalls' = {IF c.op \in {"startRow", "cancel"} THEN c ELSE Muted(c) : c \in kept}
  BY Zenon DEF LeaveCampaigns
<1>3. IsPage(wizard') /\ wizard'.acts = wizard.acts /\ wizard'.step = 0
  <2>1. IsPage(page) /\ page.step = 0 /\ page.acts = wizard.acts
    <3>1. page.acts = wizard.acts
      BY DEF PageOpened
    <3>2. QED
      BY <1>1, <3>1, OpenedFits
  <2>2. mounted \in BOOLEAN
    OBVIOUS
  <2> HIDE DEF page, mounted
  <2>3. QED
    BY <1>2, <2>1, <2>2 DEF IsPage
<1>4. ASSUME NEW c \in kept
      PROVE  /\ CallFits(Muted(c)) /\ Muted(c).op = c.op
             /\ c.op \in ChainOps => LeftOf(Muted(c), c)
  <2> DEFINE about == [c.about EXCEPT !.mine = FALSE]
             muted == [slot |-> c.slot, op |-> c.op, about |-> about, answer |-> c.answer]
  <2>1. CallFits(c) /\ IsCall(c) /\ c.op # "channels" /\ c.op # "templates"
    <3>1. c \in campaignCalls /\ c.op # "channels" /\ c.op # "templates"
      OBVIOUS
    <3>2. QED
      BY <1>1, <3>1, Zenon DEF CallFits
  <2>2. Muted(c) = muted
    <3>1. Muted(c) = [c EXCEPT !.about = about]
      BY Zenon
    <3> HIDE DEF about, Muted
    <3>2. QED
      BY <2>1, <3>1 DEF IsCall
  <2>3. muted.op = c.op /\ muted.about = about /\ muted.answer = c.answer /\ IsCall(muted)
    BY DEF IsCall
  <2>4. c.op \in ChainOps => /\ about \in [form : AForm, row : Nat, mine : BOOLEAN] /\ ~about.mine
                             /\ about.form = c.about.form /\ about.row = c.about.row
    <3>1. c.op \in ChainOps => c.about \in [form : AForm, row : Nat, mine : BOOLEAN]
      BY <2>1 DEF CallFits
    <3>2. QED
      BY <3>1
  <2> HIDE DEF about, muted
  <2>5. CallFits(muted)
    BY <2>1, <2>3, <2>4, Zenon DEF CallFits, IsDone
  <2>6. c.op \in ChainOps => LeftOf(muted, c)
    BY <2>3, <2>4, Zenon DEF LeftOf
  <2> HIDE DEF Muted
  <2>7. QED
    BY <2>2, <2>3, <2>5, <2>6, Zenon
<1> HIDE DEF Muted
<1>5. kept \subseteq campaignCalls
  OBVIOUS
<1> HIDE DEF kept
<1>6. \A c \in campaignCalls' : CallFits(c)
  BY <1>1, <1>2, <1>4, <1>5, Zenon
<1>7. ASSUME NEW c \in ChainsIn(campaignCalls')
      PROVE  \E d \in ChainsIn(campaignCalls) : c = Muted(d) /\ LeftOf(c, d)
  <2>1. c \in campaignCalls' /\ c.op \in ChainOps
    BY DEF ChainsIn
  <2>2. PICK d \in kept : c = IF d.op \in {"startRow", "cancel"} THEN d ELSE Muted(d)
    BY <1>2, <2>1
  <2>3. d.op = c.op
    BY <1>4, <2>2, Zenon
  <2>4. d.op \notin {"startRow", "cancel"}
    BY <2>1, <2>3 DEF ChainOps
  <2>5. c = Muted(d) /\ LeftOf(c, d)
    BY <1>4, <2>1, <2>2, <2>3, <2>4, Zenon
  <2>6. d \in ChainsIn(campaignCalls)
    BY <1>5, <2>1, <2>3 DEF ChainsIn
  <2>7. QED
    BY <2>5, <2>6, Zenon
<1>8. ASSUME NEW d \in ChainsIn(campaignCalls), NEW b \in ChainsIn(campaignCalls'),
             NEW c \in ChainsIn(campaignCalls'), LeftOf(b, d), LeftOf(c, d)
      PROVE  b = c
  <2>1. PICK b0 \in ChainsIn(campaignCalls) : b = Muted(b0) /\ LeftOf(b, b0)
    BY <1>7, Zenon
  <2>2. PICK c0 \in ChainsIn(campaignCalls) : c = Muted(c0) /\ LeftOf(c, c0)
    BY <1>7, Zenon
  <2>3. OpeningOf(b0) = OpeningOf(d) /\ OpeningOf(c0) = OpeningOf(d)
    BY <1>8, <2>1, <2>2, Zenon DEF LeftOf, OpeningOf
  <2>4. b0 = d /\ c0 = d
    BY <1>1, <2>3, Zenon DEF Sends
  <2>5. QED
    BY <2>1, <2>2, <2>4, Zenon
<1>9. Sends(wizard', ChainsIn(campaignCalls'), Rows)
  <2>1. \A c \in ChainsIn(campaignCalls') : \E d \in ChainsIn(campaignCalls) : LeftOf(c, d)
    BY <1>7, Zenon
  <2>2. QED
    BY <1>1, <1>3, <1>8, <2>1, LeaveSends
<1>10. CampaignsFit' /\ Rows' = Rows
  BY <1>1, <1>2, <1>3, <1>6, Zenon DEF CampaignsFit, Rows
<1>11. QED
  BY <1>9, <1>10, Zenon DEF WizardInv

LEMMA OneRowFits ==
  ASSUME NEW db, IsServer(db), NEW k, NEW row, k \in DOMAIN db.rows => row \in ARow,
         NEW next, next = [db EXCEPT !.rows = [db.rows EXCEPT ![k] = row]]
  PROVE  /\ IsServer(next) /\ DOMAIN next.rows = DOMAIN db.rows
         /\ \A j \in DOMAIN db.rows : next.rows[j] = IF j = k THEN row ELSE db.rows[j]
<1> DEFINE rows == [db.rows EXCEPT ![k] = row]
<1>1. db.rows \in Seq(ARow)
  BY DEF IsServer
<1>2. rows \in Seq(ARow) /\ DOMAIN rows = DOMAIN db.rows
  <2>1. CASE k \in DOMAIN db.rows
    BY <1>1, <2>1
  <2>2. CASE k \notin DOMAIN db.rows
    <3>1. rows = [j \in DOMAIN db.rows |-> db.rows[j]]
      BY <2>2
    <3>2. db.rows = [j \in DOMAIN db.rows |-> db.rows[j]]
      BY <1>1
    <3>3. QED
      BY <1>1, <3>1, <3>2, Zenon
  <2>3. QED
    BY <2>1, <2>2
<1>3. \A j \in DOMAIN db.rows : rows[j] = IF j = k THEN row ELSE db.rows[j]
  OBVIOUS
<1> HIDE DEF rows
<1>4. IsServer([db EXCEPT !.rows = rows]) /\ [db EXCEPT !.rows = rows].rows = rows
  BY <1>2 DEF IsServer
<1>5. QED
  <2>1. next = [db EXCEPT !.rows = rows]
    BY Zenon DEF rows
  <2>2. IsServer(next) /\ next.rows = rows
    BY <1>4, <2>1, Zenon
  <2>3. QED
    BY <1>2, <1>3, <2>2, Zenon

(* Rows whose campaign is neither new nor started by the wizard.           *)
LEMMA RowsKeepInv ==
  ASSUME WizardInv, UNCHANGED wizard, Aside(campaignCalls, campaignCalls'), NEW k, NEW row,
         k \in DOMAIN Rows =>
           /\ row \in ARow
           /\ row.opening = Rows[k].opening /\ row.audience = Rows[k].audience
           /\ row.imported = Rows[k].imported /\ row.unheard = Rows[k].unheard
           /\ row.by = "start" => Rows[k].by = "start",
         campaignDb' = [campaignDb EXCEPT !.rows = [campaignDb.rows EXCEPT ![k] = row]]
  PROVE  WizardInv'
<1>1. /\ IsPage(wizard) /\ IsServer(campaignDb) /\ Sends(wizard, ChainsIn(campaignCalls), Rows)
      /\ Rows = campaignDb.rows /\ Rows' = campaignDb'.rows
  BY DEF WizardInv, CampaignsFit, Rows
<1>2. /\ IsServer(campaignDb') /\ DOMAIN Rows' = DOMAIN Rows
      /\ \A j \in DOMAIN Rows : Rows'[j] = IF j = k THEN row ELSE Rows[j]
  <2>1. k \in DOMAIN campaignDb.rows => row \in ARow
    BY <1>1, Zenon
  <2>2. /\ IsServer(campaignDb') /\ DOMAIN campaignDb'.rows = DOMAIN campaignDb.rows
        /\ \A j \in DOMAIN campaignDb.rows : campaignDb'.rows[j] = IF j = k THEN row ELSE campaignDb.rows[j]
    BY <1>1, <2>1, OneRowFits
  <2>3. QED
    BY <1>1, <2>2, Zenon
<1>3. CampaignsFit' /\ ChainsIn(campaignCalls') = ChainsIn(campaignCalls)
  BY <1>1, <1>2, Zenon DEF CampaignsFit, Aside
<1>4. Sends(wizard, ChainsIn(campaignCalls), Rows')
  <2>1. \A j \in DOMAIN Rows :
          /\ Rows'[j].opening = Rows[j].opening /\ Rows'[j].audience = Rows[j].audience
          /\ Rows'[j].imported = Rows[j].imported /\ Rows'[j].unheard = Rows[j].unheard
          /\ Rows'[j].by = "start" => Rows[j].by = "start"
    BY <1>2, Zenon
  <2>2. QED
    BY <1>1, <1>2, <2>1, RowsMoveSends
<1>5. QED
  BY <1>3, <1>4, Zenon DEF WizardInv

(* A row keeps its shape in whatever the server writes to it.              *)
LEMMA RowStatus ==
  ASSUME NEW row \in ARow, NEW status \in {"draft", "processing", "completed", "cancelled"}
  PROVE  LET next == [row EXCEPT !.status = status]
         IN /\ next \in ARow /\ next.by = row.by /\ next.opening = row.opening /\ next.audience = row.audience
            /\ next.imported = row.imported /\ next.unheard = row.unheard
  BY DEF ARow

LEMMA RowImported ==
  ASSUME NEW row \in ARow
  PROVE  LET next == [row EXCEPT !.imported = TRUE]
         IN /\ next \in ARow /\ next.by = row.by /\ next.opening = row.opening /\ next.audience = row.audience
            /\ next.imported /\ next.unheard = row.unheard
<1> DEFINE yes == TRUE
           file == [row EXCEPT !.imported = yes]
<1>1. yes \in BOOLEAN /\ yes
  OBVIOUS
<1>2. /\ file \in ARow /\ file.by = row.by /\ file.opening = row.opening /\ file.audience = row.audience
      /\ file.imported = yes /\ file.unheard = row.unheard
  <2> HIDE DEF yes
  <2>1. QED
    BY <1>1 DEF ARow
<1>3. QED
  BY <1>2, Zenon

LEMMA RowUnheard ==
  ASSUME NEW row \in ARow
  PROVE  LET next == [row EXCEPT !.unheard = TRUE]
         IN /\ next \in ARow /\ next.by = row.by /\ next.opening = row.opening /\ next.audience = row.audience
            /\ next.imported = row.imported /\ next.unheard
<1> DEFINE yes == TRUE
           lost == [row EXCEPT !.unheard = yes]
<1>1. yes \in BOOLEAN /\ yes
  OBVIOUS
<1>2. /\ lost \in ARow /\ lost.by = row.by /\ lost.opening = row.opening /\ lost.audience = row.audience
      /\ lost.imported = row.imported /\ lost.unheard = yes
  <2> HIDE DEF yes
  <2>1. QED
    BY <1>1 DEF ARow
<1>3. QED
  BY <1>2, Zenon

(* A chain's call is answered, or its answer is lost.                      *)
LEMMA AnswerKeepsInv ==
  ASSUME WizardInv, UNCHANGED wizard, NEW call \in ChainsIn(campaignCalls), NEW answer, answer # Waiting,
         campaignCalls' = Answered(campaignCalls, call, answer), IsServer(campaignDb'),
         call.op = "create" /\ answer # Failed =>
           answer.result.row \in Nat /\ OwnRow(Rows', call, answer.result.row),
         call.op = "import" /\ answer # Failed => Rows'[call.about.row].imported,
         \A k \in DOMAIN Rows :
           /\ k \in DOMAIN Rows' /\ Rows'[k].opening = Rows[k].opening /\ Rows'[k].audience = Rows[k].audience
           /\ Rows[k].imported => Rows'[k].imported
           /\ Rows[k].unheard => Rows'[k].unheard,
         \A k \in DOMAIN Rows' : Rows'[k].opening < wizard.acts,
         \A k \in DOMAIN Rows' : Rows'[k].by = "start" =>
           /\ k \in DOMAIN Rows
           /\ \/ Rows[k].by = "start" /\ (SentFor(call, k) => Rows'[k].unheard)
              \/ call.op = "start" /\ call.about.row = k /\ call.answer = Waiting /\ answer # Failed
  PROVE  WizardInv'
<1>1. /\ IsPage(wizard) /\ (\A c \in campaignCalls : CallFits(c)) /\ Sends(wizard, ChainsIn(campaignCalls), Rows)
      /\ wizard' = wizard
  BY Zenon DEF WizardInv, CampaignsFit
<1>2. call \in campaignCalls /\ call.op \in ChainOps /\ IsCall(call)
  BY <1>1 DEF ChainsIn, CallFits
<1>3. PICK new : /\ new.op = call.op /\ new.about = call.about /\ new.answer = answer
                 /\ ChainsIn(campaignCalls') = (ChainsIn(campaignCalls) \ {call}) \cup {new}
  <2>1. \E new : /\ new.op = call.op /\ new.about = call.about /\ new.answer = answer
                 /\ ChainsIn(Answered(campaignCalls, call, answer)) = (ChainsIn(campaignCalls) \ {call}) \cup {new}
    BY <1>2, ChainsOfAnswered
  <2>2. QED
    BY <2>1, Zenon
<1>4. IsDone(new) <=> answer # Failed
  BY <1>3, Zenon DEF IsDone
<1>5. Carries(Rows, call)
  BY <1>1, Zenon DEF Sends
<1>6. Carries(Rows', new)
  <2>1. Carries(Rows', call)
    BY <1>5, RowsKeepCarried
  <2>2. \A k : OwnRow(Rows', call, k) => OwnRow(Rows', new, k)
    BY <1>3, Zenon DEF OwnRow, OpeningOf
  <2>3. QED
    BY <1>3, <1>4, <2>1, <2>2, Zenon DEF Carries
<1>7. ASSUME NEW k \in DOMAIN Rows', Rows'[k].by = "start"
      PROVE  /\ k \in DOMAIN Rows
             /\ \/ Rows[k].by = "start" /\ (SentFor(call, k) => Rows'[k].unheard)
                \/ ~IsDone(call) /\ HasAudience(Rows[k]) /\ SentFor(new, k) /\ Rows[k].opening = OpeningOf(call)
  <2>1. CASE Rows[k].by = "start" /\ (SentFor(call, k) => Rows'[k].unheard)
    BY <1>7, <2>1, Zenon
  <2>2. CASE call.op = "start" /\ call.about.row = k /\ call.answer = Waiting /\ answer # Failed
    <3>1. ~IsDone(call) /\ SentFor(new, k)
      BY <1>3, <1>4, <2>2, Zenon DEF IsDone, SentFor
    <3>2. OwnRow(Rows, call, k) /\ HasAudience(Rows[k])
      BY <1>5, <2>2 DEF Carries
    <3>3. QED
      BY <3>1, <3>2, Zenon DEF OwnRow
  <2>3. QED
    BY <1>7, <2>1, <2>2, Zenon
<1>8. Sends(wizard, (ChainsIn(campaignCalls) \ {call}) \cup {new}, Rows')
  <2>1. new.about.form = call.about.form /\ new.about.mine = call.about.mine
    BY <1>3, Zenon
  <2>2. QED
    BY <1>1, <1>6, <1>7, <2>1, ChainMoveSends
<1>9. \A c \in campaignCalls' : CallFits(c)
  <2>1. call.op # "channels"
    BY <1>2 DEF ChainOps
  <2>2. QED
    BY <1>1, <1>2, <2>1, AnsweredFits
<1>10. CampaignsFit'
  BY <1>1, <1>9, Zenon DEF CampaignsFit
<1>11. QED
  BY <1>1, <1>3, <1>8, <1>10, Zenon DEF WizardInv

(* What a server step starts from.                                         *)
LEMMA ServerFacts ==
  ASSUME WizardInv
  PROVE  /\ IsPage(wizard) /\ IsServer(campaignDb) /\ Rows = campaignDb.rows /\ Rows' = campaignDb'.rows
         /\ \A c \in campaignCalls : CallFits(c) /\ IsCall(c)
         /\ \A k \in DOMAIN Rows : Rows[k] \in ARow /\ Rows[k].opening < wizard.acts
         /\ \A c \in ChainsIn(campaignCalls) : Visits(wizard, c) /\ Carries(Rows, c)
<1>1. \A k \in DOMAIN Rows : Rows[k] \in ARow
  BY OpeningsAreNumbers, Zenon DEF WizardInv
<1>2. QED
  BY <1>1, Zenon DEF WizardInv, CampaignsFit, Sends, Rows, CallFits

(* A draft is started.                                                     *)
LEMMA StartsWrites ==
  ASSUME WizardInv, NEW k, NEW by \in {"start", "startRow"}, Starts(k, by), Rows[k].status = "draft"
  PROVE  \E row :
           /\ campaignDb' = [campaignDb EXCEPT !.rows = [campaignDb.rows EXCEPT ![k] = row]]
           /\ k \in DOMAIN Rows =>
                /\ row \in ARow /\ row.by = by
                /\ row.opening = Rows[k].opening /\ row.audience = Rows[k].audience
                /\ row.imported = Rows[k].imported /\ row.unheard = Rows[k].unheard
<1> DEFINE status == "processing"
           row == [Rows[k] EXCEPT !.status = status, !.by = by]
<1>1. campaignDb' = [campaignDb EXCEPT !.rows[k].status = status, !.rows[k].by = by]
  BY Zenon DEF Starts
<1>2. status \in {"draft", "processing", "completed", "cancelled"} /\ by \in {None, "start", "startRow"}
  OBVIOUS
<1>3. IsServer(campaignDb) /\ Rows = campaignDb.rows /\ (k \in DOMAIN Rows => Rows[k] \in ARow)
  BY ServerFacts
<1> HIDE DEF status
<1>4. campaignDb' = [campaignDb EXCEPT !.rows = [campaignDb.rows EXCEPT ![k] = row]]
  BY <1>1, <1>3, Zenon DEF IsServer, Rows
<1>5. row = [Rows[k] EXCEPT !.status = status, !.by = by]
  OBVIOUS
<1> HIDE DEF row
<1>6. k \in DOMAIN Rows =>
        /\ row \in ARow /\ row.by = by
        /\ row.opening = Rows[k].opening /\ row.audience = Rows[k].audience
        /\ row.imported = Rows[k].imported /\ row.unheard = Rows[k].unheard
  BY <1>2, <1>3, <1>5 DEF ARow
<1>7. QED
  BY <1>4, <1>6

LEMMA ReadsKeepInv ==
  ASSUME WizardInv, NEW call \in campaignCalls, CampaignServer(call),
         call.op \in {"list", "channels", "templates", "startRow", "cancel"}
  PROVE  WizardInv'
<1>1. /\ call.op \notin ChainOps /\ wizard' = wizard
      /\ \A c \in campaignCalls : CallFits(c)
  BY ServerFacts DEF CampaignServer, ChainOps
<1>2. IsPage(wizard) /\ IsServer(campaignDb)
  BY ServerFacts
<1>3. QuietPage(wizard, wizard')
  BY <1>1, <1>2, StillIsQuiet, Zenon
<1>4. CASE call.op = "list"
  <2> DEFINE answer == Ok([rows |-> [k \in DOMAIN Rows |-> Rows[k].status]])
  <2>1. campaignCalls' = Answered(campaignCalls, call, answer) /\ UNCHANGED campaignDb
    BY <1>4 DEF CampaignServer
  <2> HIDE DEF answer
  <2>2. Aside(campaignCalls, campaignCalls')
    BY <1>1, <1>4, <2>1, OtherAnswered
  <2>3. QED
    BY <1>2, <1>3, <2>1, <2>2, AsideKeepsInv, Zenon DEF AsideStep
<1>5. CASE call.op \in {"channels", "templates"}
  <2> DEFINE result == [channels |-> campaignDb.channels]
  <2>1. campaignCalls' = Answered(campaignCalls, call, Ok(result)) /\ UNCHANGED campaignDb
    BY <1>5 DEF CampaignServer
  <2>2. result.channels \subseteq OfficialChannels
    BY <1>2 DEF IsServer
  <2> HIDE DEF result
  <2>3. Aside(campaignCalls, campaignCalls')
    <3>1. Ok(result).result.channels \subseteq OfficialChannels
      BY <2>2, AnswersDiffer
    <3>2. QED
      BY <1>1, <2>1, <3>1, OtherAnswered
  <2>4. QED
    BY <1>2, <1>3, <2>1, <2>3, AsideKeepsInv, Zenon DEF AsideStep
<1>6. CASE call.op = "startRow"
  <2> DEFINE k == call.about.row
             answer == IF Rows[k].status = "draft" THEN Ok([done |-> TRUE]) ELSE Failed
  <2>1. campaignCalls' = Answered(campaignCalls, call, answer) /\ Starts(k, "startRow")
    BY <1>6 DEF CampaignServer
  <2> HIDE DEF answer
  <2>2. Aside(campaignCalls, campaignCalls')
    BY <1>1, <1>6, <2>1, OtherAnswered
  <2> HIDE DEF k
  <2>3. CASE Rows[k].status # "draft"
    <3>1. UNCHANGED campaignDb
      BY <2>1, <2>3, Zenon DEF Starts
    <3>2. QED
      BY <1>2, <1>3, <2>2, <3>1, AsideKeepsInv, Zenon DEF AsideStep
  <2>4. CASE Rows[k].status = "draft"
    <3>1. PICK row :
            /\ campaignDb' = [campaignDb EXCEPT !.rows = [campaignDb.rows EXCEPT ![k] = row]]
            /\ k \in DOMAIN Rows =>
                 /\ row \in ARow /\ row.by = "startRow"
                 /\ row.opening = Rows[k].opening /\ row.audience = Rows[k].audience
                 /\ row.imported = Rows[k].imported /\ row.unheard = Rows[k].unheard
      BY <2>1, <2>4, StartsWrites
    <3>2. k \in DOMAIN Rows => (row.by = "start" => Rows[k].by = "start")
      BY <3>1
    <3>3. QED
      BY <1>1, <2>2, <3>1, <3>2, RowsKeepInv
  <2>5. QED
    BY <2>3, <2>4
<1>7. CASE call.op = "cancel"
  <2> DEFINE k == call.about.row
             row == [Rows[k] EXCEPT !.status = "cancelled"]
  <2>1. /\ campaignCalls' = Answered(campaignCalls, call, Ok([done |-> TRUE]))
        /\ campaignDb' = [campaignDb EXCEPT !.rows[k].status = "cancelled"]
    BY <1>7 DEF CampaignServer
  <2>2. Aside(campaignCalls, campaignCalls')
    BY <1>1, <1>7, <2>1, OtherAnswered
  <2>3. campaignDb' = [campaignDb EXCEPT !.rows = [campaignDb.rows EXCEPT ![k] = row]]
    <3> HIDE DEF k
    <3>1. QED
      BY <1>2, <2>1, Zenon DEF Rows
  <2>4. k \in DOMAIN Rows =>
          /\ row \in ARow
          /\ row.opening = Rows[k].opening /\ row.audience = Rows[k].audience
          /\ row.imported = Rows[k].imported /\ row.unheard = Rows[k].unheard
          /\ row.by = "start" => Rows[k].by = "start"
    <3> HIDE DEF k
    <3>1. k \in DOMAIN Rows => Rows[k] \in ARow
      BY ServerFacts
    <3>2. "cancelled" \in {"draft", "processing", "completed", "cancelled"}
      OBVIOUS
    <3>3. QED
      BY <3>1, <3>2, RowStatus, Zenon
  <2> HIDE DEF k, row
  <2>5. QED
    BY <1>1, <2>2, <2>3, <2>4, RowsKeepInv
<1>8. QED
  BY <1>4, <1>5, <1>6, <1>7

LEMMA CompletionKeepsInv ==
  ASSUME WizardInv, NEW k, CampaignCompletes(k)
  PROVE  WizardInv'
<1> DEFINE row == [Rows[k] EXCEPT !.status = "completed"]
<1>1. /\ k \in DOMAIN Rows /\ UNCHANGED <<wizard, campaignCalls>>
      /\ campaignDb' = [campaignDb EXCEPT !.rows[k].status = "completed"]
  BY Zenon DEF CampaignCompletes
<1>2. campaignDb' = [campaignDb EXCEPT !.rows = [campaignDb.rows EXCEPT ![k] = row]]
  BY <1>1, Zenon DEF Rows
<1>3. /\ row \in ARow /\ row.by = Rows[k].by
      /\ row.opening = Rows[k].opening /\ row.audience = Rows[k].audience
      /\ row.imported = Rows[k].imported /\ row.unheard = Rows[k].unheard
  <2>1. Rows[k] \in ARow
    BY <1>1, ServerFacts
  <2>2. "completed" \in {"draft", "processing", "completed", "cancelled"}
    OBVIOUS
  <2>3. QED
    BY <2>1, <2>2, RowStatus, Zenon
<1>4. Aside(campaignCalls, campaignCalls')
  BY <1>1, ServerFacts DEF Aside
<1> HIDE DEF row
<1>5. QED
  BY <1>1, <1>2, <1>3, <1>4, RowsKeepInv

(* The server does what a chain asks for.                                  *)
LEMMA ServedKeepsInv ==
  ASSUME WizardInv, NEW call \in campaignCalls, CampaignServer(call), call.op \in ChainOps
  PROVE  WizardInv'
<1>1. /\ call.answer = Waiting /\ UNCHANGED wizard /\ call \in ChainsIn(campaignCalls)
      /\ \A k : ~SentFor(call, k)
  BY Zenon DEF CampaignServer, ChainsIn, SentFor, IsDone
<1>2. /\ Visits(wizard, call) /\ Carries(Rows, call) /\ call.about.form \in AForm
      /\ IsServer(campaignDb) /\ Rows = campaignDb.rows /\ Rows' = campaignDb'.rows
      /\ \A k \in DOMAIN Rows : Rows[k] \in ARow /\ Rows[k].opening < wizard.acts
  BY <1>1, ServerFacts, OpeningsAreNumbers, Zenon DEF WizardInv
<1>3. CASE call.op = "create"
  <2> DEFINE row == [status |-> "draft", audience |-> call.about.form.audience,
                     opening |-> call.about.form.opening, imported |-> FALSE, by |-> None, unheard |-> FALSE]
             rows == Append(campaignDb.rows, row)
             result == [row |-> Len(Rows) + 1]
  <2>1. campaignDb' = [campaignDb EXCEPT !.rows = rows] /\ campaignCalls' = Answered(campaignCalls, call, Ok(result))
    BY <1>3 DEF CampaignServer
  <2>2. row \in ARow /\ row.by # "start" /\ row.opening = OpeningOf(call) /\ row.audience = call.about.form.audience
    <3> DEFINE audience == call.about.form.audience
               opening == call.about.form.opening
               no == FALSE
    <3>1. audience \in {"tag", "csv"} /\ opening \in 0..MaxActs
      BY <1>2 DEF AForm
    <3>2. row = [status |-> "draft", audience |-> audience, opening |-> opening, imported |-> no,
                 by |-> None, unheard |-> no]
      OBVIOUS
    <3>3. no \in BOOLEAN /\ opening = OpeningOf(call) /\ audience = call.about.form.audience
      BY DEF OpeningOf
    <3>4. None # "start"
      BY DEF None
    <3> HIDE DEF row, audience, opening, no
    <3>5. QED
      BY <3>1, <3>2, <3>3, <3>4 DEF ARow
  <2> HIDE DEF row
  <2>3. /\ rows \in Seq(ARow) /\ DOMAIN rows = DOMAIN Rows \cup {Len(Rows) + 1} /\ Len(Rows) + 1 \in Nat
        /\ rows[Len(Rows) + 1] = row /\ \A k \in DOMAIN Rows : rows[k] = Rows[k] /\ k # Len(Rows) + 1
    <3>1. campaignDb.rows \in Seq(ARow)
      BY <1>2 DEF IsServer
    <3>2. QED
      BY <1>2, <2>2, <3>1
  <2> HIDE DEF rows
  <2>4. IsServer(campaignDb') /\ Rows' = rows
    <3>1. IsServer(campaignDb') /\ campaignDb'.rows = rows
      BY <1>2, <2>1, <2>3 DEF IsServer
    <3>2. QED
      BY <1>2, <3>1, Zenon
  <2>5. Ok(result).result.row = Len(Rows) + 1 /\ Ok(result) # Waiting
    <3>1. result.row = Len(Rows) + 1
      OBVIOUS
    <3> HIDE DEF result
    <3>2. QED
      BY <3>1, AnswersDiffer
  <2> HIDE DEF result
  <2> DEFINE new == Len(Rows) + 1
  <2> HIDE DEF new
  <2>6. /\ DOMAIN Rows' = DOMAIN Rows \cup {new} /\ new \in Nat /\ Rows'[new] = row
        /\ \A k \in DOMAIN Rows : k \in DOMAIN Rows' /\ Rows'[k] = Rows[k]
        /\ new \in DOMAIN Rows'
    BY <2>3, <2>4 DEF new
  <2>7. Ok(result).result.row = new
    BY <2>5 DEF new
  <2>8. OwnRow(Rows', call, new)
    BY <2>2, <2>6, Zenon DEF OwnRow
  <2>9. \A k \in DOMAIN Rows' : (k \in DOMAIN Rows /\ Rows'[k] = Rows[k]) \/ k = new
    BY <2>6
  <2>10. \A k \in DOMAIN Rows' : Rows'[k].opening < wizard.acts
    BY <1>2, <2>2, <2>6, <2>9, Zenon DEF Visits
  <2>11. \A k \in DOMAIN Rows' : Rows'[k].by = "start" => k \in DOMAIN Rows /\ Rows[k].by = "start"
    BY <2>2, <2>6, <2>9, Zenon
  <2>12. \A k \in DOMAIN Rows :
           /\ k \in DOMAIN Rows' /\ Rows'[k].opening = Rows[k].opening /\ Rows'[k].audience = Rows[k].audience
           /\ Rows[k].imported => Rows'[k].imported
           /\ Rows[k].unheard => Rows'[k].unheard
    BY <2>6, Zenon
  <2>13. call.op # "import"
    BY <1>3
  <2> DEFINE answer == Ok(result)
  <2>14. answer # Waiting /\ answer.result.row = new /\ campaignCalls' = Answered(campaignCalls, call, answer)
    BY <2>1, <2>5, <2>7, Zenon
  <2> HIDE DEF answer
  <2>15. QED
    BY <1>1, <2>4, <2>6, <2>8, <2>10, <2>11, <2>12, <2>13, <2>14, AnswerKeepsInv
<1>4. CASE call.op = "import"
  <2> DEFINE k == call.about.row
             answer == Ok([done |-> TRUE])
             row == [Rows[k] EXCEPT !.imported = TRUE]
  <2>1. campaignDb' = [campaignDb EXCEPT !.rows[k].imported = TRUE] /\ campaignCalls' = Answered(campaignCalls, call, answer)
    BY <1>4 DEF CampaignServer
  <2>2. k \in DOMAIN Rows
    BY <1>2, <1>4 DEF Carries, OwnRow
  <2>3. answer # Waiting
    BY AnswersDiffer
  <2> HIDE DEF k, answer
  <2>4. campaignDb' = [campaignDb EXCEPT !.rows = [campaignDb.rows EXCEPT ![k] = row]]
    BY <1>2, <2>1, Zenon DEF Rows
  <2>5. /\ row \in ARow /\ row.by = Rows[k].by /\ row.opening = Rows[k].opening /\ row.audience = Rows[k].audience
        /\ row.imported /\ row.unheard = Rows[k].unheard
    BY <1>2, <2>2, RowImported, Zenon
  <2> HIDE DEF row
  <2>6. /\ IsServer(campaignDb') /\ DOMAIN Rows' = DOMAIN Rows
        /\ \A j \in DOMAIN Rows : Rows'[j] = IF j = k THEN row ELSE Rows[j]
    <3>1. /\ IsServer(campaignDb') /\ DOMAIN campaignDb'.rows = DOMAIN campaignDb.rows
          /\ \A j \in DOMAIN campaignDb.rows : campaignDb'.rows[j] = IF j = k THEN row ELSE campaignDb.rows[j]
      BY <1>2, <2>4, <2>5, OneRowFits
    <3>2. QED
      BY <1>2, <3>1, Zenon
  <2>7. /\ \A j \in DOMAIN Rows :
             /\ j \in DOMAIN Rows' /\ Rows'[j].opening = Rows[j].opening /\ Rows'[j].audience = Rows[j].audience
             /\ Rows[j].imported => Rows'[j].imported
             /\ Rows[j].unheard => Rows'[j].unheard
             /\ Rows'[j].by = Rows[j].by
        /\ Rows'[k].imported
    BY <2>2, <2>5, <2>6, Zenon
  <2>8. /\ \A j \in DOMAIN Rows' : Rows'[j].opening < wizard.acts
        /\ \A j \in DOMAIN Rows' : Rows'[j].by = "start" => j \in DOMAIN Rows /\ Rows[j].by = "start"
    BY <1>2, <2>6, <2>7, Zenon
  <2>9. call.op # "create" /\ k = call.about.row
    BY <1>4 DEF k
  <2>10. QED
    BY <1>1, <2>1, <2>3, <2>6, <2>7, <2>8, <2>9, AnswerKeepsInv
<1>5. CASE call.op = "start"
  <2> DEFINE k == call.about.row
             answer == IF Rows[k].status = "draft" THEN Ok([done |-> TRUE]) ELSE Failed
  <2>1. Starts(k, "start") /\ campaignCalls' = Answered(campaignCalls, call, answer)
    BY <1>5 DEF CampaignServer
  <2>2. k \in DOMAIN Rows
    BY <1>2, <1>5 DEF Carries, OwnRow
  <2>3. answer # Waiting /\ (Rows[k].status = "draft" => answer # Failed)
    BY AnswersDiffer, Zenon
  <2> HIDE DEF answer
  <2>4. call.op # "create" /\ call.op # "import" /\ k = call.about.row
    BY <1>5
  <2> HIDE DEF k
  <2>5. CASE Rows[k].status # "draft"
    <3>1. UNCHANGED campaignDb
      BY <2>1, <2>5, Zenon DEF Starts
    <3>2. Rows' = Rows /\ IsServer(campaignDb')
      BY <1>2, <3>1, Zenon
    <3>3. QED
      BY <1>1, <1>2, <2>1, <2>3, <2>4, <3>2, AnswerKeepsInv
  <2>6. CASE Rows[k].status = "draft"
    <3>1. PICK row :
            /\ campaignDb' = [campaignDb EXCEPT !.rows = [campaignDb.rows EXCEPT ![k] = row]]
            /\ k \in DOMAIN Rows =>
                 /\ row \in ARow /\ row.by = "start"
                 /\ row.opening = Rows[k].opening /\ row.audience = Rows[k].audience
                 /\ row.imported = Rows[k].imported /\ row.unheard = Rows[k].unheard
      BY <2>1, <2>6, StartsWrites
    <3>2. /\ IsServer(campaignDb') /\ DOMAIN Rows' = DOMAIN Rows
          /\ \A j \in DOMAIN Rows : Rows'[j] = IF j = k THEN row ELSE Rows[j]
      <4>1. /\ IsServer(campaignDb') /\ DOMAIN campaignDb'.rows = DOMAIN campaignDb.rows
            /\ \A j \in DOMAIN campaignDb.rows : campaignDb'.rows[j] = IF j = k THEN row ELSE campaignDb.rows[j]
        BY <1>2, <2>2, <3>1, OneRowFits
      <4>2. QED
        BY <1>2, <4>1, Zenon
    <3>3. \A j \in DOMAIN Rows :
            /\ j \in DOMAIN Rows' /\ Rows'[j].opening = Rows[j].opening /\ Rows'[j].audience = Rows[j].audience
            /\ Rows[j].imported => Rows'[j].imported
            /\ Rows[j].unheard => Rows'[j].unheard
            /\ Rows'[j].by = Rows[j].by \/ j = k
      BY <2>2, <3>1, <3>2, Zenon
    <3>4. \A j \in DOMAIN Rows' : j \in DOMAIN Rows /\ Rows'[j].opening < wizard.acts
      BY <1>2, <3>2, <3>3, Zenon
    <3>5. \A j \in DOMAIN Rows' : Rows'[j].by = "start" => j \in DOMAIN Rows /\ (Rows[j].by = "start" \/ j = k)
      BY <3>3, <3>4, Zenon
    <3>6. QED
      BY <1>1, <1>5, <2>1, <2>3, <2>4, <2>6, <3>2, <3>3, <3>4, <3>5, AnswerKeepsInv
  <2>7. QED
    BY <2>5, <2>6
<1>6. QED
  BY <1>3, <1>4, <1>5 DEF ChainOps

(* A call fails, or its answer is lost on the way.                         *)
LEMMA FailureKeepsInv ==
  ASSUME WizardInv, NEW call \in campaignCalls, CampaignCallFails(call)
  PROVE  WizardInv'
<1>1. /\ campaignDb.lost < MaxLost /\ UNCHANGED wizard /\ campaignCalls' = Answered(campaignCalls, call, Failed)
      /\ IsPage(wizard) /\ IsServer(campaignDb) /\ Rows = campaignDb.rows /\ Rows' = campaignDb'.rows
      /\ \A c \in campaignCalls : CallFits(c) /\ IsCall(c)
      /\ \A k \in DOMAIN Rows : Rows[k] \in ARow /\ Rows[k].opening < wizard.acts
  BY ServerFacts, Zenon DEF CampaignCallFails
<1> DEFINE lost == campaignDb.lost + 1
           Unheard(k) == call.op = "start" /\ call.answer # Waiting /\ call.about.row = k
           rows == [k \in DOMAIN campaignDb.rows |->
                      IF Unheard(k) THEN [campaignDb.rows[k] EXCEPT !.unheard = TRUE] ELSE campaignDb.rows[k]]
<1>2. campaignDb' = [campaignDb EXCEPT !.lost = lost, !.rows = rows]
  BY <1>1 DEF CampaignCallFails, IsServer
<1>3. lost \in 0..MaxLost
  <2>1. campaignDb.lost \in 0..MaxLost
    BY <1>1 DEF IsServer
  <2>2. QED
    BY <1>1, <2>1, PanelCallsAssumption
<1>4. \A k \in DOMAIN Rows :
        /\ rows[k] \in ARow /\ rows[k].by = Rows[k].by /\ rows[k].opening = Rows[k].opening
        /\ rows[k].audience = Rows[k].audience /\ rows[k].imported = Rows[k].imported
        /\ Rows[k].unheard => rows[k].unheard
        /\ Unheard(k) => rows[k].unheard
  <2> SUFFICES ASSUME NEW k \in DOMAIN Rows
               PROVE  /\ rows[k] \in ARow /\ rows[k].by = Rows[k].by /\ rows[k].opening = Rows[k].opening
                      /\ rows[k].audience = Rows[k].audience /\ rows[k].imported = Rows[k].imported
                      /\ Rows[k].unheard => rows[k].unheard
                      /\ Unheard(k) => rows[k].unheard
    OBVIOUS
  <2>1. rows[k] = IF Unheard(k) THEN [Rows[k] EXCEPT !.unheard = TRUE] ELSE Rows[k]
    BY <1>1, Zenon
  <2>2. Rows[k] \in ARow
    BY <1>1
  <2> HIDE DEF rows, Unheard
  <2>3. CASE Unheard(k)
    <3>1. rows[k] = [Rows[k] EXCEPT !.unheard = TRUE]
      BY <2>1, <2>3, Zenon
    <3>2. LET next == [Rows[k] EXCEPT !.unheard = TRUE]
          IN /\ next \in ARow /\ next.by = Rows[k].by /\ next.opening = Rows[k].opening
             /\ next.audience = Rows[k].audience /\ next.imported = Rows[k].imported /\ next.unheard
      BY <2>2, RowUnheard, Zenon
    <3>3. QED
      BY <3>1, <3>2, Zenon
  <2>4. CASE ~Unheard(k)
    BY <2>1, <2>2, <2>4, Zenon
  <2>5. QED
    BY <2>3, <2>4, Zenon
<1>5. rows \in Seq(ARow) /\ DOMAIN rows = DOMAIN Rows
  <2>1. campaignDb.rows \in Seq(ARow)
    BY <1>1 DEF IsServer
  <2>2. DOMAIN rows = DOMAIN campaignDb.rows
    OBVIOUS
  <2>3. rows = [k \in DOMAIN campaignDb.rows |-> rows[k]]
    OBVIOUS
  <2> HIDE DEF rows, Unheard
  <2>4. rows \in Seq(ARow)
    <3>1. Len(campaignDb.rows) \in Nat /\ DOMAIN campaignDb.rows = 1..Len(campaignDb.rows)
      BY <2>1
    <3>2. rows \in [1..Len(campaignDb.rows) -> ARow]
      BY <1>1, <1>4, <2>2, <2>3, <3>1
    <3>3. QED
      BY <3>1, <3>2
  <2>5. QED
    BY <1>1, <2>2, <2>4, Zenon
<1> HIDE DEF lost, rows
<1>6. IsServer(campaignDb') /\ Rows' = rows
  <2>1. IsServer(campaignDb') /\ campaignDb'.rows = rows
    BY <1>1, <1>2, <1>3, <1>5 DEF IsServer
  <2>2. QED
    BY <1>1, <2>1, Zenon
<1>7. \A k \in DOMAIN Rows :
        /\ k \in DOMAIN Rows' /\ Rows'[k].opening = Rows[k].opening /\ Rows'[k].audience = Rows[k].audience
        /\ Rows'[k].imported = Rows[k].imported /\ Rows'[k].by = Rows[k].by
        /\ Rows[k].unheard => Rows'[k].unheard
        /\ Unheard(k) => Rows'[k].unheard
  BY <1>4, <1>5, <1>6, Zenon
<1>8. CASE call.op \in ChainOps
  <2>1. \A k : SentFor(call, k) => Unheard(k)
    BY Zenon DEF SentFor, IsDone
  <2>2. Failed # Waiting /\ call \in ChainsIn(campaignCalls)
    BY <1>8, AnswersDiffer DEF ChainsIn
  <2>3. \A k \in DOMAIN Rows' :
          /\ Rows'[k].opening < wizard.acts
          /\ Rows'[k].by = "start" => k \in DOMAIN Rows /\ Rows[k].by = "start" /\ (SentFor(call, k) => Rows'[k].unheard)
    BY <1>1, <1>5, <1>6, <1>7, <2>1, Zenon
  <2> HIDE DEF Unheard
  <2>4. QED
    BY <1>1, <1>6, <1>7, <2>2, <2>3, AnswerKeepsInv
<1>9. CASE call.op \notin ChainOps
  <2>1. Aside(campaignCalls, campaignCalls')
    BY <1>1, <1>9, OtherAnswered
  <2>2. \A k \in DOMAIN Rows : Rows'[k].unheard = Rows[k].unheard
    <3>1. \A k : ~Unheard(k)
      BY <1>9 DEF ChainOps
    <3>2. \A k \in DOMAIN Rows : rows[k] = Rows[k]
      BY <1>1, <3>1 DEF rows
    <3>3. QED
      BY <1>6, <3>2, Zenon
  <2>3. Sends(wizard, ChainsIn(campaignCalls), Rows')
    <3>1. Sends(wizard, ChainsIn(campaignCalls), Rows)
      BY Zenon DEF WizardInv
    <3>2. DOMAIN Rows' = DOMAIN Rows
      BY <1>5, <1>6, Zenon
    <3> HIDE DEF Unheard
    <3>3. QED
      BY <1>7, <2>2, <3>1, <3>2, RowsMoveSends
  <2>4. QED
    BY <1>1, <1>6, <2>1, <2>3, Zenon DEF WizardInv, CampaignsFit, Aside
<1>10. QED
  BY <1>8, <1>9

-----------------------------------------------------------------------------
(* The campaign page *)

LEMMA WizardStepInv ==
  ASSUME WizardInv, [CampaignsNext]_campaignVars
  PROVE  WizardInv'
<1>1. CampaignsFit
  BY Zenon DEF WizardInv
<1>2. CASE UNCHANGED campaignVars
  BY <1>2, Zenon DEF campaignVars, WizardInv, CampaignsFit, Rows
<1>3. CASE \/ Poll \/ \E call \in campaignCalls : CampaignListArrives(call) \/ RowAnswered(call)
           \/ \E k \in 1..MaxCampaigns, action \in {"startRow", "cancel"} : RunAction(k, action)
  BY <1>1, <1>3, ListIsAside, AsideKeepsInv, Zenon
<1>4. CASE \/ \E call \in campaignCalls : ChannelsArrive(call)
           \/ \E channel \in OfficialChannels : ChooseChannel(channel)
  BY <1>1, <1>4, ChannelsAreAside, AsideKeepsInv, Zenon
<1>5. CASE HandleSubmit \/ StepBack \/ CloseWizard \/ ChooseTemplate \/ (\E kind \in {"tag", "csv"} : ChooseAudience(kind))
  BY <1>1, <1>5, StepsAreAside, AsideKeepsInv, Zenon
<1>6. CASE ReturnToCampaigns \/ \E call \in campaignCalls : TemplatesArrive(call)
  BY <1>1, <1>6, ReturnIsAside, AsideKeepsInv, Zenon
<1>7. CASE OpenWizard
  BY <1>7, OpenKeepsInv, Zenon
<1>8. CASE HandleCreate
  BY <1>8, CreateKeepsInv, Zenon
<1>9. CASE LeaveCampaigns
  BY <1>9, LeaveKeepsInv, Zenon
<1>10. ASSUME NEW call \in campaignCalls, ChainAnswered(call)
       PROVE  WizardInv'
  BY <1>10, ChainKeepsInv, Zenon
<1>11. ASSUME NEW call \in campaignCalls, CampaignServer(call)
       PROVE  WizardInv'
  <2>1. call.op \in ChainOps \/ call.op \in {"list", "channels", "templates", "startRow", "cancel"}
    BY <1>11 DEF CampaignServer, ChainOps
  <2>2. QED
    BY <1>11, <2>1, ServedKeepsInv, ReadsKeepInv, Zenon
<1>12. ASSUME NEW call \in campaignCalls, CampaignCallFails(call)
       PROVE  WizardInv'
  BY <1>12, FailureKeepsInv, Zenon
<1>13. ASSUME NEW k \in 1..MaxCampaigns, CampaignCompletes(k)
       PROVE  WizardInv'
  BY <1>13, CompletionKeepsInv, Zenon
<1>14. QED
  BY <1>2, <1>3, <1>4, <1>5, <1>6, <1>7, <1>8, <1>9, <1>10, <1>11, <1>12, <1>13, Zenon DEF CampaignsNext

LEMMA WizardInitInv ==
  ASSUME CampaignsInit \/ CampaignsClosed
  PROVE  WizardInv
<1>1. 0 \in 0..MaxActs /\ 0 \in 0..MaxLost
  BY PanelCallsAssumption
<1>2. IsPage(PageOpened(0)) /\ PageOpened(0).step = 0
  BY <1>1, OpenedFits
<1>3. IsPage(wizard) /\ wizard.step = 0
  <2>1. CASE CampaignsInit
    BY <1>2, <2>1, Zenon DEF CampaignsInit
  <2>2. CASE CampaignsClosed
    <3> DEFINE page == PageOpened(0)
               mounted == FALSE
    <3>1. wizard = [page EXCEPT !.mounted = mounted] /\ mounted \in BOOLEAN /\ IsPage(page) /\ page.step = 0
      BY <1>2, <2>2, Zenon DEF CampaignsClosed
    <3> HIDE DEF page, mounted
    <3>2. QED
      BY <3>1 DEF IsPage
  <2>3. QED
    BY <2>1, <2>2
<1>4. /\ campaignDb.channels \subseteq OfficialChannels /\ campaignDb.rows = <<>> /\ campaignDb.lost = 0
      /\ campaignDb = [channels |-> campaignDb.channels, rows |-> campaignDb.rows, lost |-> campaignDb.lost]
  <2>1. CASE CampaignsInit
    <3>1. (CHOOSE c \in OfficialChannels : TRUE) \in OfficialChannels
      BY CampaignsPageAssumption
    <3>2. QED
      BY <2>1, <3>1 DEF CampaignsInit
  <2>2. CASE CampaignsClosed
    BY <2>2 DEF CampaignsClosed
  <2>3. QED
    BY <2>1, <2>2
<1>5. IsServer(campaignDb)
  <2>1. <<>> \in Seq(ARow)
    OBVIOUS
  <2>2. QED
    BY <1>1, <1>4, <2>1 DEF IsServer
<1>6. Aside({}, campaignCalls)
  <2>1. CASE CampaignsInit
    <3>1. campaignCalls = Send({}, "list", [why |-> "open"])
      BY <2>1, Zenon DEF CampaignsInit
    <3>2. "list" \notin ChainOps /\ "list" # "templates"
      BY DEF ChainOps
    <3>3. QED
      BY <3>1, <3>2, OtherSent
  <2>2. CASE CampaignsClosed
    <3>1. campaignCalls = {}
      BY <2>2, Zenon DEF CampaignsClosed
    <3>2. QED
      BY <3>1 DEF Aside
  <2>3. QED
    BY <2>1, <2>2
<1>7. ChainsIn(campaignCalls) = {} /\ DOMAIN Rows = {} /\ ~(wizard.step > 0)
  BY <1>3, <1>4, <1>6 DEF Aside, ChainsIn, Rows
<1>8. Sends(wizard, ChainsIn(campaignCalls), Rows)
  BY <1>7 DEF Sends, Apart
<1>9. QED
  BY <1>3, <1>5, <1>6, <1>8 DEF WizardInv, CampaignsFit, Aside

(* What the wizard starts has its audience, the file being imported first, *)
(* and an opening of the wizard sends to it once, however often it is      *)
(* submitted, left or given up, unless the answer to a start was lost.     *)
THEOREM WizardSendsOnceOnly == Spec => []WizardSendsOnce
<1>1. Init => WizardInv
  BY WizardInitInv, Zenon DEF Init
<1>2. WizardInv /\ [Next]_webVars => WizardInv'
  BY PartsStep, WizardStepInv, Zenon
<1>3. WizardInv => WizardSendsOnce
  <2> SUFFICES ASSUME WizardInv
               PROVE  WizardSendsOnce
    OBVIOUS
  <2>1. Apart(Rows) /\ \A k \in DOMAIN Rows : Rows[k].by = "start" => HasAudience(Rows[k])
    BY Zenon DEF WizardInv, Sends, StartedOnce
  <2>2. QED
    BY <2>1, Zenon DEF Apart, HasAudience, WizardSendsOnce
<1>4. QED
  BY <1>1, <1>2, <1>3, PTL DEF Spec

-----------------------------------------------------------------------------
(* The flow editor *)

IsEditor(m) ==
  m \in [view : {m.view}, row : {m.row}, busy : {m.busy}, edits : {m.edits}, puts : {m.puts}, visits : {m.visits},
         canvas : {m.canvas}, selected : {m.selected}, status : {m.status}, dirty : {m.dirty},
         saving : {m.saving}, saved : {m.saved}, late : {m.late}, test : {m.test}]

IsFlow(r) == r \in [def : {r.def}, status : {r.status}, gone : {r.gone}]

IsSave(about) ==
  about \in [why : {about.why}, status : {about.status}, late : {about.late}, def : {about.def}]

(* No save changes when the flow starts.                                   *)
SavesKeepTrigger(calls, row) ==
  \A c \in calls :
    /\ IsCall(c)
    /\ c.op = "save" => IsSave(c.about) /\ c.about.def.trigger = row.def.trigger

(* The server has the drawing, or has no flow to have it.                  *)
Has(row, canvas) == row.gone \/ row.def = ToDefinition(canvas, row.def.trigger)

(* Every save on its way is of the drawing on the screen, and of one that  *)
(* was accepted the server has it.                                         *)
SavesAreOfDrawing(calls, row, canvas) ==
  \A c \in calls : c.op = "save" =>
    /\ c.about.why # "left" /\ c.about.def = ToDefinition(canvas, row.def.trigger)
    /\ c.answer \notin {Waiting, Failed} => Has(row, canvas)

(* A drawing that was not what the server has is saved again, by one save. *)
SavedAgain(calls) ==
  \E c \in calls : /\ c.op = "save" /\ c.about.late
                   /\ \A d \in calls : d.op = "save" => d = c

LabelIsTrue(m, calls, row) ==
  m.saved /\ ~m.dirty => Has(row, m.canvas) \/ (m.saving /\ SavedAgain(calls))

DrawingIsKnown(m, calls, row) ==
  m.view = "editor" /\ ~m.late => SavesAreOfDrawing(calls, row, m.canvas) /\ LabelIsTrue(m, calls, row)

EditorInv ==
  /\ IsEditor(editor) /\ IsFlow(flowRow) /\ SavesKeepTrigger(editorCalls, flowRow)
  /\ DrawingIsKnown(editor, editorCalls, flowRow)

(* The saves of the one are the saves of the other.                        *)
SameSaves(calls, calls2) ==
  /\ \A c \in calls2 : c \in calls \/ (IsCall(c) /\ c.op # "save")
  /\ \A c \in calls : c.op = "save" => c \in calls2

LEMMA SavesAlone ==
  ASSUME NEW calls, NEW calls2, SameSaves(calls, calls2)
  PROVE  /\ \A row : SavesKeepTrigger(calls, row) => SavesKeepTrigger(calls2, row)
         /\ \A row, canvas : SavesAreOfDrawing(calls, row, canvas) => SavesAreOfDrawing(calls2, row, canvas)
         /\ SavedAgain(calls) => SavedAgain(calls2)
<1>1. \A row : SavesKeepTrigger(calls, row) => SavesKeepTrigger(calls2, row)
  BY Zenon DEF SavesKeepTrigger, SameSaves
<1>2. \A row, canvas : SavesAreOfDrawing(calls, row, canvas) => SavesAreOfDrawing(calls2, row, canvas)
  BY Zenon DEF SavesAreOfDrawing, SameSaves
<1>3. SavedAgain(calls) => SavedAgain(calls2)
  BY Zenon DEF SavedAgain, SameSaves
<1>4. QED
  BY <1>1, <1>2, <1>3

LEMMA OtherCalls ==
  ASSUME NEW calls, NEW row, SavesKeepTrigger(calls, row)
  PROVE  /\ SameSaves(calls, calls)
         /\ \A op, about : op # "save" => SameSaves(calls, Send(calls, op, about))
         /\ \A call \in calls : call.op # "save" => /\ SameSaves(calls, calls \ {call})
                                                    /\ \A answer : SameSaves(calls, Answered(calls, call, answer))
         /\ \A call \in calls : \A op, about :
              call.op # "save" /\ op # "save" => SameSaves(calls, Chain(calls, call, op, about))
<1>1. ASSUME NEW some, NEW op, NEW about, op # "save"
      PROVE  SameSaves(some, Send(some, op, about))
  <2>1. \A c \in Send(some, op, about) : c \in some \/ (IsCall(c) /\ c.op # "save")
    BY <1>1, SendAddsWaiting
  <2>2. \A c \in some : c \in Send(some, op, about)
    BY DEF Send
  <2>3. QED
    BY <2>1, <2>2, Zenon DEF SameSaves
<1>2. \A call \in calls : call.op # "save" => SameSaves(calls, calls \ {call})
  BY DEF SameSaves
<1>3. ASSUME NEW call \in calls, call.op # "save", NEW answer
      PROVE  SameSaves(calls, Answered(calls, call, answer))
  <2>1. IsCall(call)
    BY Zenon DEF SavesKeepTrigger
  <2>2. \A c \in Answered(calls, call, answer) : c \in calls \/ (IsCall(c) /\ c.op = call.op)
    BY <2>1, AnsweredReplaces
  <2>3. \A c \in calls : c.op = "save" => c \in Answered(calls, call, answer)
    BY <1>3 DEF Answered
  <2>4. QED
    BY <1>3, <2>2, <2>3, Zenon DEF SameSaves
<1>4. ASSUME NEW call \in calls, call.op # "save", NEW op, NEW about, op # "save"
      PROVE  SameSaves(calls, Chain(calls, call, op, about))
  <2> DEFINE some == calls \ {call}
  <2>1. SameSaves(calls, some) /\ SameSaves(some, Send(some, op, about))
    BY <1>1, <1>2, <1>4
  <2>2. Chain(calls, call, op, about) = Send(some, op, about)
    BY DEF Chain
  <2> HIDE DEF some
  <2>3. SameSaves(calls, Send(some, op, about))
    BY <2>1, Zenon DEF SameSaves
  <2>4. QED
    BY <2>2, <2>3
<1>5. SameSaves(calls, calls)
  BY Zenon DEF SameSaves
<1>6. QED
  BY <1>1, <1>2, <1>3, <1>4, <1>5, Zenon

LEMMA EditorInvNext ==
  ASSUME IsEditor(editor'), IsFlow(flowRow'), SavesKeepTrigger(editorCalls', flowRow'),
         DrawingIsKnown(editor', editorCalls', flowRow')
  PROVE  EditorInv'
  BY Zenon DEF EditorInv

(* The drawing, its label and the saves are as they were.                  *)
LEMMA LabelStays ==
  ASSUME EditorInv, NEW m, IsEditor(m), editor' = m, UNCHANGED flowRow, SameSaves(editorCalls, editorCalls'),
         m.view = editor.view, m.canvas = editor.canvas, m.late = editor.late, m.dirty = editor.dirty,
         m.saving = editor.saving, m.saved = editor.saved
  PROVE  EditorInv'
<1>1. /\ SavesKeepTrigger(editorCalls', flowRow)
      /\ \A canvas : SavesAreOfDrawing(editorCalls, flowRow, canvas)
                     => SavesAreOfDrawing(editorCalls', flowRow, canvas)
      /\ SavedAgain(editorCalls) => SavedAgain(editorCalls')
  BY SavesAlone, Zenon DEF EditorInv
<1>2. DrawingIsKnown(editor, editorCalls, flowRow) /\ IsFlow(flowRow)
  BY Zenon DEF EditorInv
<1>3. LabelIsTrue(editor, editorCalls, flowRow) => LabelIsTrue(m, editorCalls', flowRow)
  BY <1>1 DEF LabelIsTrue
<1>4. DrawingIsKnown(m, editorCalls', flowRow)
  BY <1>1, <1>2, <1>3 DEF DrawingIsKnown
<1>5. QED
  BY <1>1, <1>2, <1>4, EditorInvNext

(* Whatever is drawn, no save on its way is of it.                         *)
LEMMA ChangedKeepsEditor ==
  ASSUME EditorInv, NEW canvas, NEW selected, Changed(canvas, selected)
  PROVE  EditorInv'
<1> DEFINE late == editor.late \/ Saves # {}
           n == editor.edits - 1
           m == [editor EXCEPT !.canvas = canvas, !.selected = selected, !.dirty = TRUE, !.late = late, !.edits = n]
<1>1. editor' = m /\ UNCHANGED <<editorCalls, flowRow>>
  BY Zenon DEF Changed
<1>2. ~late => \A c \in editorCalls : c.op # "save"
  BY DEF Saves
<1>3. IsEditor(editor) /\ IsFlow(flowRow) /\ SavesKeepTrigger(editorCalls, flowRow)
  BY Zenon DEF EditorInv
<1> HIDE DEF late, n
<1>4. IsEditor(m) /\ m.dirty /\ m.late = late
  BY <1>3 DEF IsEditor
<1> HIDE DEF m
<1>5. DrawingIsKnown(m, editorCalls, flowRow)
  BY <1>2, <1>4 DEF DrawingIsKnown, SavesAreOfDrawing, LabelIsTrue
<1>6. QED
  BY <1>1, <1>3, <1>4, <1>5, EditorInvNext

LEMMA DrawingKeepsEditor ==
  ASSUME EditorInv,
         \/ \E type \in Palette, click \in BOOLEAN : AddNode(type, click)
         \/ \E complete \in SUBSET Readers : UpdateSelected(complete)
         \/ DuplicateSelected \/ DeleteSelected \/ Arrange
         \/ \E k \in DOMAIN Canvas.edges : DeleteEdge(k)
         \/ \E source, target \in CanvasIds(Canvas), handle \in Handles : OnConnect(source, handle, target)
  PROVE  EditorInv'
<1>1. PICK canvas, selected : Changed(canvas, selected)
  BY Zenon DEF AddNode, UpdateSelected, DuplicateSelected, DeleteSelected, Arrange, DeleteEdge, OnConnect
<1>2. QED
  BY <1>1, ChangedKeepsEditor

(* A save sends the drawing as it is at that moment.                       *)
LEMMA PersistKeepsEditor ==
  ASSUME EditorInv, NEW status, NEW why, Persist(status, why), why # "left",
         editor.saving => editor.dirty, UNCHANGED flowRow
  PROVE  EditorInv'
<1> DEFINE late == editor.late /\ Saves # {}
           n == editor.puts - 1
           test == IF why = "test" THEN "running" ELSE editor.test
           def == ToDefinition(Canvas, flowRow.def.trigger)
           about == [why |-> why, status |-> status, late |-> editor.late, def |-> def]
           m == [editor EXCEPT !.saving = TRUE, !.puts = n, !.late = late, !.test = test]
           new == [slot |-> FreeSlot(editorCalls), op |-> "save", about |-> about, answer |-> Waiting]
<1>1. editor' = m
  BY Zenon DEF Persist
<1>2. editorCalls' = editorCalls \cup {new}
  BY Zenon DEF Persist, Send
<1>3. def.trigger = flowRow.def.trigger
  BY DEF ToDefinition
<1> HIDE DEF def
<1>4. /\ about.why = why /\ about.late = editor.late /\ about.def = def
      /\ IsSave(about)
  BY DEF IsSave
<1> HIDE DEF about
<1>5. IsCall(new) /\ new.op = "save" /\ new.about = about /\ new.answer = Waiting
  BY DEF IsCall
<1>6. /\ ~late /\ editor.late => \A c \in editorCalls : c.op # "save"
      /\ ~editor.late => ~late
      /\ ~late => ~editor.late \/ editor.late
  BY DEF Saves
<1> HIDE DEF late, n, test, new
<1>7. IsEditor(editor) /\ IsFlow(flowRow) /\ SavesKeepTrigger(editorCalls, flowRow)
      /\ DrawingIsKnown(editor, editorCalls, flowRow)
  BY Zenon DEF EditorInv
<1>8. /\ IsEditor(m) /\ m.late = late /\ m.saving = TRUE /\ m.view = editor.view /\ m.canvas = editor.canvas
      /\ m.dirty = editor.dirty /\ m.saved = editor.saved
  BY <1>7 DEF IsEditor
<1> HIDE DEF m
<1>9. SavesKeepTrigger(editorCalls', flowRow)
  BY <1>2, <1>3, <1>4, <1>5, <1>7 DEF SavesKeepTrigger
<1>10. ASSUME m.view = "editor", ~late
       PROVE  SavesAreOfDrawing(editorCalls', flowRow, m.canvas) /\ LabelIsTrue(m, editorCalls', flowRow)
  <2>1. def = ToDefinition(m.canvas, flowRow.def.trigger)
    BY <1>8 DEF def, Canvas
  <2>2. Waiting \in {Waiting, Failed}
    OBVIOUS
  <2>3. CASE editor.late
    <3>1. \A c \in editorCalls : c.op # "save"
      BY <1>6, <1>10, <2>3
    <3>2. SavesAreOfDrawing(editorCalls', flowRow, m.canvas)
      BY <1>2, <1>4, <1>5, <2>1, <2>2, <3>1 DEF SavesAreOfDrawing
    <3>3. new.about.late
      BY <1>4, <1>5, <2>3
    <3>4. SavedAgain(editorCalls')
      BY <1>2, <1>5, <3>1, <3>3 DEF SavedAgain
    <3>5. QED
      BY <1>8, <3>2, <3>4 DEF LabelIsTrue
  <2>4. CASE ~editor.late
    <3>1. SavesAreOfDrawing(editorCalls, flowRow, m.canvas) /\ LabelIsTrue(editor, editorCalls, flowRow)
      BY <1>7, <1>8, <1>10, <2>4, Zenon DEF DrawingIsKnown
    <3>2. SavesAreOfDrawing(editorCalls', flowRow, m.canvas)
      BY <1>2, <1>4, <1>5, <2>1, <2>2, <3>1 DEF SavesAreOfDrawing
    <3>3. LabelIsTrue(m, editorCalls', flowRow)
      BY <1>8, <3>1 DEF LabelIsTrue
    <3>4. QED
      BY <3>2, <3>3
  <2>5. QED
    BY <2>3, <2>4
<1>11. DrawingIsKnown(m, editorCalls', flowRow)
  BY <1>8, <1>10 DEF DrawingIsKnown
<1>12. QED
  BY <1>1, <1>7, <1>8, <1>9, <1>11, EditorInvNext

(* The toolbar, the dialog of a test and the list.                         *)
LEMMA ToolbarKeepsEditor ==
  ASSUME EditorInv,
         \/ Save \/ ToggleActive \/ OpenTest \/ CloseTest \/ RunTest
         \/ \E id \in CanvasIds(Canvas) \cup {""} : SelectStep(id)
         \/ \E verb \in {"toggle", "remove"} : FlowWrite(verb)
  PROVE  EditorInv'
<1> DEFINE n == editor.puts - 1
<1>0. IsEditor(editor) /\ SavesKeepTrigger(editorCalls, flowRow) /\ SameSaves(editorCalls, editorCalls)
  BY OtherCalls, Zenon DEF EditorInv
<1> HIDE DEF n
<1>1. "save" # "left" /\ "test" # "left"
  OBVIOUS
<1>2. CASE Save
  BY <1>1, <1>2, PersistKeepsEditor, Zenon DEF Save
<1>3. CASE ToggleActive
  BY <1>1, <1>3, PersistKeepsEditor, Zenon DEF ToggleActive
<1>4. CASE OpenTest
  <2> DEFINE m == [editor EXCEPT !.test = "open"]
  <2>1. editor' = m /\ UNCHANGED <<editorCalls, flowRow>>
    BY <1>4, Zenon DEF OpenTest
  <2>2. /\ IsEditor(m) /\ m.view = editor.view /\ m.canvas = editor.canvas /\ m.late = editor.late
        /\ m.dirty = editor.dirty /\ m.saving = editor.saving /\ m.saved = editor.saved
    BY <1>0 DEF IsEditor
  <2> HIDE DEF m
  <2>3. QED
    BY <1>0, <2>1, <2>2, LabelStays
<1>5. CASE CloseTest
  <2> DEFINE m == [editor EXCEPT !.test = "closed"]
  <2>1. editor' = m /\ UNCHANGED <<editorCalls, flowRow>>
    BY <1>5, Zenon DEF CloseTest
  <2>2. /\ IsEditor(m) /\ m.view = editor.view /\ m.canvas = editor.canvas /\ m.late = editor.late
        /\ m.dirty = editor.dirty /\ m.saving = editor.saving /\ m.saved = editor.saved
    BY <1>0 DEF IsEditor
  <2> HIDE DEF m
  <2>3. QED
    BY <1>0, <2>1, <2>2, LabelStays
<1>6. CASE RunTest
  <2>1. CASE editor.dirty /\ Persist(editor.status, "test")
    BY <1>1, <1>6, <2>1, PersistKeepsEditor, Zenon DEF RunTest
  <2>2. CASE ~editor.dirty
    <3> DEFINE m == [editor EXCEPT !.test = "running", !.puts = n]
               about == [why |-> "test"]
    <3>1. editor' = m /\ editorCalls' = Send(editorCalls, "execute", about) /\ UNCHANGED flowRow
      BY <1>6, <2>2, Zenon DEF RunTest, n
    <3> HIDE DEF about
    <3>2. SameSaves(editorCalls, editorCalls')
      BY <1>0, <3>1, OtherCalls
    <3>3. /\ IsEditor(m) /\ m.view = editor.view /\ m.canvas = editor.canvas /\ m.late = editor.late
          /\ m.dirty = editor.dirty /\ m.saving = editor.saving /\ m.saved = editor.saved
      BY <1>0 DEF IsEditor
    <3> HIDE DEF m
    <3>4. QED
      BY <1>0, <3>1, <3>2, <3>3, LabelStays
  <2>3. QED
    BY <1>6, <2>1, <2>2, Zenon DEF RunTest
<1>7. ASSUME NEW id, SelectStep(id)
      PROVE  EditorInv'
  <2> DEFINE m == [editor EXCEPT !.selected = id]
  <2>1. editor' = m /\ UNCHANGED <<editorCalls, flowRow>>
    BY <1>7, Zenon DEF SelectStep
  <2>2. /\ IsEditor(m) /\ m.view = editor.view /\ m.canvas = editor.canvas /\ m.late = editor.late
        /\ m.dirty = editor.dirty /\ m.saving = editor.saving /\ m.saved = editor.saved
    BY <1>0 DEF IsEditor
  <2> HIDE DEF m
  <2>3. QED
    BY <1>0, <2>1, <2>2, LabelStays
<1>8. ASSUME NEW verb \in {"toggle", "remove"}, FlowWrite(verb)
      PROVE  EditorInv'
  <2> DEFINE m == [editor EXCEPT !.busy = TRUE, !.puts = n]
             about == [why |-> editor.row[1].status]
  <2>1. editor' = m /\ editorCalls' = Send(editorCalls, verb, about) /\ UNCHANGED flowRow
    BY <1>8, Zenon DEF FlowWrite, n
  <2> HIDE DEF about
  <2>2. SameSaves(editorCalls, editorCalls')
    BY <1>0, <1>8, <2>1, OtherCalls
  <2>3. /\ IsEditor(m) /\ m.view = editor.view /\ m.canvas = editor.canvas /\ m.late = editor.late
        /\ m.dirty = editor.dirty /\ m.saving = editor.saving /\ m.saved = editor.saved
    BY <1>0 DEF IsEditor
  <2> HIDE DEF m
  <2>4. QED
    BY <1>0, <2>1, <2>2, <2>3, LabelStays
<1>9. QED
  BY <1>2, <1>3, <1>4, <1>5, <1>6, <1>7, <1>8, Zenon

(* A visit begins without a label, and knows of no save of its own.        *)
LEMMA VisitsKeepEditor ==
  ASSUME EditorInv, OpenFlow \/ LeaveEditor
  PROVE  EditorInv'
<1>0. IsEditor(editor) /\ IsFlow(flowRow) /\ SavesKeepTrigger(editorCalls, flowRow)
  BY Zenon DEF EditorInv
<1>1. CASE OpenFlow
  <2> DEFINE late == Saves # {}
             n == editor.visits - 1
             canvas == ToCanvas(editor.row[1].def, "start")
             status == editor.row[1].status
             m == [editor EXCEPT !.view = "editor", !.visits = n, !.canvas = canvas, !.status = status,
                                 !.selected = "", !.dirty = FALSE, !.saving = FALSE, !.saved = FALSE,
                                 !.late = late, !.test = "closed"]
  <2>1. editor' = m /\ UNCHANGED <<editorCalls, flowRow>>
    BY <1>1, Zenon DEF OpenFlow
  <2>2. ~late => \A c \in editorCalls : c.op # "save"
    BY DEF Saves
  <2> HIDE DEF late, n, canvas, status
  <2>3. IsEditor(m) /\ m.late = late /\ m.saved = FALSE
    BY <1>0 DEF IsEditor
  <2> HIDE DEF m
  <2>4. DrawingIsKnown(m, editorCalls, flowRow)
    BY <2>2, <2>3 DEF DrawingIsKnown, SavesAreOfDrawing, LabelIsTrue
  <2>5. QED
    BY <1>0, <2>1, <2>3, <2>4, EditorInvNext
<1>2. CASE LeaveEditor
  <2> DEFINE m == ListView(editor.row, editor.busy, editor)
             left == {Left(c) : c \in editorCalls}
             about == [why |-> "back"]
  <2>1. editor' = m /\ editorCalls' = Send(left, "list", about) /\ UNCHANGED flowRow
    BY <1>2, Zenon DEF LeaveEditor
  <2>2. IsEditor(m) /\ m.view = "list"
    BY DEF ListView, IsEditor
  <2>3. ASSUME NEW c \in editorCalls
        PROVE  /\ IsCall(Left(c))
               /\ Left(c).op = "save" => IsSave(Left(c).about) /\ Left(c).about.def.trigger = flowRow.def.trigger
    <3>1. IsCall(c) /\ (c.op = "save" => IsSave(c.about) /\ c.about.def.trigger = flowRow.def.trigger)
      BY <1>0, Zenon DEF SavesKeepTrigger
    <3>2. CASE c.op # "save"
      BY <3>1, <3>2 DEF Left
    <3>3. CASE c.op = "save"
      <4> DEFINE was == c.about
                 now == [was EXCEPT !.why = "left"]
      <4>1. IsSave(now) /\ now.def = was.def
        BY <3>1, <3>3 DEF IsSave
      <4>2. Left(c) = [c EXCEPT !.about = now]
        BY <3>1, <3>3 DEF Left, IsCall
      <4> HIDE DEF now
      <4>3. IsCall(Left(c)) /\ Left(c).about = now
        BY <3>1, <4>2 DEF IsCall
      <4>4. QED
        BY <3>1, <3>3, <4>1, <4>3
    <3>4. QED
      BY <3>2, <3>3
  <2>4. SavesKeepTrigger(left, flowRow)
    BY <2>3 DEF SavesKeepTrigger
  <2> HIDE DEF left, about, m
  <2>5. SavesKeepTrigger(editorCalls', flowRow)
    <3>1. SameSaves(left, editorCalls')
      BY <2>1, <2>4, OtherCalls
    <3>2. QED
      BY <2>4, <3>1, SavesAlone
  <2>6. DrawingIsKnown(m, editorCalls', flowRow)
    BY <2>2 DEF DrawingIsKnown
  <2>7. QED
    BY <1>0, <2>1, <2>2, <2>5, <2>6, EditorInvNext
<1>3. QED
  BY <1>1, <1>2

(* Answers that are not those of a save.                                   *)
LEMMA OtherAnswersKeepEditor ==
  ASSUME EditorInv, NEW call \in editorCalls,
         FlowListArrives(call) \/ FlowWriteAnswered(call) \/ TestAnswered(call)
  PROVE  EditorInv'
<1>0. IsEditor(editor) /\ SavesKeepTrigger(editorCalls, flowRow)
  BY Zenon DEF EditorInv
<1>1. CASE FlowListArrives(call)
  <2> DEFINE row == IF call.answer = Failed THEN editor.row ELSE call.answer.result.rows
             busy == editor.busy /\ call.about.why # "write"
             m == [editor EXCEPT !.row = row, !.busy = busy]
  <2>1. editor' = m /\ editorCalls' = editorCalls \ {call} /\ UNCHANGED flowRow
    BY <1>1, Zenon DEF FlowListArrives
  <2>2. call.op # "save"
    BY <1>1 DEF FlowListArrives, Done
  <2>3. SameSaves(editorCalls, editorCalls')
    BY <1>0, <2>1, <2>2, OtherCalls
  <2> HIDE DEF row, busy
  <2>4. /\ IsEditor(m) /\ m.view = editor.view /\ m.canvas = editor.canvas /\ m.late = editor.late
        /\ m.dirty = editor.dirty /\ m.saving = editor.saving /\ m.saved = editor.saved
    BY <1>0 DEF IsEditor
  <2> HIDE DEF m
  <2>5. QED
    BY <1>0, <2>1, <2>3, <2>4, LabelStays
<1>2. CASE FlowWriteAnswered(call)
  <2> DEFINE busy == call.answer # Failed
             about == [why |-> "write"]
             m == [editor EXCEPT !.busy = busy]
  <2>1. /\ editor' = m /\ UNCHANGED flowRow
        /\ editorCalls' = editorCalls \ {call} \/ editorCalls' = Chain(editorCalls, call, "list", about)
    BY <1>2, Zenon DEF FlowWriteAnswered
  <2>2. call.op # "save" /\ "list" # "save"
    BY <1>2 DEF FlowWriteAnswered, Done
  <2> HIDE DEF about
  <2>3. SameSaves(editorCalls, editorCalls')
    BY <1>0, <2>1, <2>2, OtherCalls
  <2> HIDE DEF busy
  <2>4. /\ IsEditor(m) /\ m.view = editor.view /\ m.canvas = editor.canvas /\ m.late = editor.late
        /\ m.dirty = editor.dirty /\ m.saving = editor.saving /\ m.saved = editor.saved
    BY <1>0 DEF IsEditor
  <2> HIDE DEF m
  <2>5. QED
    BY <1>0, <2>1, <2>3, <2>4, LabelStays
<1>3. CASE TestAnswered(call)
  <2> DEFINE test == IF call.answer = Failed THEN "open" ELSE "closed"
             selected == IF call.answer = Failed THEN editor.selected ELSE ""
             m == [editor EXCEPT !.test = test, !.selected = selected]
  <2>1. editor' = m /\ editorCalls' = editorCalls \ {call} /\ UNCHANGED flowRow
    BY <1>3, Zenon DEF TestAnswered
  <2>2. call.op # "save"
    BY <1>3 DEF TestAnswered, Done
  <2>3. SameSaves(editorCalls, editorCalls')
    BY <1>0, <2>1, <2>2, OtherCalls
  <2> HIDE DEF test, selected
  <2>4. /\ IsEditor(m) /\ m.view = editor.view /\ m.canvas = editor.canvas /\ m.late = editor.late
        /\ m.dirty = editor.dirty /\ m.saving = editor.saving /\ m.saved = editor.saved
    BY <1>0 DEF IsEditor
  <2> HIDE DEF m
  <2>5. QED
    BY <1>0, <2>1, <2>3, <2>4, LabelStays
<1>4. QED
  BY <1>1, <1>2, <1>3

LEMMA FewerSaves ==
  ASSUME NEW calls, NEW fewer \in SUBSET calls
  PROVE  /\ \A row : SavesKeepTrigger(calls, row) => SavesKeepTrigger(fewer, row)
         /\ \A row, canvas : SavesAreOfDrawing(calls, row, canvas) => SavesAreOfDrawing(fewer, row, canvas)
  BY Zenon DEF SavesKeepTrigger, SavesAreOfDrawing

(* A save that was accepted is of the drawing, unless it changed since; of *)
(* one that was not, nothing is known, if it was to put the label right.   *)
LEMMA SaveAnsweredKeepsEditor ==
  ASSUME EditorInv, NEW call \in editorCalls, SaveAnswered(call)
  PROVE  EditorInv'
<1> DEFINE fewer == editorCalls \ {call}
<1>0. /\ IsEditor(editor) /\ IsFlow(flowRow) /\ SavesKeepTrigger(editorCalls, flowRow)
      /\ DrawingIsKnown(editor, editorCalls, flowRow)
  BY Zenon DEF EditorInv
<1>1. fewer \in SUBSET editorCalls
  OBVIOUS
<1> HIDE DEF fewer
<1>2. /\ SavesKeepTrigger(fewer, flowRow)
      /\ \A canvas : SavesAreOfDrawing(editorCalls, flowRow, canvas) => SavesAreOfDrawing(fewer, flowRow, canvas)
  BY <1>0, <1>1, FewerSaves, Zenon
<1>3. call.op = "save" /\ call.answer # Waiting /\ UNCHANGED flowRow
  BY DEF SaveAnswered, Done
<1>4. CASE call.answer = Failed
  <2> DEFINE late == editor.late \/ call.about.late
             test == IF call.about.why = "test" THEN "open" ELSE editor.test
             m == [editor EXCEPT !.saving = FALSE, !.late = late, !.test = test]
  <2>1. editor' = m /\ editorCalls' = fewer
    BY <1>4, Zenon DEF SaveAnswered, fewer
  <2>2. ~late => ~editor.late /\ ~call.about.late
    OBVIOUS
  <2> HIDE DEF late, test
  <2>3. /\ IsEditor(m) /\ m.view = editor.view /\ m.canvas = editor.canvas /\ m.late = late
        /\ m.dirty = editor.dirty /\ m.saved = editor.saved
    BY <1>0 DEF IsEditor
  <2> HIDE DEF m
  <2>4. ASSUME m.view = "editor", ~late
        PROVE  SavesAreOfDrawing(fewer, flowRow, m.canvas) /\ LabelIsTrue(m, fewer, flowRow)
    <3>1. SavesAreOfDrawing(editorCalls, flowRow, m.canvas) /\ LabelIsTrue(editor, editorCalls, flowRow)
      BY <1>0, <2>2, <2>3, <2>4, Zenon DEF DrawingIsKnown
    <3>2. ~SavedAgain(editorCalls)
      BY <1>3, <2>2, <2>4 DEF SavedAgain
    <3>3. LabelIsTrue(m, fewer, flowRow)
      BY <2>3, <3>1, <3>2 DEF LabelIsTrue
    <3>4. QED
      BY <1>2, <3>1, <3>3
  <2>5. DrawingIsKnown(m, fewer, flowRow)
    BY <2>3, <2>4 DEF DrawingIsKnown
  <2>6. QED
    BY <1>0, <1>2, <1>3, <2>1, <2>3, <2>5, EditorInvNext
<1>5. CASE call.answer # Failed
  <2> DEFINE status == call.answer.result.status
             m == [editor EXCEPT !.saving = FALSE, !.dirty = FALSE, !.saved = TRUE, !.status = status]
  <2>1. editor' = m
    BY <1>5, Zenon DEF SaveAnswered
  <2>2. PICK op, about : op \in {"execute", "list"} /\ editorCalls' = Send(fewer, op, about)
    BY <1>5 DEF SaveAnswered, Chain, fewer
  <2> HIDE DEF status
  <2>3. IsEditor(m) /\ m.view = editor.view /\ m.canvas = editor.canvas /\ m.late = editor.late
    BY <1>0 DEF IsEditor
  <2> HIDE DEF m
  <2>4. SameSaves(fewer, editorCalls')
    <3>1. op # "save"
      BY <2>2
    <3>2. QED
      BY <1>2, <2>2, <3>1, OtherCalls
  <2>5. /\ SavesKeepTrigger(editorCalls', flowRow)
        /\ \A canvas : SavesAreOfDrawing(fewer, flowRow, canvas)
                       => SavesAreOfDrawing(editorCalls', flowRow, canvas)
    BY <1>2, <2>4, SavesAlone, Zenon
  <2>6. ASSUME m.view = "editor", ~m.late
        PROVE  SavesAreOfDrawing(editorCalls', flowRow, m.canvas) /\ LabelIsTrue(m, editorCalls', flowRow)
    <3>1. SavesAreOfDrawing(editorCalls, flowRow, m.canvas)
      BY <1>0, <2>3, <2>6 DEF DrawingIsKnown
    <3>2. call.answer \notin {Waiting, Failed}
      BY <1>3, <1>5
    <3>3. Has(flowRow, m.canvas)
      BY <1>3, <3>1, <3>2, Zenon DEF SavesAreOfDrawing
    <3>4. QED
      BY <1>2, <2>5, <3>1, <3>3, Zenon DEF LabelIsTrue
  <2>7. DrawingIsKnown(m, editorCalls', flowRow)
    BY <2>6, Zenon DEF DrawingIsKnown
  <2>8. QED
    BY <1>0, <1>3, <2>1, <2>3, <2>5, <2>7, EditorInvNext
<1>6. QED
  BY <1>4, <1>5

LEMMA AnsweredSaves ==
  ASSUME NEW calls, NEW call \in calls, IsCall(call), NEW answer, NEW calls2, calls2 = Answered(calls, call, answer)
  PROVE  /\ \A row : SavesKeepTrigger(calls, row) => SavesKeepTrigger(calls2, row)
         /\ \A row, canvas : /\ SavesAreOfDrawing(calls, row, canvas)
                             /\ call.op = "save" /\ answer \notin {Waiting, Failed} => Has(row, canvas)
                             => SavesAreOfDrawing(calls2, row, canvas)
         /\ SavedAgain(calls) => SavedAgain(calls2)
<1> DEFINE new == [slot |-> call.slot, op |-> call.op, about |-> call.about, answer |-> answer]
<1>1. calls2 = (calls \ {call}) \cup {new}
  BY AnswerKeepsCall, Zenon DEF Answered
<1>2. IsCall(new) /\ new.op = call.op /\ new.about = call.about /\ new.answer = answer
  BY DEF IsCall
<1> HIDE DEF new
<1>3. \A row : SavesKeepTrigger(calls, row) => SavesKeepTrigger(calls2, row)
  BY <1>1, <1>2 DEF SavesKeepTrigger
<1>4. ASSUME NEW row, NEW canvas, SavesAreOfDrawing(calls, row, canvas),
             call.op = "save" /\ answer \notin {Waiting, Failed} => Has(row, canvas)
      PROVE  SavesAreOfDrawing(calls2, row, canvas)
  BY <1>1, <1>2, <1>4 DEF SavesAreOfDrawing
<1>5. ASSUME SavedAgain(calls)
      PROVE  SavedAgain(calls2)
  <2>1. PICK c \in calls : c.op = "save" /\ c.about.late /\ \A d \in calls : d.op = "save" => d = c
    BY <1>5, Zenon DEF SavedAgain
  <2>2. CASE call.op = "save"
    <3>1. call = c
      BY <2>1, <2>2
    <3>2. new.op = "save" /\ new.about.late /\ \A d \in calls2 : d.op = "save" => d = new
      BY <1>1, <1>2, <2>1, <3>1
    <3>3. new \in calls2
      BY <1>1
    <3>4. QED
      BY <3>2, <3>3, Zenon DEF SavedAgain
  <2>3. CASE call.op # "save"
    <3>1. c \in calls2 /\ \A d \in calls2 : d.op = "save" => d = c
      BY <1>1, <1>2, <2>1, <2>3
    <3>2. QED
      BY <2>1, <3>1, Zenon DEF SavedAgain
  <2>4. QED
    BY <2>2, <2>3
<1>6. QED
  BY <1>3, <1>4, <1>5, Zenon

(* The server answers a call and has, afterwards, what an accepted save    *)
(* was of, or what it had.                                                 *)
LEMMA ReplyKeepsEditor ==
  ASSUME EditorInv, NEW call \in editorCalls, NEW answer, editorCalls' = Answered(editorCalls, call, answer),
         UNCHANGED editor, IsFlow(flowRow'),
         \/ flowRow' = flowRow
         \/ flowRow'.gone /\ flowRow'.def = flowRow.def
         \/ flowRow'.gone = flowRow.gone /\ flowRow'.def = flowRow.def
         \/ call.op = "save" /\ flowRow'.def = call.about.def,
         call.op = "save" => answer \in {Waiting, Failed} \/ flowRow'.def = call.about.def
  PROVE  EditorInv'
<1>0. /\ IsEditor(editor) /\ IsFlow(flowRow) /\ SavesKeepTrigger(editorCalls, flowRow)
      /\ DrawingIsKnown(editor, editorCalls, flowRow)
  BY Zenon DEF EditorInv
<1>1. IsCall(call) /\ (call.op = "save" => call.about.def.trigger = flowRow.def.trigger)
  BY <1>0, Zenon DEF SavesKeepTrigger
<1>2. flowRow'.def.trigger = flowRow.def.trigger
  BY <1>1
<1>3. SavesKeepTrigger(editorCalls', flowRow) /\ (SavedAgain(editorCalls) => SavedAgain(editorCalls'))
  BY <1>0, <1>1, AnsweredSaves
<1>4. SavesKeepTrigger(editorCalls', flowRow')
  BY <1>2, <1>3 DEF SavesKeepTrigger
<1>5. ASSUME editor.view = "editor", ~editor.late
      PROVE  SavesAreOfDrawing(editorCalls', flowRow', editor.canvas) /\ LabelIsTrue(editor, editorCalls', flowRow')
  <2> DEFINE canvas == editor.canvas
             drawing == ToDefinition(canvas, flowRow.def.trigger)
  <2>1. SavesAreOfDrawing(editorCalls, flowRow, canvas) /\ LabelIsTrue(editor, editorCalls, flowRow)
    BY <1>0, <1>5, Zenon DEF DrawingIsKnown
  <2>2. call.op = "save" => call.about.def = drawing
    BY <2>1, Zenon DEF SavesAreOfDrawing
  <2>3. Has(flowRow, canvas) => Has(flowRow', canvas)
    BY <1>2, <2>2 DEF Has
  <2>4. call.op = "save" /\ answer \notin {Waiting, Failed} => Has(flowRow', canvas)
    BY <1>2, <2>2 DEF Has
  <2>5. SavesAreOfDrawing(editorCalls, flowRow', canvas)
    BY <1>2, <2>1, <2>3 DEF SavesAreOfDrawing
  <2>6. SavesAreOfDrawing(editorCalls', flowRow', canvas)
    BY <1>1, <2>4, <2>5, AnsweredSaves, Zenon
  <2>7. LabelIsTrue(editor, editorCalls', flowRow')
    BY <1>3, <2>1, <2>3, Zenon DEF LabelIsTrue
  <2>8. QED
    BY <2>6, <2>7
<1>6. DrawingIsKnown(editor, editorCalls', flowRow')
  BY <1>5, Zenon DEF DrawingIsKnown
<1>7. QED
  BY <1>0, <1>4, <1>6, EditorInvNext

LEMMA EditorServerKeepsEditor ==
  ASSUME EditorInv, NEW call \in editorCalls,
         EditorServer(call) \/ EditorAnswerLost(call) \/ LateAnswer(call)
  PROVE  EditorInv'
<1>0. /\ IsEditor(editor) /\ IsFlow(flowRow) /\ SavesKeepTrigger(editorCalls, flowRow)
      /\ DrawingIsKnown(editor, editorCalls, flowRow)
  BY Zenon DEF EditorInv
<1>1. ASSUME NEW answer, editorCalls' = Answered(editorCalls, call, answer), UNCHANGED <<editor, flowRow>>,
             call.op # "save"
      PROVE  EditorInv'
  BY <1>0, <1>1, ReplyKeepsEditor
<1>2. ASSUME NEW ok, Reply(call, ok)
      PROVE  \E answer : /\ editorCalls' = Answered(editorCalls, call, answer)
                         /\ ~ok => answer = Failed
  BY <1>2, Zenon DEF Reply
<1>3. CASE EditorServer(call)
  <2>1. CASE call.op = "list"
    <3>1. \E answer : editorCalls' = Answered(editorCalls, call, answer)
      BY <1>3, <2>1 DEF EditorServer
    <3>2. UNCHANGED <<editor, flowRow>>
      BY <1>3, <2>1 DEF EditorServer
    <3>3. QED
      BY <1>1, <2>1, <3>1, <3>2
  <2>2. CASE call.op = "execute"
    <3>1. Reply(call, ~flowRow.gone) /\ UNCHANGED <<editor, flowRow>>
      BY <1>3, <2>2 DEF EditorServer
    <3>2. QED
      BY <1>1, <1>2, <2>2, <3>1
  <2>3. CASE call.op = "remove"
    <3>1. Reply(call, TRUE) /\ UNCHANGED editor /\ flowRow' = [flowRow EXCEPT !.gone = TRUE]
      BY <1>3, <2>3 DEF EditorServer
    <3>2. IsFlow(flowRow') /\ flowRow'.gone /\ flowRow'.def = flowRow.def
      BY <1>0, <3>1 DEF IsFlow
    <3>3. PICK answer : editorCalls' = Answered(editorCalls, call, answer)
      BY <1>2, <3>1
    <3>4. call.op # "save"
      BY <2>3
    <3>5. QED
      BY <3>1, <3>2, <3>3, <3>4, ReplyKeepsEditor
  <2>4. CASE call.op \in {"save", "toggle"}
    <3> DEFINE toggled == IF call.about.why = "active" THEN "inactive" ELSE "active"
               def == IF call.op = "save" THEN call.about.def ELSE flowRow.def
               status == IF call.op = "save" THEN call.about.status ELSE toggled
    <3>1. ServerStores(call) /\ UNCHANGED editor
      BY <1>3, <2>4 DEF EditorServer
    <3>2. Stores(def, status) /\ Reply(call, Accepts(def, status))
      BY <3>1, Zenon DEF ServerStores
    <3>3. (call.op = "save" => def = call.about.def) /\ (call.op # "save" => def = flowRow.def)
      OBVIOUS
    <3> HIDE DEF def, status
    <3>4. PICK answer : /\ editorCalls' = Answered(editorCalls, call, answer)
                        /\ ~Accepts(def, status) => answer = Failed
      BY <3>2, Zenon DEF Reply
    <3>5. CASE Accepts(def, status)
      <4>1. flowRow' = [flowRow EXCEPT !.def = def, !.status = status]
        BY <3>2, <3>5, Zenon DEF Accepts, Stores
      <4>2. IsFlow(flowRow') /\ flowRow'.def = def /\ flowRow'.gone = flowRow.gone
        BY <1>0, <4>1 DEF IsFlow
      <4>3. QED
        BY <3>1, <3>3, <3>4, <4>2, ReplyKeepsEditor
    <3>6. CASE ~Accepts(def, status)
      <4>1. flowRow' = flowRow
        BY <3>2, <3>6, Zenon DEF Accepts, Stores
      <4>2. answer \in {Waiting, Failed}
        BY <3>4, <3>6
      <4>3. QED
        BY <1>0, <3>1, <3>4, <4>1, <4>2, ReplyKeepsEditor
    <3>7. QED
      BY <3>5, <3>6
  <2>5. QED
    BY <1>3, <2>1, <2>2, <2>3, <2>4, Zenon DEF EditorServer
<1>4. CASE EditorAnswerLost(call)
  <2>1. editorCalls' = Answered(editorCalls, call, Failed) /\ UNCHANGED <<editor, flowRow>>
    BY <1>4, Zenon DEF EditorAnswerLost
  <2>2. Failed \in {Waiting, Failed}
    OBVIOUS
  <2>3. QED
    BY <1>0, <2>1, <2>2, ReplyKeepsEditor
<1>5. CASE LateAnswer(call)
  <2> DEFINE fewer == editorCalls \ {call}
  <2>1. fewer \in SUBSET editorCalls
    OBVIOUS
  <2> HIDE DEF fewer
  <2>2. editorCalls' = fewer /\ UNCHANGED <<editor, flowRow>>
    BY <1>5, Zenon DEF LateAnswer, fewer
  <2>3. call.op = "save" /\ call.about.why = "left"
    BY <1>5 DEF LateAnswer, Done
  <2>4. SavesKeepTrigger(fewer, flowRow)
    BY <1>0, <2>1, FewerSaves, Zenon
  <2>5. editor.view = "editor" => editor.late
    BY <1>0, <2>3, Zenon DEF DrawingIsKnown, SavesAreOfDrawing
  <2>6. DrawingIsKnown(editor, fewer, flowRow)
    BY <2>5, Zenon DEF DrawingIsKnown
  <2>7. QED
    BY <1>0, <2>2, <2>4, <2>6, EditorInvNext
<1>6. QED
  BY <1>3, <1>4, <1>5

LEMMA EditorStepInv ==
  ASSUME EditorInv, [EditorNext]_editorVars
  PROVE  EditorInv'
<1>1. CASE EditorNext
  BY <1>1, ToolbarKeepsEditor, DrawingKeepsEditor, VisitsKeepEditor, OtherAnswersKeepEditor,
     SaveAnsweredKeepsEditor, EditorServerKeepsEditor, Zenon DEF EditorNext
<1>2. CASE UNCHANGED editorVars
  BY <1>2, Zenon DEF editorVars, EditorInv
<1>3. QED
  BY <1>1, <1>2

LEMMA EditorInitInv ==
  ASSUME EditorInit \/ EditorClosed
  PROVE  EditorInv
<1>1. PICK b : editor = ListView(<<>>, FALSE, b)
  BY Zenon DEF EditorInit, EditorClosed
<1>2. IsEditor(editor) /\ editor.view = "list"
  BY <1>1 DEF ListView, IsEditor
<1>3. DrawingIsKnown(editor, editorCalls, flowRow)
  BY <1>2 DEF DrawingIsKnown
<1>4. IsFlow(flowRow)
  <2>1. CASE EditorInit
    BY <2>1 DEF EditorInit, IsFlow
  <2>2. CASE EditorClosed
    <3> DEFINE def == CHOOSE d \in StoredDefs : TRUE
    <3>1. flowRow = [def |-> def, status |-> "draft", gone |-> FALSE]
      BY <2>2, Zenon DEF EditorClosed
    <3> HIDE DEF def
    <3>2. QED
      BY <3>1 DEF IsFlow
  <2>3. QED
    BY <2>1, <2>2
<1>5. SavesKeepTrigger(editorCalls, flowRow)
  <2> DEFINE none == {}
             about == [why |-> "open"]
  <2>1. \A c : c \notin none
    OBVIOUS
  <2>2. editorCalls = none \/ editorCalls = Send(none, "list", about)
    BY Zenon DEF EditorInit, EditorClosed
  <2> HIDE DEF none, about
  <2>3. SavesKeepTrigger(none, flowRow)
    BY <2>1, Zenon DEF SavesKeepTrigger
  <2>4. SameSaves(none, editorCalls)
    BY <2>2, <2>3, OtherCalls
  <2>5. QED
    BY <2>3, <2>4, SavesAlone
<1>6. QED
  BY <1>2, <1>3, <1>4, <1>5, Zenon DEF EditorInv

(* The label of the toolbar is true.                                       *)
THEOREM SavedIsSaved == Spec => []SavedLabelIsTrue
<1>1. Init => EditorInv
  BY EditorInitInv, Zenon DEF Init
<1>2. EditorInv /\ [Next]_webVars => EditorInv'
  BY PartsStep, EditorStepInv, Zenon
<1>3. EditorInv => SavedLabelIsTrue
  <2> SUFFICES ASSUME EditorInv, InEditor, editor.saved, ~editor.dirty, ~editor.saving, ~editor.late
               PROVE  Has(flowRow, Canvas)
    BY Zenon DEF SavedLabelIsTrue, Has
  <2>1. QED
    BY Zenon DEF EditorInv, DrawingIsKnown, LabelIsTrue, InEditor, Canvas
<1>4. QED
  BY <1>1, <1>2, <1>3, PTL DEF Spec

-----------------------------------------------------------------------------
(* Editing the canvas *)

LEMMA StoredIsDrawable ==
  ASSUME NEW def \in StoredDefs
  PROVE  Drawable(def)
<1>1. def \in FlowDefinition /\ WellDrawn(ToCanvas(def, "start"))
  BY EditorAssumption
<1>2. QED
  BY <1>1, CanvasOfStored, WellDrawnParts, Zenon DEF Drawable, Legal

LEMMA LegalParts ==
  ASSUME NEW N, NEW E, Drawing(N, E)
  PROVE  Legal([nodes |-> N, edges |-> E])
<1> DEFINE c == [nodes |-> N, edges |-> E]
<1>1. c.nodes = N /\ c.edges = E
  BY Zenon
<1> HIDE DEF c
<1>2. c = [nodes |-> N, edges |-> E]
  BY Zenon DEF c
<1>3. c = [nodes |-> c.nodes, edges |-> c.edges] /\ Drawing(c.nodes, c.edges)
  BY <1>1, <1>2
<1>4. QED
  BY <1>3, Zenon DEF Legal, Drawn, c

LEMMA LegalExcept ==
  ASSUME NEW c, Legal(c), NEW M
  PROVE  /\ [c EXCEPT !.nodes = M] = [nodes |-> M, edges |-> c.edges]
         /\ [c EXCEPT !.edges = M] = [nodes |-> c.nodes, edges |-> M]
<1>1. c = [nodes |-> c.nodes, edges |-> c.edges]
  BY Zenon DEF Legal
<1>2. \A n, e : /\ [[nodes |-> n, edges |-> e] EXCEPT !.nodes = M] = [nodes |-> M, edges |-> e]
                /\ [[nodes |-> n, edges |-> e] EXCEPT !.edges = M] = [nodes |-> n, edges |-> M]
  OBVIOUS
<1>3. QED
  BY <1>1, <1>2

(* A canvas, the step that is selected, and a canvas that is edited.       *)
Edited(c, selected) == Legal(c) /\ selected \in CanvasIds(c) \cup {""}

LEMMA StepOfLegal ==
  ASSUME NEW c, Legal(c), NEW id \in CanvasIds(c)
  PROVE  \E i \in DOMAIN c.nodes :
           /\ StepOf(c, id) = c.nodes[i] /\ c.nodes[i].id = id
           /\ c.nodes[i] \in AStep /\ id \in Ids
           /\ \A j \in DOMAIN c.nodes : c.nodes[j].id = id => j = i
<1>1. c.nodes \in Seq(AStep) /\ Distinct(c.nodes)
  BY Zenon DEF Legal, Drawn, Drawing
<1>2. PICK i \in DOMAIN c.nodes : StepOf(c, id) = c.nodes[i] /\ c.nodes[i].id = id
  BY <1>1, StepOfFinds, Zenon
<1>3. c.nodes[i] \in AStep
  BY <1>1
<1>4. id \in Ids
  BY <1>2, <1>3, Zenon DEF AStep
<1>5. \A j \in DOMAIN c.nodes : c.nodes[j].id = id => j = i
  BY <1>1, <1>2, Zenon DEF Distinct
<1>6. QED
  BY <1>2, <1>3, <1>4, <1>5, Zenon

LEMMA NewIdIsNew ==
  ASSUME NewIds # {}
  PROVE  newId \in Ids /\ newId # "" /\ \A i \in DOMAIN Canvas.nodes : Canvas.nodes[i].id # newId
<1>1. newId \in NewIds
  BY Zenon DEF newId
<1>2. newId \in {"n1", "n2", "n3"} /\ newId \notin CanvasIds(Canvas)
  BY <1>1 DEF NewIds
<1>3. newId \in Ids /\ newId # ""
  BY <1>2 DEF Ids
<1>4. QED
  BY <1>2, <1>3, Zenon DEF CanvasIds

LEMMA AddedStep ==
  ASSUME Legal(Canvas), NewIds # {}, NEW s \in AStep, s.id = newId, ~IsStart(s)
  PROVE  /\ Drawing(Append(Canvas.nodes, s), Canvas.edges)
         /\ \A c : c.nodes = Append(Canvas.nodes, s) =>
              /\ newId \in CanvasIds(c)
              /\ \A i \in DOMAIN Canvas.nodes : i \in DOMAIN c.nodes /\ c.nodes[i] = Canvas.nodes[i]
              /\ \E i \in DOMAIN c.nodes : c.nodes[i] = s
<1> DEFINE N == Canvas.nodes
           M == Append(N, s)
<1>1. Drawing(N, Canvas.edges)
  BY Zenon DEF Legal, Drawn
<1>2. Drawing(M, Canvas.edges)
  <2>1. \A i \in DOMAIN N : N[i].id # s.id
    BY NewIdIsNew
  <2>2. QED
    BY <1>1, <2>1, StepAdded, Zenon
<1>3. N \in Seq(AStep)
  BY <1>1, Zenon DEF Drawing
<1>4. /\ \A i \in DOMAIN N : i \in DOMAIN M /\ M[i] = N[i]
      /\ \E i \in DOMAIN M : M[i] = s
  <2> HIDE DEF N
  <2>1. Len(N) + 1 \in DOMAIN M /\ M[Len(N) + 1] = s
    BY <1>3
  <2>2. \A i \in DOMAIN N : i \in DOMAIN M /\ M[i] = N[i]
    BY <1>3
  <2>3. QED
    BY <2>1, <2>2, Zenon
<1> HIDE DEF N, M
<1>5. ASSUME NEW c, c.nodes = M
      PROVE  /\ newId \in CanvasIds(c)
             /\ \A i \in DOMAIN N : i \in DOMAIN c.nodes /\ c.nodes[i] = N[i]
             /\ \E i \in DOMAIN c.nodes : c.nodes[i] = s
  <2>1. /\ \A i \in DOMAIN N : i \in DOMAIN c.nodes /\ c.nodes[i] = N[i]
        /\ \E i \in DOMAIN c.nodes : c.nodes[i] = s
    BY <1>4, <1>5
  <2>2. \E i \in DOMAIN c.nodes : c.nodes[i].id = newId
    BY <2>1
  <2>3. newId \in CanvasIds(c)
    BY <2>2, Zenon DEF CanvasIds
  <2>4. QED
    BY <2>1, <2>3
<1>6. QED
  BY <1>2, <1>5, Zenon DEF N, M

(* What a click on the palette, or a drop, makes of the canvas.            *)
LEMMA AddNodeDraws ==
  ASSUME InEditor => Edited(Canvas, editor.selected), NEW type \in Palette, NEW click, AddNode(type, click)
  PROVE  \E c, s : Changed(c, s) /\ Edited(c, s)
<1> DEFINE selected == editor.selected
           free == IF click /\ selected # "" THEN FreeOutput(selected) ELSE ""
           step == NewStep(newId, type)
           N == Append(Canvas.nodes, step)
           edge == Edge(selected, free, newId)
           E == IF free = "" THEN Canvas.edges ELSE Append(Canvas.edges, edge)
           c == [nodes |-> N, edges |-> E]
<1>1. Changed(c, newId) /\ NewIds # {} /\ InEditor
  BY Zenon DEF AddNode, CanEdit
<1>2. Legal(Canvas) /\ selected \in CanvasIds(Canvas) \cup {""}
  BY <1>1, Zenon DEF Edited
<1>3. type \in NodeTypes /\ type # "trigger" /\ NODE_SPECS[type].ready \in BOOLEAN
  <2>1. type \in StepTypes /\ NODE_SPECS[type].offered
    BY DEF Palette
  <2>2. type \in DOMAIN NODE_SPECS
    BY <2>1, EditorAssumption
  <2>3. QED
    BY <2>1, <2>2, CataloguesAgree
<1>4. newId \in Ids /\ newId # ""
  BY <1>1, NewIdIsNew, Zenon
<1>5. step \in AStep /\ step.id = newId /\ ~IsStart(step) /\ step.type = type
  <2> DEFINE content == IF NODE_SPECS[type].ready THEN Readers ELSE {}
             new == [id |-> newId, type |-> type, complete |-> content]
  <2>1. content \in SUBSET Readers
    OBVIOUS
  <2> HIDE DEF content
  <2>2. new \in AStep
    BY <1>3, <1>4, <2>1 DEF AStep
  <2>a. step = new
    BY Zenon DEF NewStep, content
  <2>b. new.id = newId /\ new.type = type
    BY Zenon
  <2>3. step.id = newId /\ step.type = type
    <3> HIDE DEF step, new
    <3>1. QED
      BY <2>a, <2>b
  <2>4. ~IsStart(step)
    BY <1>3, <2>3, Zenon DEF IsStart
  <2>5. QED
    BY <2>2, <2>3, <2>4, <2>a, Zenon
<1> HIDE DEF step
<1>6. Drawing(N, Canvas.edges)
  BY <1>1, <1>2, <1>5, AddedStep, Zenon
<1>7. c.nodes = N
  BY Zenon
<1>8. /\ newId \in CanvasIds(c)
      /\ \A i \in DOMAIN Canvas.nodes : i \in DOMAIN N /\ N[i] = Canvas.nodes[i]
      /\ \E i \in DOMAIN N : N[i] = step
  <2> HIDE DEF c, N
  <2>1. /\ newId \in CanvasIds(c)
        /\ \A i \in DOMAIN Canvas.nodes : i \in DOMAIN c.nodes /\ c.nodes[i] = Canvas.nodes[i]
        /\ \E i \in DOMAIN c.nodes : c.nodes[i] = step
    BY <1>1, <1>2, <1>5, <1>7, AddedStep, Zenon DEF N
  <2>2. QED
    BY <1>7, <2>1
<1> HIDE DEF N
<1>9. CASE free = ""
  <2>1. Drawing(N, E)
    BY <1>6, <1>9, Zenon
  <2>2. QED
    BY <1>1, <1>8, <2>1, LegalParts, Zenon DEF Edited
<1>10. CASE free # ""
  <2> DEFINE type0 == StepOf(Canvas, selected).type
             outs == NODE_SPECS[type0].outputs
             S == {i \in DOMAIN outs : \A k \in DOMAIN Canvas.edges :
                     ~(Canvas.edges[k].source = selected /\ Canvas.edges[k].handle = outs[i])}
  <2>1. selected # "" /\ free = FreeOutput(selected) /\ selected \in CanvasIds(Canvas)
    BY <1>2, <1>10
  <2>2. PICK i \in DOMAIN Canvas.nodes :
             /\ StepOf(Canvas, selected) = Canvas.nodes[i] /\ Canvas.nodes[i].id = selected
             /\ Canvas.nodes[i] \in AStep /\ selected \in Ids
    BY <1>2, <2>1, StepOfLegal, Zenon
  <2>3. type0 = Canvas.nodes[i].type /\ type0 \in NodeTypes
    BY <2>2, Zenon DEF AStep
  <2>4. free = IF S = {} THEN "" ELSE outs[FirstOf(S)]
    BY <2>1, Zenon DEF FreeOutput
  <2>5. outs \in Seq(Handles \ {""}) /\ StepOutputs(type0) = {outs[n] : n \in DOMAIN outs}
    BY <2>3, CataloguesAgree, Zenon DEF StepOutputs
  <2> HIDE DEF outs
  <2>6. S \in SUBSET (Nat \ {0})
    <3> DEFINE H == Handles \ {""}
    <3> HIDE DEF H
    <3>1. outs \in Seq(H)
      BY <2>5 DEF H
    <3>2. DOMAIN outs \in SUBSET (Nat \ {0})
      BY <3>1
    <3>3. S \in SUBSET DOMAIN outs
      BY Zenon
    <3> HIDE DEF S
    <3>4. QED
      BY <3>2, <3>3
  <2>7. S # {}
    BY <1>10, <2>4, Zenon
  <2> HIDE DEF S
  <2>8. FirstOf(S) \in S
    BY <2>6, <2>7, FirstOfIsFirst, Zenon
  <2>9. /\ FirstOf(S) \in DOMAIN outs /\ free = outs[FirstOf(S)]
        /\ \A k \in DOMAIN Canvas.edges : ~(Canvas.edges[k].source = selected /\ Canvas.edges[k].handle = free)
    BY <2>4, <2>7, <2>8, Zenon DEF S
  <2> HIDE DEF free
  <2>10. free \in StepOutputs(type0) /\ free \in Handles
    <3> DEFINE H == Handles \ {""}
    <3> HIDE DEF H
    <3>1. outs \in Seq(H)
      BY <2>5 DEF H
    <3>2. free \in H
      BY <3>1, <2>9
    <3>3. QED
      BY <2>5, <2>9, <3>2 DEF H
  <2>11. edge = [source |-> selected, handle |-> free, target |-> newId, exact |-> TRUE]
    BY Zenon DEF Edge
  <2>12. edge \in AnEdge /\ edge.source = selected /\ edge.handle = free /\ edge.target = newId
    <3>1. \A a, b \in Ids, h \in Handles : [source |-> a, handle |-> h, target |-> b, exact |-> TRUE] \in AnEdge
      BY DEF AnEdge
    <3>2. edge \in AnEdge
      BY <1>4, <2>2, <2>10, <2>11, <3>1
    <3>3. edge.source = selected /\ edge.handle = free /\ edge.target = newId
      BY Zenon DEF Edge
    <3>4. QED
      BY <3>2, <3>3, Zenon
  <2> HIDE DEF edge
  <2>13. From(N, edge)
    BY <1>8, <2>2, <2>3, <2>10, <2>12 DEF From, LeavesBy
  <2>14. To(N, edge)
    BY <1>5, <1>8, <2>12 DEF To
  <2>15. \A k \in DOMAIN Canvas.edges :
           Canvas.edges[k].source = edge.source /\ Canvas.edges[k].handle = edge.handle => FALSE
    BY <2>9, <2>12
  <2>16. Drawing(N, Append(Canvas.edges, edge))
    BY <1>6, <2>12, <2>13, <2>14, <2>15, EdgeAdded, Zenon DEF Joins
  <2>17. E = Append(Canvas.edges, edge)
    BY <1>10, Zenon
  <2>18. Legal(c)
    BY <2>16, <2>17, LegalParts, Zenon
  <2>19. QED
    BY <1>1, <1>8, <2>18, Zenon DEF Edited
<1>11. QED
  BY <1>9, <1>10

(* The form of the selected step, its copy, and its removal.               *)
LEMMA UpdateDraws ==
  ASSUME InEditor => Edited(Canvas, editor.selected), NEW complete \in SUBSET Readers, UpdateSelected(complete)
  PROVE  \E c, s : Changed(c, s) /\ Edited(c, s)
<1> DEFINE N == Canvas.nodes
           M == [i \in DOMAIN N |-> IF N[i].id = editor.selected THEN Filled(N[i], complete) ELSE N[i]]
           c == [nodes |-> M, edges |-> Canvas.edges]
<1>1. Changed([Canvas EXCEPT !.nodes = M], editor.selected) /\ InEditor
  BY Zenon DEF UpdateSelected, Inspector, CanEdit
<1>2. Legal(Canvas) /\ editor.selected \in CanvasIds(Canvas) \cup {""}
  BY <1>1, Zenon DEF Edited
<1>3. Drawing(N, Canvas.edges) /\ N \in Seq(AStep)
  BY <1>2, Zenon DEF Legal, Drawn, Drawing
<1>4. [Canvas EXCEPT !.nodes = M] = c
  BY <1>2, LegalExcept, Zenon
<1>5. \A s \in AStep : /\ Filled(s, complete) \in AStep
                       /\ Filled(s, complete).id = s.id /\ Filled(s, complete).type = s.type
  BY DEF AStep, Filled
<1> HIDE DEF N
<1>6. DOMAIN N = 1..Len(N) /\ Len(N) \in Nat /\ \A i \in DOMAIN N : N[i] \in AStep
  BY <1>3
<1>7. \A i \in DOMAIN N : M[i] \in AStep /\ M[i].id = N[i].id /\ M[i].type = N[i].type
  BY <1>5, <1>6, Zenon
<1>8. DOMAIN M = DOMAIN N /\ M = [i \in DOMAIN N |-> M[i]]
  BY Zenon
<1> HIDE DEF M
<1>9. M \in [1..Len(N) -> AStep]
  BY <1>6, <1>7, <1>8
<1>10. M \in Seq(AStep)
  BY <1>6, <1>9
<1>11. Drawing(M, Canvas.edges)
  BY <1>3, <1>7, <1>8, <1>10, StepsFilled, Zenon
<1>12. CanvasIds(c) = CanvasIds(Canvas)
  <2>1. c.nodes = M
    BY Zenon
  <2> HIDE DEF c
  <2>2. CanvasIds(c) = {M[i].id : i \in DOMAIN M} /\ CanvasIds(Canvas) = {N[i].id : i \in DOMAIN N}
    BY <2>1, Zenon DEF CanvasIds, N
  <2>3. QED
    BY <1>7, <1>8, <2>2
<1>13. Legal(c)
  BY <1>11, LegalParts, Zenon
<1> HIDE DEF c
<1>14. editor.selected \in CanvasIds(c) \cup {""}
  BY <1>2, <1>12
<1>15. Changed(c, editor.selected)
  BY <1>1, <1>4
<1>16. QED
  BY <1>13, <1>14, <1>15, Zenon DEF Edited

LEMMA DuplicateDraws ==
  ASSUME InEditor => Edited(Canvas, editor.selected), DuplicateSelected
  PROVE  \E c, s : Changed(c, s) /\ Edited(c, s)
<1> DEFINE selected == editor.selected
           step == StepOf(Canvas, selected)
           copy == [step EXCEPT !.id = newId]
           M == Append(Canvas.nodes, copy)
           c == [nodes |-> M, edges |-> Canvas.edges]
<1>1. /\ Changed([Canvas EXCEPT !.nodes = M], newId)
      /\ InEditor /\ NewIds # {} /\ selected # "" /\ ~IsStart(step)
  BY Zenon DEF DuplicateSelected
<1>2. Legal(Canvas) /\ selected \in CanvasIds(Canvas)
  <2>1. Legal(Canvas) /\ selected \in CanvasIds(Canvas) \cup {""}
    BY <1>1, Zenon DEF Edited
  <2>2. QED
    BY <1>1, <2>1
<1>3. step \in AStep
  <2>1. PICK i \in DOMAIN Canvas.nodes : step = Canvas.nodes[i] /\ Canvas.nodes[i] \in AStep
    BY <1>2, StepOfLegal, Zenon
  <2>2. QED
    BY <2>1
<1>4. [Canvas EXCEPT !.nodes = M] = c
  BY <1>2, LegalExcept, Zenon
<1>5. newId \in Ids
  BY <1>1, NewIdIsNew, Zenon
<1>6. copy \in AStep /\ copy.id = newId /\ ~IsStart(copy)
  <2>1. \A s \in AStep, id \in Ids : /\ [s EXCEPT !.id = id] \in AStep
                                     /\ [s EXCEPT !.id = id].id = id /\ [s EXCEPT !.id = id].type = s.type
    BY DEF AStep
  <2>2. copy \in AStep /\ copy.id = newId /\ copy.type = step.type
    BY <1>3, <1>5, <2>1, Zenon
  <2>3. QED
    BY <1>1, <2>2, Zenon DEF IsStart
<1> HIDE DEF copy
<1>7. Drawing(M, Canvas.edges)
  BY <1>1, <1>2, <1>6, AddedStep, Zenon
<1>8. Legal(c)
  BY <1>7, LegalParts, Zenon
<1>9. c.nodes = M
  BY Zenon
<1> HIDE DEF c
<1>10. newId \in CanvasIds(c)
  BY <1>1, <1>2, <1>6, <1>9, AddedStep, Zenon
<1>11. Changed(c, newId)
  BY <1>1, <1>4
<1>12. Edited(c, newId)
  BY <1>8, <1>10 DEF Edited
<1>13. QED
  BY <1>11, <1>12

LEMMA DeleteDraws ==
  ASSUME InEditor => Edited(Canvas, editor.selected), DeleteSelected
  PROVE  \E c, s : Changed(c, s) /\ Edited(c, s)
<1> DEFINE selected == editor.selected
           N == Canvas.nodes
           E == Canvas.edges
           gone == {i \in DOMAIN N : N[i].id = selected}
           cut == {k \in DOMAIN E : selected \in {E[k].source, E[k].target}}
           M == At(N, DOMAIN N \ gone)
           F == At(E, DOMAIN E \ cut)
           c == [nodes |-> M, edges |-> F]
<1>1. /\ Changed(c, "") /\ InEditor /\ selected # "" /\ ~IsStart(StepOf(Canvas, selected))
  BY Zenon DEF DeleteSelected, Without, Inspector, CanEdit
<1>2. Legal(Canvas) /\ selected \in CanvasIds(Canvas)
  <2>1. Legal(Canvas) /\ selected \in CanvasIds(Canvas) \cup {""}
    BY <1>1, Zenon DEF Edited
  <2>2. QED
    BY <1>1, <2>1
<1>3. Drawing(N, E)
  BY <1>2, Zenon DEF Legal, Drawn
<1>4. PICK i0 \in DOMAIN N : /\ StepOf(Canvas, selected) = N[i0]
                             /\ \A j \in DOMAIN N : N[j].id = selected => j = i0
  BY <1>2, StepOfLegal, Zenon
<1>5. Drawing(N, F) /\ Among(F, E, DOMAIN E \ cut)
  <2> DEFINE S == DOMAIN E \ cut
  <2>1. S \in SUBSET DOMAIN E
    OBVIOUS
  <2> HIDE DEF N, E, S
  <2>2. Drawing(N, At(E, S)) /\ Among(At(E, S), E, S)
    BY <1>3, <2>1, EdgesKept, Zenon
  <2>3. QED
    BY <2>2, Zenon DEF S
<1>6. \A k \in DOMAIN F : F[k].source # selected /\ F[k].target # selected
  <2>1. \A n \in DOMAIN E \ cut : E[n].source # selected /\ E[n].target # selected
    BY Zenon
  <2> HIDE DEF cut, F, E
  <2>2. QED
    BY <1>5, <2>1 DEF Among
<1> HIDE DEF F
<1>7. Drawing(M, F)
  <2> DEFINE S == DOMAIN N \ gone
  <2>1. S \in SUBSET DOMAIN N
    OBVIOUS
  <2>2. \A i \in DOMAIN N : N[i].id # selected => i \in S
    BY Zenon
  <2> HIDE DEF S
  <2>3. \A i \in DOMAIN N : IsStart(N[i]) => i \in S
    BY <1>1, <1>4, <2>2, Zenon
  <2>4. \A i \in DOMAIN N, k \in DOMAIN F : N[i].id \in {F[k].source, F[k].target} => i \in S
    BY <1>6, <2>2, Zenon
  <2>5. QED
    BY <1>5, <2>1, <2>3, <2>4, StepsKept, Zenon DEF S
<1>8. Legal(c)
  BY <1>7, LegalParts, Zenon
<1>9. QED
  BY <1>1, <1>8, Zenon DEF Edited

(* The edges: one is removed, one is drawn.                                *)
LEMMA DeleteEdgeDraws ==
  ASSUME InEditor => Edited(Canvas, editor.selected), NEW k, DeleteEdge(k)
  PROVE  \E c, s : Changed(c, s) /\ Edited(c, s)
<1> DEFINE S == DOMAIN Canvas.edges \ {k}
           F == At(Canvas.edges, S)
           c == [nodes |-> Canvas.nodes, edges |-> F]
<1>1. Changed([Canvas EXCEPT !.edges = F], editor.selected) /\ InEditor
  BY Zenon DEF DeleteEdge, Without, CanEdit
<1>2. Legal(Canvas) /\ editor.selected \in CanvasIds(Canvas) \cup {""}
  BY <1>1, Zenon DEF Edited
<1>3. Drawing(Canvas.nodes, F)
  <2>1. Drawing(Canvas.nodes, Canvas.edges)
    BY <1>2, Zenon DEF Legal, Drawn
  <2>2. S \in SUBSET DOMAIN Canvas.edges
    OBVIOUS
  <2>3. QED
    BY <2>1, <2>2, EdgesKept, Zenon
<1>4. [Canvas EXCEPT !.edges = F] = c
  BY <1>2, LegalExcept, Zenon
<1>5. Legal(c)
  BY <1>3, LegalParts, Zenon
<1>6. c.nodes = Canvas.nodes
  BY Zenon
<1> HIDE DEF c
<1>7. CanvasIds(c) = CanvasIds(Canvas)
  BY <1>6, Zenon DEF CanvasIds
<1>8. Changed(c, editor.selected) /\ editor.selected \in CanvasIds(c) \cup {""}
  BY <1>1, <1>2, <1>4, <1>7
<1>9. QED
  BY <1>5, <1>8, Zenon DEF Edited

LEMMA ConnectDraws ==
  ASSUME InEditor => Edited(Canvas, editor.selected),
         NEW source \in CanvasIds(Canvas), NEW target \in CanvasIds(Canvas), NEW handle \in Handles,
         OnConnect(source, handle, target)
  PROVE  \E c, s : Changed(c, s) /\ Edited(c, s)
<1> DEFINE N == Canvas.nodes
           E == Canvas.edges
           S == DOMAIN E \ {k \in DOMAIN E : E[k].source = source /\ E[k].handle = handle}
           F == At(E, S)
           edge == Edge(source, handle, target)
           c == [nodes |-> N, edges |-> Append(F, edge)]
<1>1. /\ Changed([Canvas EXCEPT !.edges = Append(F, edge)], editor.selected) /\ InEditor
      /\ handle \in StepOutputs(StepOf(Canvas, source).type) /\ ~IsStart(StepOf(Canvas, target))
  BY Zenon DEF OnConnect, Without, CanEdit, IsValidConnection
<1>2. Legal(Canvas) /\ editor.selected \in CanvasIds(Canvas) \cup {""}
  BY <1>1, Zenon DEF Edited
<1>3. Drawing(N, F) /\ Among(F, E, S)
  <2>1. Drawing(N, E)
    BY <1>2, Zenon DEF Legal, Drawn
  <2>2. S \in SUBSET DOMAIN E
    OBVIOUS
  <2> HIDE DEF N, E, S
  <2>3. QED
    BY <2>1, <2>2, EdgesKept, Zenon
<1>4. \A k \in DOMAIN F : F[k].source = source /\ F[k].handle = handle => FALSE
  <2>1. \A n \in S : ~(E[n].source = source /\ E[n].handle = handle)
    BY Zenon
  <2> HIDE DEF S, F
  <2>2. QED
    BY <1>3, <2>1 DEF Among
<1> HIDE DEF F
<1>5. PICK i \in DOMAIN N : StepOf(Canvas, source) = N[i] /\ N[i].id = source /\ source \in Ids
  BY <1>2, StepOfLegal, Zenon
<1>6. PICK j \in DOMAIN N : StepOf(Canvas, target) = N[j] /\ N[j].id = target /\ target \in Ids
  BY <1>2, StepOfLegal, Zenon
<1>7. edge \in AnEdge /\ edge.source = source /\ edge.handle = handle /\ edge.target = target
  <2>1. edge = [source |-> source, handle |-> handle, target |-> target, exact |-> TRUE]
    BY Zenon DEF Edge
  <2>2. edge \in AnEdge
    BY <1>5, <1>6, <2>1 DEF AnEdge
  <2>3. QED
    BY <2>2, Zenon DEF Edge
<1> HIDE DEF edge
<1>8. From(N, edge)
  <2>1. N[i].id = edge.source /\ handle \in StepOutputs(N[i].type)
    BY <1>1, <1>5, <1>7
  <2>2. QED
    BY <1>7, <2>1, Zenon DEF From, LeavesBy
<1>9. To(N, edge)
  BY <1>1, <1>6, <1>7, Zenon DEF To
<1>10. \A k \in DOMAIN F : F[k].source = edge.source /\ F[k].handle = edge.handle => FALSE
  BY <1>4, <1>7
<1>11. Drawing(N, Append(F, edge))
  BY <1>3, <1>7, <1>8, <1>9, <1>10, EdgeAdded, Zenon DEF Joins
<1>12. [Canvas EXCEPT !.edges = Append(F, edge)] = c
  BY <1>2, LegalExcept, Zenon
<1>13. Legal(c)
  BY <1>11, LegalParts, Zenon
<1>14. c.nodes = Canvas.nodes
  BY Zenon
<1> HIDE DEF c
<1>15. CanvasIds(c) = CanvasIds(Canvas)
  BY <1>14, Zenon DEF CanvasIds
<1>16. Changed(c, editor.selected) /\ editor.selected \in CanvasIds(c) \cup {""}
  BY <1>1, <1>2, <1>12, <1>15
<1>17. QED
  BY <1>13, <1>16, Zenon DEF Edited

(* Every edit leaves a canvas as it should be.                             *)
LEMMA EditsDraw ==
  ASSUME InEditor => Edited(Canvas, editor.selected),
         \/ \E type \in Palette, click \in BOOLEAN : AddNode(type, click)
         \/ \E complete \in SUBSET Readers : UpdateSelected(complete)
         \/ DuplicateSelected \/ DeleteSelected \/ Arrange
         \/ \E k \in DOMAIN Canvas.edges : DeleteEdge(k)
         \/ \E source, target \in CanvasIds(Canvas), handle \in Handles : OnConnect(source, handle, target)
  PROVE  \E c, s : Changed(c, s) /\ Edited(c, s)
<1>1. CASE \E type \in Palette, click \in BOOLEAN : AddNode(type, click)
  BY <1>1, AddNodeDraws, Zenon
<1>2. CASE \E complete \in SUBSET Readers : UpdateSelected(complete)
  BY <1>2, UpdateDraws, Zenon
<1>3. CASE DuplicateSelected \/ DeleteSelected
  BY <1>3, DuplicateDraws, DeleteDraws, Zenon
<1>4. CASE Arrange
  BY <1>4, Zenon DEF Arrange, CanEdit
<1>5. CASE \E k \in DOMAIN Canvas.edges : DeleteEdge(k)
  BY <1>5, DeleteEdgeDraws, Zenon
<1>6. CASE \E source, target \in CanvasIds(Canvas), handle \in Handles : OnConnect(source, handle, target)
  BY <1>6, ConnectDraws, Zenon
<1>7. QED
  BY <1>1, <1>2, <1>3, <1>4, <1>5, <1>6

-----------------------------------------------------------------------------
(* What the list, the server and the calls in between have can be drawn *)

RowsDrawable(rows) == rows # <<>> => Drawable(rows[1].def)

DrawnCall(c) ==
  /\ c.op = "save" => Drawable(c.about.def)
  /\ c.op = "list" /\ c.answer \notin {Waiting, Failed} => RowsDrawable(c.answer.result.rows)

DrawnCalls(calls) == \A c \in calls : DrawnCall(c)

(* The dialog of a test is in the editor.                                  *)
InCanvas(m) == IF m.view = "editor" THEN Edited(m.canvas, m.selected) ELSE m.test = "closed"

DrawnInv ==
  InCanvas(editor) /\ RowsDrawable(editor.row) /\ Drawable(flowRow.def) /\ DrawnCalls(editorCalls)

LEMMA CallsStayDrawn ==
  ASSUME NEW calls, DrawnCalls(calls), \A c \in calls : IsCall(c)
  PROVE  /\ \A op, about : (op = "save" => Drawable(about.def)) => DrawnCalls(Send(calls, op, about))
         /\ \A call : DrawnCalls(calls \ {call})
         /\ \A call, op, about : (op = "save" => Drawable(about.def)) => DrawnCalls(Chain(calls, call, op, about))
         /\ \A call \in calls : \A answer :
              (call.op = "list" /\ answer \notin {Waiting, Failed} => RowsDrawable(answer.result.rows))
              => DrawnCalls(Answered(calls, call, answer))
<1>1. ASSUME NEW some, DrawnCalls(some), NEW op, NEW about, op = "save" => Drawable(about.def)
      PROVE  DrawnCalls(Send(some, op, about))
  <2>1. Waiting \in {Waiting, Failed}
    OBVIOUS
  <2>2. \A c \in Send(some, op, about) :
          c \in some \/ (c.op = op /\ c.about = about /\ c.answer = Waiting)
    BY SendAddsWaiting
  <2>3. QED
    BY <1>1, <2>1, <2>2 DEF DrawnCalls, DrawnCall
<1>2. \A call : DrawnCalls(calls \ {call})
  BY DEF DrawnCalls
<1>3. ASSUME NEW call, NEW op, NEW about, op = "save" => Drawable(about.def)
      PROVE  DrawnCalls(Chain(calls, call, op, about))
  BY <1>1, <1>2, <1>3, Zenon DEF Chain
<1>4. ASSUME NEW call \in calls, NEW answer,
             call.op = "list" /\ answer \notin {Waiting, Failed} => RowsDrawable(answer.result.rows)
      PROVE  DrawnCalls(Answered(calls, call, answer))
  <2>1. \A c \in Answered(calls, call, answer) :
          c \in calls \/ (c.op = call.op /\ c.about = call.about /\ c.answer = answer)
    BY AnsweredReplaces
  <2>2. QED
    BY <1>4, <2>1 DEF DrawnCalls, DrawnCall
<1>5. QED
  BY <1>1, <1>2, <1>3, <1>4, Zenon

LEMMA DrawnNext ==
  ASSUME InCanvas(editor'), RowsDrawable(editor'.row), Drawable(flowRow'.def), DrawnCalls(editorCalls')
  PROVE  DrawnInv'
  BY Zenon DEF DrawnInv

LEMMA EditorShapes ==
  ASSUME EditorInv
  PROVE  IsEditor(editor) /\ IsFlow(flowRow) /\ \A c \in editorCalls : IsCall(c)
  BY Zenon DEF EditorInv, SavesKeepTrigger

LEMMA EditsKeepDrawn ==
  ASSUME EditorInv, DrawnInv,
         \/ \E type \in Palette, click \in BOOLEAN : AddNode(type, click)
         \/ \E complete \in SUBSET Readers : UpdateSelected(complete)
         \/ DuplicateSelected \/ DeleteSelected \/ Arrange
         \/ \E k \in DOMAIN Canvas.edges : DeleteEdge(k)
         \/ \E source, target \in CanvasIds(Canvas), handle \in Handles : OnConnect(source, handle, target)
  PROVE  DrawnInv'
<1>1. InEditor => Edited(Canvas, editor.selected)
  BY Zenon DEF DrawnInv, InCanvas, InEditor, Canvas
<1>2. PICK canvas, selected : Changed(canvas, selected) /\ Edited(canvas, selected)
  BY <1>1, EditsDraw, Zenon
<1> DEFINE late == editor.late \/ Saves # {}
           n == editor.edits - 1
           m == [editor EXCEPT !.canvas = canvas, !.selected = selected, !.dirty = TRUE, !.late = late, !.edits = n]
<1>3. editor' = m /\ UNCHANGED <<editorCalls, flowRow>>
  BY <1>2, Zenon DEF Changed
<1> HIDE DEF late, n
<1>4. /\ m.canvas = canvas /\ m.selected = selected /\ m.row = editor.row
      /\ m.view = editor.view /\ m.test = editor.test
  BY EditorShapes DEF IsEditor
<1> HIDE DEF m
<1>5. InCanvas(m)
  BY <1>2, <1>4 DEF InCanvas, DrawnInv
<1>6. RowsDrawable(editor.row) /\ Drawable(flowRow.def) /\ DrawnCalls(editorCalls)
  BY Zenon DEF DrawnInv
<1>7. QED
  BY <1>3, <1>4, <1>5, <1>6, DrawnNext

(* The canvas and the list are as they were, or nothing is selected.       *)
LEMMA DrawnStays ==
  ASSUME EditorInv, DrawnInv, NEW m, editor' = m, UNCHANGED flowRow, DrawnCalls(editorCalls'),
         m.view = editor.view, m.canvas = editor.canvas, m.selected \in {editor.selected, ""},
         m.view = "editor" \/ m.test \in {editor.test, "closed"}, RowsDrawable(m.row)
  PROVE  DrawnInv'
<1>1. InCanvas(editor) /\ Drawable(flowRow.def)
  BY Zenon DEF DrawnInv
<1>2. InCanvas(m)
  BY <1>1 DEF InCanvas, Edited
<1>3. QED
  BY <1>1, <1>2, DrawnNext

LEMMA PersistKeepsDrawn ==
  ASSUME EditorInv, DrawnInv, NEW status, NEW why, Persist(status, why), InEditor, UNCHANGED flowRow
  PROVE  DrawnInv'
<1> DEFINE late == editor.late /\ Saves # {}
           n == editor.puts - 1
           test == IF why = "test" THEN "running" ELSE editor.test
           def == ToDefinition(Canvas, flowRow.def.trigger)
           about == [why |-> why, status |-> status, late |-> editor.late, def |-> def]
           m == [editor EXCEPT !.saving = TRUE, !.puts = n, !.late = late, !.test = test]
<1>1. editor' = m /\ editorCalls' = Send(editorCalls, "save", about)
  BY Zenon DEF Persist
<1>2. Legal(Canvas)
  BY Zenon DEF DrawnInv, InCanvas, InEditor, Canvas, Edited
<1>3. Drawable(def)
  BY <1>2, SavedIsDrawable, Zenon
<1> HIDE DEF def
<1>4. about.def = def
  BY Zenon
<1> HIDE DEF about, late, n, test
<1>5. DrawnCalls(editorCalls')
  <2>1. DrawnCalls(editorCalls) /\ \A c \in editorCalls : IsCall(c)
    BY EditorShapes, Zenon DEF DrawnInv
  <2>2. Drawable(about.def)
    BY <1>3, <1>4
  <2>3. DrawnCalls(Send(editorCalls, "save", about))
    BY <2>1, <2>2, CallsStayDrawn, Zenon
  <2>4. QED
    BY <1>1, <2>3
<1>6. m.view = editor.view /\ m.canvas = editor.canvas /\ m.selected = editor.selected /\ m.row = editor.row
  BY EditorShapes DEF IsEditor
<1> HIDE DEF m
<1>7. RowsDrawable(m.row)
  BY <1>6 DEF DrawnInv
<1>8. QED
  BY <1>1, <1>5, <1>6, <1>7, DrawnStays DEF InEditor

LEMMA ToolbarKeepsDrawn ==
  ASSUME EditorInv, DrawnInv,
         \/ Save \/ ToggleActive \/ OpenTest \/ CloseTest \/ RunTest
         \/ \E id \in CanvasIds(Canvas) \cup {""} : SelectStep(id)
         \/ \E verb \in {"toggle", "remove"} : FlowWrite(verb)
  PROVE  DrawnInv'
<1> DEFINE n == editor.puts - 1
<1>0. /\ IsEditor(editor) /\ RowsDrawable(editor.row) /\ DrawnCalls(editorCalls)
      /\ \A c \in editorCalls : IsCall(c)
  BY EditorShapes, Zenon DEF DrawnInv
<1> HIDE DEF n
<1>1. editor.test # "closed" => editor.view = "editor"
  BY DEF DrawnInv, InCanvas
<1>2. CASE Save
  BY <1>2, PersistKeepsDrawn, Zenon DEF Save
<1>3. CASE ToggleActive
  BY <1>3, PersistKeepsDrawn, Zenon DEF ToggleActive, Toolbar
<1>4. CASE OpenTest
  <2> DEFINE m == [editor EXCEPT !.test = "open"]
  <2>1. editor' = m /\ UNCHANGED <<editorCalls, flowRow>> /\ editor.view = "editor"
    BY <1>4, Zenon DEF OpenTest, Toolbar, InEditor
  <2>2. m.view = editor.view /\ m.canvas = editor.canvas /\ m.selected = editor.selected /\ m.row = editor.row
    BY <1>0 DEF IsEditor
  <2> HIDE DEF m
  <2>3. QED
    BY <1>0, <2>1, <2>2, DrawnStays
<1>5. CASE CloseTest
  <2> DEFINE m == [editor EXCEPT !.test = "closed"]
  <2>1. editor' = m /\ UNCHANGED <<editorCalls, flowRow>>
    BY <1>5, Zenon DEF CloseTest
  <2>2. /\ m.view = editor.view /\ m.canvas = editor.canvas /\ m.selected = editor.selected /\ m.row = editor.row
        /\ m.test = "closed"
    BY <1>0 DEF IsEditor
  <2> HIDE DEF m
  <2>3. QED
    BY <1>0, <2>1, <2>2, DrawnStays
<1>6. CASE RunTest
  <2>0. InEditor
    BY <1>1, <1>6 DEF RunTest, InEditor
  <2>1. CASE editor.dirty /\ Persist(editor.status, "test")
    BY <1>6, <2>0, <2>1, PersistKeepsDrawn, Zenon DEF RunTest
  <2>2. CASE ~editor.dirty
    <3> DEFINE m == [editor EXCEPT !.test = "running", !.puts = n]
               about == [why |-> "test"]
    <3>1. editor' = m /\ editorCalls' = Send(editorCalls, "execute", about) /\ UNCHANGED flowRow
      BY <1>6, <2>2, Zenon DEF RunTest, n
    <3> HIDE DEF about
    <3>2. DrawnCalls(editorCalls')
      BY <1>0, <3>1, CallsStayDrawn
    <3>3. m.view = editor.view /\ m.canvas = editor.canvas /\ m.selected = editor.selected /\ m.row = editor.row
      BY <1>0 DEF IsEditor
    <3> HIDE DEF m
    <3>4. QED
      BY <1>0, <2>0, <3>1, <3>2, <3>3, DrawnStays DEF InEditor
  <2>3. QED
    BY <1>6, <2>1, <2>2, Zenon DEF RunTest
<1>7. ASSUME NEW id \in CanvasIds(Canvas) \cup {""}, SelectStep(id)
      PROVE  DrawnInv'
  <2> DEFINE m == [editor EXCEPT !.selected = id]
  <2>1. editor' = m /\ UNCHANGED <<editorCalls, flowRow>> /\ editor.view = "editor"
    BY <1>7, Zenon DEF SelectStep, InEditor
  <2>2. m.view = editor.view /\ m.canvas = editor.canvas /\ m.selected = id /\ m.row = editor.row
    BY <1>0 DEF IsEditor
  <2> HIDE DEF m
  <2>3. Edited(editor.canvas, editor.selected) /\ Drawable(flowRow.def)
    BY <2>1 DEF DrawnInv, InCanvas
  <2>4. InCanvas(m)
    BY <1>7, <2>1, <2>2, <2>3 DEF InCanvas, Edited, Canvas
  <2>5. QED
    BY <1>0, <2>1, <2>2, <2>3, <2>4, DrawnNext
<1>8. ASSUME NEW verb \in {"toggle", "remove"}, FlowWrite(verb)
      PROVE  DrawnInv'
  <2> DEFINE m == [editor EXCEPT !.busy = TRUE, !.puts = n]
             about == [why |-> editor.row[1].status]
  <2>1. editor' = m /\ editorCalls' = Send(editorCalls, verb, about) /\ UNCHANGED flowRow
    BY <1>8, Zenon DEF FlowWrite, n
  <2> HIDE DEF about
  <2>2. DrawnCalls(editorCalls')
    BY <1>0, <1>8, <2>1, CallsStayDrawn
  <2>3. /\ m.view = editor.view /\ m.canvas = editor.canvas /\ m.selected = editor.selected /\ m.row = editor.row
        /\ m.test = editor.test
    BY <1>0 DEF IsEditor
  <2> HIDE DEF m
  <2>4. QED
    BY <1>0, <2>1, <2>2, <2>3, DrawnStays
<1>9. QED
  BY <1>2, <1>3, <1>4, <1>5, <1>6, <1>7, <1>8, Zenon

(* What is opened is the row of the list; what is left is forgotten.       *)
LEMMA VisitsKeepDrawn ==
  ASSUME EditorInv, DrawnInv, OpenFlow \/ LeaveEditor
  PROVE  DrawnInv'
<1>0. /\ IsEditor(editor) /\ RowsDrawable(editor.row) /\ DrawnCalls(editorCalls) /\ Drawable(flowRow.def)
      /\ \A c \in editorCalls : IsCall(c)
  BY EditorShapes, Zenon DEF DrawnInv
<1>1. CASE OpenFlow
  <2> DEFINE late == Saves # {}
             n == editor.visits - 1
             canvas == ToCanvas(editor.row[1].def, "start")
             status == editor.row[1].status
             m == [editor EXCEPT !.view = "editor", !.visits = n, !.canvas = canvas, !.status = status,
                                 !.selected = "", !.dirty = FALSE, !.saving = FALSE, !.saved = FALSE,
                                 !.late = late, !.test = "closed"]
  <2>1. editor' = m /\ UNCHANGED <<editorCalls, flowRow>> /\ editor.row # <<>>
    BY <1>1, Zenon DEF OpenFlow, FlowRow
  <2>2. Legal(canvas)
    BY <1>0, <2>1, Zenon DEF RowsDrawable, Drawable
  <2> HIDE DEF late, n, canvas, status
  <2>3. m.canvas = canvas /\ m.selected = "" /\ m.row = editor.row
    BY <1>0 DEF IsEditor
  <2>4. m.view = "editor"
    BY <1>0 DEF IsEditor
  <2> HIDE DEF m
  <2>5. InCanvas(m)
    BY <2>2, <2>3, <2>4 DEF InCanvas, Edited
  <2>6. QED
    BY <1>0, <2>1, <2>3, <2>5, DrawnNext
<1>2. CASE LeaveEditor
  <2> DEFINE m == ListView(editor.row, editor.busy, editor)
             left == {Left(c) : c \in editorCalls}
             about == [why |-> "back"]
  <2>1. editor' = m /\ editorCalls' = Send(left, "list", about) /\ UNCHANGED flowRow
    BY <1>2, Zenon DEF LeaveEditor
  <2>2. m.view = "list" /\ m.test = "closed" /\ m.row = editor.row
    BY Zenon DEF ListView
  <2> HIDE DEF m, about
  <2>3. InCanvas(m)
    BY <2>2 DEF InCanvas
  <2>4. ASSUME NEW c \in editorCalls
        PROVE  DrawnCall(Left(c)) /\ IsCall(Left(c))
    <3>1. IsCall(c) /\ DrawnCall(c) /\ (c.op = "save" => IsSave(c.about))
      BY <1>0, Zenon DEF DrawnCalls, EditorInv, SavesKeepTrigger
    <3>2. CASE c.op # "save"
      BY <3>1, <3>2 DEF Left
    <3>3. CASE c.op = "save"
      <4> DEFINE was == c.about
                 now == [was EXCEPT !.why = "left"]
      <4>1. now.def = was.def
        BY <3>1, <3>3 DEF IsSave
      <4>2. Left(c) = [c EXCEPT !.about = now]
        BY <3>1, <3>3 DEF Left, IsCall
      <4> HIDE DEF now
      <4>3. IsCall(Left(c)) /\ Left(c).about = now /\ Left(c).op = "save"
        BY <3>1, <3>3, <4>2 DEF IsCall
      <4>4. QED
        BY <3>1, <3>3, <4>1, <4>3 DEF DrawnCall
    <3>4. QED
      BY <3>2, <3>3
  <2>5. DrawnCalls(left) /\ \A c \in left : IsCall(c)
    BY <2>4 DEF DrawnCalls
  <2> HIDE DEF left
  <2>6. DrawnCalls(editorCalls')
    <3>1. DrawnCalls(Send(left, "list", about))
      <4>1. "list" # "save"
        OBVIOUS
      <4>2. QED
        BY <2>5, <4>1, CallsStayDrawn, Zenon
    <3>2. QED
      BY <2>1, <3>1
  <2>7. QED
    BY <1>0, <2>1, <2>2, <2>3, <2>6, DrawnNext
<1>3. QED
  BY <1>1, <1>2

(* Answers that arrive: a list brings a row that can be drawn.             *)
LEMMA AnswersKeepDrawn ==
  ASSUME EditorInv, DrawnInv, NEW call \in editorCalls,
         FlowListArrives(call) \/ FlowWriteAnswered(call) \/ TestAnswered(call) \/ SaveAnswered(call)
  PROVE  DrawnInv'
<1>0. /\ IsEditor(editor) /\ RowsDrawable(editor.row) /\ DrawnCalls(editorCalls) /\ DrawnCall(call)
      /\ \A c \in editorCalls : IsCall(c)
  BY EditorShapes, Zenon DEF DrawnInv, DrawnCalls
<1>1. CASE FlowListArrives(call)
  <2> DEFINE row == IF call.answer = Failed THEN editor.row ELSE call.answer.result.rows
             busy == editor.busy /\ call.about.why # "write"
             m == [editor EXCEPT !.row = row, !.busy = busy]
  <2>1. editor' = m /\ editorCalls' = editorCalls \ {call} /\ UNCHANGED flowRow
    BY <1>1, Zenon DEF FlowListArrives
  <2>2. call.op = "list" /\ call.answer # Waiting
    BY <1>1 DEF FlowListArrives, Done
  <2>3. DrawnCalls(editorCalls')
    BY <1>0, <2>1, CallsStayDrawn
  <2>4. RowsDrawable(row)
    BY <1>0, <2>2 DEF DrawnCall
  <2> HIDE DEF row, busy
  <2>5. /\ m.view = editor.view /\ m.canvas = editor.canvas /\ m.selected = editor.selected
        /\ m.test = editor.test /\ m.row = row
    BY <1>0 DEF IsEditor
  <2> HIDE DEF m
  <2>6. QED
    BY <2>1, <2>3, <2>4, <2>5, DrawnStays
<1>2. CASE FlowWriteAnswered(call)
  <2> DEFINE busy == call.answer # Failed
             about == [why |-> "write"]
             m == [editor EXCEPT !.busy = busy]
  <2>1. /\ editor' = m /\ UNCHANGED flowRow
        /\ editorCalls' = editorCalls \ {call} \/ editorCalls' = Chain(editorCalls, call, "list", about)
    BY <1>2, Zenon DEF FlowWriteAnswered
  <2> HIDE DEF about
  <2>2. "list" # "save"
    OBVIOUS
  <2>3. DrawnCalls(editorCalls \ {call}) /\ DrawnCalls(Chain(editorCalls, call, "list", about))
    BY <1>0, <2>2, CallsStayDrawn, Zenon
  <2>4. DrawnCalls(editorCalls')
    BY <2>1, <2>3
  <2> HIDE DEF busy
  <2>5. /\ m.view = editor.view /\ m.canvas = editor.canvas /\ m.selected = editor.selected
        /\ m.test = editor.test /\ m.row = editor.row
    BY <1>0 DEF IsEditor
  <2> HIDE DEF m
  <2>6. QED
    BY <1>0, <2>1, <2>4, <2>5, DrawnStays
<1>3. CASE TestAnswered(call)
  <2> DEFINE test == IF call.answer = Failed THEN "open" ELSE "closed"
             selected == IF call.answer = Failed THEN editor.selected ELSE ""
             m == [editor EXCEPT !.test = test, !.selected = selected]
  <2>1. editor' = m /\ editorCalls' = editorCalls \ {call} /\ UNCHANGED flowRow /\ editor.view = "editor"
    BY <1>3, Zenon DEF TestAnswered, InEditor
  <2>2. selected \in {editor.selected, ""}
    OBVIOUS
  <2>3. DrawnCalls(editorCalls')
    BY <1>0, <2>1, CallsStayDrawn
  <2> HIDE DEF test, selected
  <2>4. m.view = editor.view /\ m.canvas = editor.canvas /\ m.selected = selected /\ m.row = editor.row
    BY <1>0 DEF IsEditor
  <2> HIDE DEF m
  <2>5. QED
    BY <1>0, <2>1, <2>2, <2>3, <2>4, DrawnStays
<1>4. CASE SaveAnswered(call)
  <2>0. editor.view = "editor" /\ UNCHANGED flowRow
    BY <1>4, Zenon DEF SaveAnswered, InEditor
  <2>1. CASE call.answer = Failed
    <3> DEFINE late == editor.late \/ call.about.late
               test == IF call.about.why = "test" THEN "open" ELSE editor.test
               m == [editor EXCEPT !.saving = FALSE, !.late = late, !.test = test]
    <3>1. editor' = m /\ editorCalls' = editorCalls \ {call}
      BY <1>4, <2>1, Zenon DEF SaveAnswered
    <3>2. DrawnCalls(editorCalls')
      BY <1>0, <3>1, CallsStayDrawn
    <3> HIDE DEF late, test
    <3>3. m.view = editor.view /\ m.canvas = editor.canvas /\ m.selected = editor.selected /\ m.row = editor.row
      BY <1>0 DEF IsEditor
    <3> HIDE DEF m
    <3>4. QED
      BY <1>0, <2>0, <3>1, <3>2, <3>3, DrawnStays
  <2>2. CASE call.answer # Failed
    <3> DEFINE status == call.answer.result.status
               m == [editor EXCEPT !.saving = FALSE, !.dirty = FALSE, !.saved = TRUE, !.status = status]
    <3>1. editor' = m
      BY <1>4, <2>2, Zenon DEF SaveAnswered
    <3>2. PICK op, about : op \in {"execute", "list"} /\ editorCalls' = Chain(editorCalls, call, op, about)
      BY <1>4, <2>2 DEF SaveAnswered
    <3>3. op # "save"
      BY <3>2
    <3>4. DrawnCalls(editorCalls')
      BY <1>0, <3>2, <3>3, CallsStayDrawn
    <3> HIDE DEF status
    <3>5. m.view = editor.view /\ m.canvas = editor.canvas /\ m.selected = editor.selected /\ m.row = editor.row
      BY <1>0 DEF IsEditor
    <3> HIDE DEF m
    <3>6. QED
      BY <1>0, <2>0, <3>1, <3>4, <3>5, DrawnStays
  <2>3. QED
    BY <2>1, <2>2
<1>5. QED
  BY <1>1, <1>2, <1>3, <1>4

(* The server stores what a save carries, and lists what it has.           *)
LEMMA ServerKeepsDrawn ==
  ASSUME EditorInv, DrawnInv, NEW call \in editorCalls,
         EditorServer(call) \/ EditorAnswerLost(call) \/ LateAnswer(call)
  PROVE  DrawnInv'
<1>0. /\ IsFlow(flowRow) /\ Drawable(flowRow.def) /\ DrawnCalls(editorCalls) /\ DrawnCall(call)
      /\ InCanvas(editor) /\ RowsDrawable(editor.row) /\ \A c \in editorCalls : IsCall(c)
  BY EditorShapes, Zenon DEF DrawnInv, DrawnCalls
<1>1. ASSUME NEW answer, editorCalls' = Answered(editorCalls, call, answer), UNCHANGED editor,
             Drawable(flowRow'.def),
             call.op = "list" /\ answer \notin {Waiting, Failed} => RowsDrawable(answer.result.rows)
      PROVE  DrawnInv'
  <2>1. DrawnCalls(editorCalls')
    BY <1>0, <1>1, CallsStayDrawn
  <2>2. QED
    BY <1>0, <1>1, <2>1, DrawnNext
<1>2. ASSUME NEW ok, Reply(call, ok), call.op # "list", UNCHANGED editor, Drawable(flowRow'.def)
      PROVE  DrawnInv'
  <2>1. PICK answer : editorCalls' = Answered(editorCalls, call, answer)
    BY <1>2, Zenon DEF Reply
  <2>2. QED
    BY <1>1, <1>2, <2>1
<1>3. CASE EditorServer(call)
  <2>1. CASE call.op = "list"
    <3> DEFINE row == [def |-> flowRow.def, status |-> flowRow.status]
               rows == IF flowRow.gone THEN <<>> ELSE <<row>>
               answer == Ok([rows |-> rows])
    <3>1. editorCalls' = Answered(editorCalls, call, answer) /\ UNCHANGED <<editor, flowRow>>
      BY <1>3, <2>1 DEF EditorServer
    <3>2. row.def = flowRow.def
      BY Zenon
    <3> HIDE DEF row
    <3>3. rows # <<>> => rows[1] = row
      OBVIOUS
    <3>4. RowsDrawable(rows)
      BY <1>0, <3>2, <3>3 DEF RowsDrawable
    <3> HIDE DEF rows
    <3>5. answer.result.rows = rows
      BY DEF Ok
    <3> HIDE DEF answer
    <3>6. RowsDrawable(answer.result.rows)
      BY <3>4, <3>5
    <3>7. QED
      BY <1>0, <1>1, <3>1, <3>6
  <2>2. CASE call.op = "execute"
    <3>1. Reply(call, ~flowRow.gone) /\ UNCHANGED <<editor, flowRow>>
      BY <1>3, <2>2 DEF EditorServer
    <3>2. QED
      BY <1>0, <1>2, <2>2, <3>1
  <2>3. CASE call.op = "remove"
    <3>1. Reply(call, TRUE) /\ UNCHANGED editor /\ flowRow' = [flowRow EXCEPT !.gone = TRUE]
      BY <1>3, <2>3 DEF EditorServer
    <3>2. flowRow'.def = flowRow.def
      BY <1>0, <3>1 DEF IsFlow
    <3>3. QED
      BY <1>0, <1>2, <2>3, <3>1, <3>2
  <2>4. CASE call.op \in {"save", "toggle"}
    <3> DEFINE toggled == IF call.about.why = "active" THEN "inactive" ELSE "active"
               def == IF call.op = "save" THEN call.about.def ELSE flowRow.def
               status == IF call.op = "save" THEN call.about.status ELSE toggled
    <3>1. ServerStores(call) /\ UNCHANGED editor
      BY <1>3, <2>4 DEF EditorServer
    <3>2. Stores(def, status) /\ Reply(call, Accepts(def, status))
      BY <3>1, Zenon DEF ServerStores
    <3>3. Drawable(def)
      BY <1>0 DEF DrawnCall
    <3> HIDE DEF def, status
    <3>4. Drawable(flowRow'.def)
      <4>1. CASE flowRow' = flowRow
        BY <1>0, <4>1
      <4>2. CASE flowRow' = [flowRow EXCEPT !.def = def, !.status = status]
        <5>1. flowRow'.def = def
          BY <1>0, <4>2 DEF IsFlow
        <5>2. QED
          BY <3>3, <5>1
      <4>3. QED
        BY <3>2, <4>1, <4>2, Zenon DEF Stores
    <3>5. call.op # "list"
      BY <2>4
    <3>6. QED
      BY <1>2, <3>1, <3>2, <3>4, <3>5
  <2>5. QED
    BY <1>3, <2>1, <2>2, <2>3, <2>4, Zenon DEF EditorServer
<1>4. CASE EditorAnswerLost(call)
  <2>1. editorCalls' = Answered(editorCalls, call, Failed) /\ UNCHANGED <<editor, flowRow>>
    BY <1>4, Zenon DEF EditorAnswerLost
  <2>2. Failed \in {Waiting, Failed}
    OBVIOUS
  <2>3. QED
    BY <1>0, <1>1, <2>1, <2>2
<1>5. CASE LateAnswer(call)
  <2>1. editorCalls' = editorCalls \ {call} /\ UNCHANGED <<editor, flowRow>>
    BY <1>5, Zenon DEF LateAnswer
  <2>2. DrawnCalls(editorCalls')
    BY <1>0, <2>1, CallsStayDrawn
  <2>3. QED
    BY <1>0, <2>1, <2>2, DrawnNext
<1>6. QED
  BY <1>3, <1>4, <1>5

LEMMA DrawnStep ==
  ASSUME EditorInv, DrawnInv, [EditorNext]_editorVars
  PROVE  DrawnInv'
<1>1. CASE EditorNext
  BY <1>1, ToolbarKeepsDrawn, EditsKeepDrawn, VisitsKeepDrawn, AnswersKeepDrawn, ServerKeepsDrawn, Zenon
     DEF EditorNext
<1>2. CASE UNCHANGED editorVars
  BY <1>2, Zenon DEF editorVars, DrawnInv
<1>3. QED
  BY <1>1, <1>2

LEMMA DrawnInit ==
  ASSUME EditorInit
  PROVE  DrawnInv
<1>1. PICK b : editor = ListView(<<>>, FALSE, b)
  BY Zenon DEF EditorInit
<1>2. editor.view = "list" /\ editor.test = "closed" /\ editor.row = <<>>
  BY <1>1, Zenon DEF ListView
<1>3. InCanvas(editor) /\ RowsDrawable(editor.row)
  BY <1>2 DEF InCanvas, RowsDrawable
<1>4. Drawable(flowRow.def)
  <2>1. flowRow.def \in StoredDefs
    BY DEF EditorInit
  <2>2. QED
    BY <2>1, StoredIsDrawable, Zenon
<1>5. DrawnCalls(editorCalls)
  <2> DEFINE none == {}
             about == [why |-> "open"]
  <2>1. \A c : c \notin none
    OBVIOUS
  <2>2. editorCalls = Send(none, "list", about)
    BY Zenon DEF EditorInit
  <2>3. "list" # "save"
    OBVIOUS
  <2> HIDE DEF none, about
  <2>4. DrawnCalls(none) /\ \A c \in none : IsCall(c)
    BY <2>1, Zenon DEF DrawnCalls
  <2>5. DrawnCalls(Send(none, "list", about))
    BY <2>3, <2>4, CallsStayDrawn, Zenon
  <2>6. QED
    BY <2>2, <2>5
<1>6. QED
  BY <1>3, <1>4, <1>5, Zenon DEF DrawnInv

(* Whatever is drawn, the engine reads it as it is drawn: DrawnInv says    *)
(* that it is a canvas as it should be and that all that may still be      *)
(* opened can be drawn as one.  In the other parts no editor is open.      *)
THEOREM CanvasIsLegible == Spec => []CanvasStaysLegible
<1> DEFINE Inv == EditorInv /\ IF part = "flows" THEN DrawnInv ELSE ~InEditor
<1>1. Init => Inv
  <2> SUFFICES ASSUME Init PROVE Inv
    OBVIOUS
  <2>1. EditorInv
    BY EditorInitInv, Zenon DEF Init
  <2>2. part # "flows" => ~InEditor
    <3>1. part # "flows" => EditorClosed
      BY Zenon DEF Init
    <3>2. \A b : ListView(<<>>, FALSE, b).view = "list"
      BY DEF ListView
    <3>3. QED
      BY <3>1, <3>2, Zenon DEF EditorClosed, InEditor
  <2>3. part = "flows" => DrawnInv
    BY DrawnInit, Zenon DEF Init
  <2>4. QED
    BY <2>1, <2>2, <2>3
<1>2. Inv /\ [Next]_webVars => Inv'
  <2> SUFFICES ASSUME Inv, [Next]_webVars PROVE Inv'
    OBVIOUS
  <2>1. EditorInv'
    BY PartsStep, EditorStepInv, Zenon
  <2>2. part' = part /\ (part # "flows" => editor' = editor)
    BY Zenon DEF Next, OthersStandStill, webVars, editorVars
  <2>3. part = "flows" => DrawnInv'
    BY PartsStep, DrawnStep, Zenon
  <2>4. part # "flows" => ~InEditor'
    BY <2>2, Zenon DEF InEditor
  <2>5. QED
    BY <2>1, <2>2, <2>3, <2>4
<1>3. Inv => CanvasStaysLegible
  <2> SUFFICES ASSUME Inv, InEditor PROVE CanvasStaysLegible
    BY DEF CanvasStaysLegible
  <2>1. Drawing(Canvas.nodes, Canvas.edges)
    BY Zenon DEF DrawnInv, InCanvas, InEditor, Canvas, Edited, Legal, Drawn
  <2>2. ToDefinition(Canvas, flowRow.def.trigger)
          = [nodes |-> Canvas.nodes, edges |-> Canvas.edges, trigger |-> flowRow.def.trigger]
    BY Zenon DEF ToDefinition
  <2>3. Legible(ToDefinition(Canvas, flowRow.def.trigger))
    BY <2>1, <2>2, DrawingIsLegible
  <2>4. StartsAlone(Canvas.nodes, Canvas.edges)
    BY <2>1, DrawingIsLegible, Zenon
  <2>5. QED
    BY <2>3, <2>4, Zenon DEF CanvasStaysLegible, StartsAlone
<1>4. QED
  BY <1>1, <1>2, <1>3, PTL DEF Spec

-----------------------------------------------------------------------------
(* The types of the flow editor *)

FlowStatuses == {"draft", "active", "inactive"}

(* The list draws nothing.                                                 *)
IsBlank(m) == m.canvas = Blank /\ m.selected = ""
InTheEditor(m) == m.view = "editor" \/ IsBlank(m)

ListedRows(rows) == rows # <<>> => rows[1].status \in FlowStatuses

TypedEditor(m) ==
  /\ m \in [view : {"list", "editor"}, row : {m.row}, busy : BOOLEAN, edits : Nat, puts : Nat, visits : Nat,
            canvas : {m.canvas}, selected : {m.selected}, status : FlowStatuses, dirty : BOOLEAN,
            saving : BOOLEAN, saved : BOOLEAN, late : BOOLEAN, test : {"closed", "open", "running"}]
  /\ InTheEditor(m) /\ ListedRows(m.row)

TypedFlow(r) == r \in [def : FlowDefinition, status : FlowStatuses, gone : BOOLEAN]

EditorCall(c) ==
  /\ c.op = "save" => c.about.def \in FlowDefinition /\ c.about.status \in FlowStatuses
  /\ c.op = "list" /\ IsDone(c) => ListedRows(c.answer.result.rows)
  /\ c.op = "save" /\ IsDone(c) => c.answer.result.status \in FlowStatuses

EditorTyped == TypedEditor(editor) /\ TypedFlow(flowRow) /\ \A c \in editorCalls : EditorCall(c)

LEMMA EditorCallSent ==
  ASSUME NEW c, c.answer = Waiting,
         c.op = "save" => c.about.def \in FlowDefinition /\ c.about.status \in FlowStatuses
  PROVE  EditorCall(c)
  BY DEF EditorCall, IsDone

LEMMA BlankStays ==
  ASSUME NEW k, NEW m, InTheEditor(k), m.view = k.view, m.canvas = k.canvas, m.selected = k.selected
  PROVE  InTheEditor(m)
  BY Zenon DEF InTheEditor, IsBlank

LEMMA ShapeStays ==
  ASSUME NEW k, NEW m, TypedEditor(k), m.view = k.view, m.canvas = k.canvas, m.selected = k.selected, m.row = k.row,
         m \in [view : {"list", "editor"}, row : {m.row}, busy : BOOLEAN, edits : Nat, puts : Nat, visits : Nat,
                canvas : {m.canvas}, selected : {m.selected}, status : FlowStatuses, dirty : BOOLEAN,
                saving : BOOLEAN, saved : BOOLEAN, late : BOOLEAN, test : {"closed", "open", "running"}]
  PROVE  TypedEditor(m)
<1>1. InTheEditor(k) /\ ListedRows(k.row)
  BY Zenon DEF TypedEditor
<1>2. InTheEditor(m) /\ ListedRows(m.row)
  BY <1>1, BlankStays
<1>3. QED
  BY <1>2, Zenon DEF TypedEditor

LEMMA EditorTypedNext ==
  ASSUME EditorTyped, TypedEditor(editor'), UNCHANGED flowRow, \A c \in editorCalls' : c \in editorCalls \/ EditorCall(c)
  PROVE  EditorTyped'
  BY Zenon DEF EditorTyped

(* What is drawn is in the types of a definition.                          *)
LEMMA LegalTypes ==
  ASSUME NEW c, Legal(c)
  PROVE  c.nodes \in Seq(FlowNode) /\ c.edges \in Seq(FlowEdge)
<1>1. {"n1", "n2", "n3", "start"} \subseteq Names
  BY EditorAssumption, Zenon
<1>2. Ids = Names
  BY <1>1 DEF Ids
<1>3. AStep \subseteq FlowNode /\ AnEdge \subseteq FlowEdge
  BY <1>2 DEF AStep, AnEdge, FlowNode, FlowEdge
<1>4. c.nodes \in Seq(AStep) /\ c.edges \in Seq(AnEdge)
  BY Zenon DEF Legal, Drawn, Drawing
<1>5. QED
  BY <1>3, <1>4, SeqOfSubset

LEMMA DefinitionTyped ==
  ASSUME TypedFlow(flowRow), Legal(Canvas)
  PROVE  ToDefinition(Canvas, flowRow.def.trigger) \in FlowDefinition
<1> DEFINE N == Canvas.nodes
           E == Canvas.edges
<1>1. N \in Seq(FlowNode) /\ E \in Seq(FlowEdge)
  BY LegalTypes
<1>2. flowRow.def.trigger \in Trigger
  BY DEF TypedFlow, FlowDefinition
<1> HIDE DEF N, E
<1>3. [nodes |-> N, edges |-> E, trigger |-> flowRow.def.trigger] \in FlowDefinition
  BY <1>1, <1>2 DEF FlowDefinition
<1>4. QED
  BY <1>3, Zenon DEF ToDefinition, N, E

LEMMA EditsKeepTypes ==
  ASSUME EditorTyped,
         \/ \E type \in Palette, click \in BOOLEAN : AddNode(type, click)
         \/ \E complete \in SUBSET Readers : UpdateSelected(complete)
         \/ DuplicateSelected \/ DeleteSelected \/ Arrange
         \/ \E k \in DOMAIN Canvas.edges : DeleteEdge(k)
         \/ \E source, target \in CanvasIds(Canvas), handle \in Handles : OnConnect(source, handle, target)
  PROVE  EditorTyped'
<1>1. PICK canvas, selected : Changed(canvas, selected) /\ editor.view = "editor" /\ editor.edits > 0
  BY Zenon DEF AddNode, UpdateSelected, DuplicateSelected, DeleteSelected, Arrange, DeleteEdge, OnConnect, Inspector,
               CanEdit, InEditor
<1> DEFINE late == editor.late \/ Saves # {}
           n == editor.edits - 1
           m == [editor EXCEPT !.canvas = canvas, !.selected = selected, !.dirty = TRUE, !.late = late, !.edits = n]
<1>2. editor' = m /\ UNCHANGED <<editorCalls, flowRow>>
  BY <1>1, Zenon DEF Changed
<1>3. TypedEditor(editor)
  BY Zenon DEF EditorTyped
<1>4. late \in BOOLEAN /\ n \in Nat
  BY <1>1, <1>3 DEF TypedEditor
<1> HIDE DEF late, n
<1>5. TypedEditor(m)
  BY <1>1, <1>3, <1>4 DEF TypedEditor, InTheEditor
<1> HIDE DEF m
<1>6. QED
  BY <1>2, <1>5, EditorTypedNext

LEMMA PersistKeepsTypes ==
  ASSUME EditorTyped, Legal(Canvas), editor.view = "editor", NEW status \in FlowStatuses, NEW why, Persist(status, why),
         UNCHANGED flowRow
  PROVE  EditorTyped'
<1> DEFINE late == editor.late /\ Saves # {}
           n == editor.puts - 1
           test == IF why = "test" THEN "running" ELSE editor.test
           def == ToDefinition(Canvas, flowRow.def.trigger)
           about == [why |-> why, status |-> status, late |-> editor.late, def |-> def]
           m == [editor EXCEPT !.saving = TRUE, !.puts = n, !.late = late, !.test = test]
<1>1. editor' = m /\ editor.puts > 0 /\ editorCalls' = Send(editorCalls, "save", about)
  BY Zenon DEF Persist, CanPut
<1>2. TypedEditor(editor) /\ TypedFlow(flowRow)
  BY Zenon DEF EditorTyped
<1>3. def \in FlowDefinition
  BY <1>2, DefinitionTyped
<1>4. late \in BOOLEAN /\ n \in Nat /\ test \in {"closed", "open", "running"}
  BY <1>1, <1>2 DEF TypedEditor
<1> HIDE DEF late, n, test, def
<1>5. TypedEditor(m)
  BY <1>2, <1>4 DEF TypedEditor, InTheEditor
<1>6. about.def = def /\ about.status = status
  OBVIOUS
<1> HIDE DEF m, about
<1>7. \A c \in editorCalls' : c \in editorCalls \/ (c.answer = Waiting /\ c.about = about)
  BY <1>1, SendAddsWaiting
<1>8. \A c \in editorCalls' : c \in editorCalls \/ EditorCall(c)
  BY <1>3, <1>6, <1>7, EditorCallSent
<1>9. QED
  BY <1>1, <1>5, <1>8, EditorTypedNext

LEMMA ToolbarKeepsTypes ==
  ASSUME EditorTyped, DrawnInv,
         \/ Save \/ ToggleActive \/ OpenTest \/ CloseTest \/ RunTest
         \/ \E id : SelectStep(id)
         \/ \E verb \in {"toggle", "remove"} : FlowWrite(verb)
  PROVE  EditorTyped'
<1> DEFINE n == editor.puts - 1
<1>1. TypedEditor(editor)
  BY Zenon DEF EditorTyped
<1>2. /\ editor.view = "editor" => Legal(Canvas)
      /\ editor.test # "closed" => editor.view = "editor"
  <2>1. \/ editor.view = "editor" /\ Legal(Canvas)
        \/ editor.view # "editor" /\ editor.test = "closed"
    BY Zenon DEF DrawnInv, InCanvas, Edited, Canvas
  <2>2. QED
    BY <2>1
<1>3. editor.puts > 0 => n \in Nat
  BY <1>1 DEF TypedEditor
<1> HIDE DEF n
<1>4. CASE Save \/ ToggleActive
  <2>1. PICK status : Persist(status, "save") /\ UNCHANGED flowRow /\ editor.view = "editor"
                      /\ status \in {editor.status, "inactive", "active"}
    <3>1. CASE Save
      BY <3>1 DEF Save, InEditor
    <3>2. CASE ToggleActive
      BY <3>2 DEF ToggleActive, Toolbar, InEditor
    <3>3. QED
      BY <1>4, <3>1, <3>2
  <2>2. status \in FlowStatuses
    BY <1>1, <2>1 DEF TypedEditor, FlowStatuses
  <2>3. QED
    BY <1>2, <2>1, <2>2, PersistKeepsTypes
<1>5. CASE OpenTest \/ CloseTest
  <2>1. PICK test \in {"open", "closed"} : editor' = [editor EXCEPT !.test = test] /\ UNCHANGED <<editorCalls, flowRow>>
    BY <1>5 DEF OpenTest, CloseTest
  <2>2. TypedEditor(editor')
    BY <1>1, <2>1, ShapeStays DEF TypedEditor
  <2>3. QED
    BY <2>1, <2>2, EditorTypedNext
<1>6. CASE RunTest
  <2>1. CASE editor.dirty /\ Persist(editor.status, "test") /\ UNCHANGED flowRow
    <3>1. editor.view = "editor" /\ editor.status \in FlowStatuses
      BY <1>1, <1>2, <1>6 DEF RunTest, TypedEditor
    <3>2. QED
      BY <1>2, <2>1, <3>1, PersistKeepsTypes
  <2>2. CASE ~(editor.dirty /\ Persist(editor.status, "test") /\ UNCHANGED flowRow)
    <3> DEFINE about == [why |-> "test"]
    <3>1. /\ editor' = [editor EXCEPT !.test = "running", !.puts = n] /\ editor.puts > 0
          /\ editorCalls' = Send(editorCalls, "execute", about) /\ UNCHANGED flowRow
      BY <1>6, <2>2, Zenon DEF RunTest, CanPut, n
    <3>2. TypedEditor(editor')
      BY <1>1, <1>3, <3>1, ShapeStays DEF TypedEditor
    <3> HIDE DEF about
    <3>3. \A c \in editorCalls' : c \in editorCalls \/ (c.answer = Waiting /\ c.op = "execute")
      BY <3>1, SendAddsWaiting
    <3>4. \A c \in editorCalls' : c \in editorCalls \/ EditorCall(c)
      BY <3>3, EditorCallSent
    <3>5. QED
      BY <3>1, <3>2, <3>4, EditorTypedNext
  <2>3. QED
    BY <2>1, <2>2
<1>7. ASSUME NEW id, SelectStep(id)
      PROVE  EditorTyped'
  <2>1. editor' = [editor EXCEPT !.selected = id] /\ UNCHANGED <<editorCalls, flowRow>> /\ editor.view = "editor"
    BY <1>7, Zenon DEF SelectStep, InEditor
  <2>2. TypedEditor(editor')
    BY <1>1, <2>1 DEF TypedEditor, InTheEditor
  <2>3. QED
    BY <2>1, <2>2, EditorTypedNext
<1>8. ASSUME NEW verb \in {"toggle", "remove"}, FlowWrite(verb)
      PROVE  EditorTyped'
  <2> DEFINE about == [why |-> editor.row[1].status]
  <2>1. /\ editor' = [editor EXCEPT !.busy = TRUE, !.puts = n] /\ editor.puts > 0
        /\ editorCalls' = Send(editorCalls, verb, about) /\ UNCHANGED flowRow
    BY <1>8, Zenon DEF FlowWrite, CanPut, n
  <2>2. TypedEditor(editor')
    BY <1>1, <1>3, <2>1, ShapeStays DEF TypedEditor
  <2> HIDE DEF about
  <2>3. \A c \in editorCalls' : c \in editorCalls \/ (c.answer = Waiting /\ c.op = verb)
    BY <2>1, SendAddsWaiting
  <2>4. \A c \in editorCalls' : c \in editorCalls \/ EditorCall(c)
    BY <1>8, <2>3, EditorCallSent
  <2>5. QED
    BY <2>1, <2>2, <2>4, EditorTypedNext
<1>9. QED
  BY <1>4, <1>5, <1>6, <1>7, <1>8, Zenon

LEMMA VisitsKeepTypes ==
  ASSUME EditorInv, EditorTyped, OpenFlow \/ LeaveEditor
  PROVE  EditorTyped'
<1>1. TypedEditor(editor) /\ \A c \in editorCalls : EditorCall(c)
  BY Zenon DEF EditorTyped
<1>2. CASE OpenFlow
  <2> DEFINE late == Saves # {}
             n == editor.visits - 1
             canvas == ToCanvas(editor.row[1].def, "start")
             status == editor.row[1].status
             m == [editor EXCEPT !.view = "editor", !.visits = n, !.canvas = canvas, !.status = status,
                                 !.selected = "", !.dirty = FALSE, !.saving = FALSE, !.saved = FALSE,
                                 !.late = late, !.test = "closed"]
  <2>1. editor' = m /\ UNCHANGED <<editorCalls, flowRow>> /\ editor.row # <<>> /\ editor.visits > 0
    BY <1>2, Zenon DEF OpenFlow, FlowRow
  <2>2. late \in BOOLEAN /\ n \in Nat /\ status \in FlowStatuses
    BY <1>1, <2>1 DEF TypedEditor, ListedRows
  <2> HIDE DEF late, n, canvas, status
  <2>3. TypedEditor(m)
    <3> DEFINE none == ""
               half == [editor EXCEPT !.view = "editor", !.visits = n, !.canvas = canvas, !.status = status]
               last == [half EXCEPT !.selected = none, !.dirty = FALSE, !.saving = FALSE, !.saved = FALSE]
    <3>1. m = [last EXCEPT !.late = late, !.test = "closed"]
      BY Zenon
    <3> HIDE DEF m, none
    <3>2. TypedEditor(half) /\ half.view = "editor"
      BY <1>1, <2>2 DEF TypedEditor, InTheEditor
    <3> HIDE DEF half
    <3>3. TypedEditor(last) /\ last.view = "editor"
      BY <3>2 DEF TypedEditor, InTheEditor
    <3> HIDE DEF last
    <3>4. QED
      BY <2>2, <3>1, <3>3 DEF TypedEditor, InTheEditor
  <2> HIDE DEF m
  <2>4. QED
    BY <2>1, <2>3, EditorTypedNext
<1>3. CASE LeaveEditor
  <2> DEFINE left == {Left(c) : c \in editorCalls}
             about == [why |-> "back"]
  <2>1. /\ editor' = ListView(editor.row, editor.busy, editor) /\ UNCHANGED flowRow
        /\ editorCalls' = Send(left, "list", about)
    BY <1>3, Zenon DEF LeaveEditor
  <2>2. TypedEditor(editor')
    <3> DEFINE blank == Blank
               none == ""
               row == editor.row
               m == [view |-> "list", row |-> row, busy |-> editor.busy, edits |-> editor.edits, puts |-> editor.puts,
                     visits |-> editor.visits, canvas |-> blank, selected |-> none, status |-> "draft", dirty |-> FALSE,
                     saving |-> FALSE, saved |-> FALSE, late |-> FALSE, test |-> "closed"]
    <3>1. editor' = m
      BY <2>1, Zenon DEF ListView
    <3>2. ListedRows(row)
      BY <1>1 DEF TypedEditor
    <3> HIDE DEF blank, none, row
    <3>3. m \in [view : {"list", "editor"}, row : {m.row}, busy : BOOLEAN, edits : Nat, puts : Nat, visits : Nat,
                 canvas : {m.canvas}, selected : {m.selected}, status : FlowStatuses, dirty : BOOLEAN,
                 saving : BOOLEAN, saved : BOOLEAN, late : BOOLEAN, test : {"closed", "open", "running"}]
      BY <1>1 DEF TypedEditor, FlowStatuses
    <3>4. m.canvas = blank /\ m.selected = none /\ m.row = row
      BY Zenon
    <3> HIDE DEF m
    <3>5. TypedEditor(m)
      BY <3>2, <3>3, <3>4, Zenon DEF TypedEditor, InTheEditor, IsBlank, blank, none
    <3>6. QED
      BY <3>1, <3>5
  <2>3. ASSUME NEW c \in editorCalls
        PROVE  EditorCall(Left(c))
    <3>1. IsCall(c) /\ EditorCall(c) /\ (c.op = "save" => IsSave(c.about))
      BY <1>1, Zenon DEF EditorInv, SavesKeepTrigger
    <3>2. CASE c.op # "save"
      BY <3>1, <3>2 DEF Left
    <3>3. CASE c.op = "save"
      <4> DEFINE was == c.about
                 now == [was EXCEPT !.why = "left"]
      <4>1. now.def = was.def /\ now.status = was.status
        BY <3>1, <3>3 DEF IsSave
      <4>2. Left(c) = [c EXCEPT !.about = now]
        BY <3>1, <3>3 DEF Left, IsCall
      <4> HIDE DEF now
      <4>3. Left(c).about = now /\ Left(c).op = "save" /\ Left(c).answer = c.answer
        BY <3>1, <3>3, <4>2 DEF IsCall
      <4>4. QED
        BY <3>1, <3>3, <4>1, <4>3 DEF EditorCall, IsDone
    <3>4. QED
      BY <3>2, <3>3
  <2>4. \A c \in left : EditorCall(c)
    BY <2>3
  <2> HIDE DEF left, about
  <2>5. \A c \in editorCalls' : c \in left \/ (c.answer = Waiting /\ c.op = "list")
    BY <2>1, SendAddsWaiting
  <2>6. \A c \in editorCalls' : EditorCall(c)
    BY <2>4, <2>5, EditorCallSent
  <2>7. QED
    BY <2>1, <2>2, <2>6, EditorTypedNext
<1>4. QED
  BY <1>2, <1>3

LEMMA EditorAnswersKeepTypes ==
  ASSUME EditorTyped, NEW call \in editorCalls,
         FlowListArrives(call) \/ FlowWriteAnswered(call) \/ TestAnswered(call) \/ SaveAnswered(call)
  PROVE  EditorTyped'
<1>1. TypedEditor(editor) /\ EditorCall(call) /\ UNCHANGED flowRow
  BY Zenon DEF EditorTyped, FlowListArrives, FlowWriteAnswered, TestAnswered, SaveAnswered
<1>2. CASE FlowListArrives(call)
  <2> DEFINE row == IF call.answer = Failed THEN editor.row ELSE call.answer.result.rows
             busy == editor.busy /\ call.about.why # "write"
             m == [editor EXCEPT !.row = row, !.busy = busy]
  <2>1. editor' = m /\ editorCalls' = editorCalls \ {call}
    BY <1>2, Zenon DEF FlowListArrives
  <2>2. call.op = "list" /\ call.answer # Waiting
    BY <1>2 DEF FlowListArrives, Done
  <2>3. ListedRows(editor.row)
    BY <1>1, Zenon DEF TypedEditor
  <2>4. ListedRows(row)
    BY <1>1, <2>2, <2>3 DEF EditorCall, IsDone
  <2>5. busy \in BOOLEAN
    OBVIOUS
  <2> HIDE DEF row, busy
  <2>6. /\ m \in [view : {"list", "editor"}, row : {m.row}, busy : BOOLEAN, edits : Nat, puts : Nat, visits : Nat,
                  canvas : {m.canvas}, selected : {m.selected}, status : FlowStatuses, dirty : BOOLEAN,
                  saving : BOOLEAN, saved : BOOLEAN, late : BOOLEAN, test : {"closed", "open", "running"}]
        /\ m.view = editor.view /\ m.canvas = editor.canvas /\ m.selected = editor.selected /\ m.row = row
    BY <1>1, <2>5 DEF TypedEditor
  <2> HIDE DEF m
  <2>7. InTheEditor(m)
    BY <1>1, <2>6, BlankStays DEF TypedEditor
  <2>8. TypedEditor(m)
    BY <2>4, <2>6, <2>7, Zenon DEF TypedEditor
  <2>9. QED
    BY <1>1, <2>1, <2>8, EditorTypedNext
<1>3. CASE FlowWriteAnswered(call)
  <2> DEFINE busy == call.answer # Failed
             about == [why |-> "write"]
  <2>1. /\ editor' = [editor EXCEPT !.busy = busy]
        /\ editorCalls' = editorCalls \ {call} \/ editorCalls' = Chain(editorCalls, call, "list", about)
    BY <1>3, Zenon DEF FlowWriteAnswered
  <2>2. busy \in BOOLEAN
    OBVIOUS
  <2> HIDE DEF about, busy
  <2>3. TypedEditor(editor')
    BY <1>1, <2>1, <2>2, ShapeStays DEF TypedEditor
  <2>4. \A c \in editorCalls' : c \in editorCalls \/ (c.answer = Waiting /\ c.op = "list")
    BY <2>1, ChainAdds
  <2>5. \A c \in editorCalls' : c \in editorCalls \/ EditorCall(c)
    BY <2>4, EditorCallSent
  <2>6. QED
    BY <1>1, <2>3, <2>5, EditorTypedNext
<1>4. CASE TestAnswered(call)
  <2> DEFINE test == IF call.answer = Failed THEN "open" ELSE "closed"
             selected == IF call.answer = Failed THEN editor.selected ELSE ""
  <2>1. /\ editor' = [editor EXCEPT !.test = test, !.selected = selected] /\ editorCalls' = editorCalls \ {call}
        /\ editor.view = "editor"
    BY <1>4, Zenon DEF TestAnswered, InEditor
  <2>2. test \in {"closed", "open", "running"}
    OBVIOUS
  <2> HIDE DEF test, selected
  <2>3. TypedEditor(editor')
    BY <1>1, <2>1, <2>2 DEF TypedEditor, InTheEditor
  <2>4. QED
    BY <1>1, <2>1, <2>3, EditorTypedNext
<1>5. CASE SaveAnswered(call)
  <2>0. editor.view = "editor" /\ call.op = "save" /\ call.answer # Waiting
    BY <1>5 DEF SaveAnswered, InEditor, Done
  <2>1. CASE call.answer = Failed
    <3> DEFINE late == editor.late \/ call.about.late
               test == IF call.about.why = "test" THEN "open" ELSE editor.test
    <3>1. editor' = [editor EXCEPT !.saving = FALSE, !.late = late, !.test = test] /\ editorCalls' = editorCalls \ {call}
      BY <1>5, <2>1, Zenon DEF SaveAnswered
    <3>2. late \in BOOLEAN /\ test \in {"closed", "open", "running"}
      BY <1>1 DEF TypedEditor
    <3> HIDE DEF late, test
    <3>3. TypedEditor(editor')
      BY <1>1, <2>0, <3>1, <3>2 DEF TypedEditor, InTheEditor
    <3>4. QED
      BY <1>1, <3>1, <3>3, EditorTypedNext
  <2>2. CASE call.answer # Failed
    <3> DEFINE status == call.answer.result.status
    <3>1. editor' = [editor EXCEPT !.saving = FALSE, !.dirty = FALSE, !.saved = TRUE, !.status = status]
      BY <1>5, <2>2, Zenon DEF SaveAnswered
    <3>2. PICK op, about : op \in {"execute", "list"} /\ editorCalls' = Chain(editorCalls, call, op, about)
      BY <1>5, <2>2 DEF SaveAnswered
    <3>3. status \in FlowStatuses
      BY <1>1, <2>0, <2>2 DEF EditorCall, IsDone
    <3> HIDE DEF status
    <3>4. TypedEditor(editor')
      BY <1>1, <2>0, <3>1, <3>3 DEF TypedEditor, InTheEditor
    <3>5. \A c \in editorCalls' : c \in editorCalls \/ (c.answer = Waiting /\ c.op # "save")
      BY <3>2, ChainAdds
    <3>6. \A c \in editorCalls' : c \in editorCalls \/ EditorCall(c)
      BY <3>5, EditorCallSent
    <3>7. QED
      BY <1>1, <3>4, <3>6, EditorTypedNext
  <2>3. QED
    BY <2>1, <2>2
<1>6. QED
  BY <1>2, <1>3, <1>4, <1>5

LEMMA EditorReplyTyped ==
  ASSUME EditorTyped, EditorInv, NEW call \in editorCalls, NEW answer,
         editorCalls' = Answered(editorCalls, call, answer), UNCHANGED editor, TypedFlow(flowRow'),
         answer \notin {Waiting, Failed} =>
           /\ call.op = "list" => ListedRows(answer.result.rows)
           /\ call.op = "save" => answer.result.status \in FlowStatuses
  PROVE  EditorTyped'
<1>1. IsCall(call) /\ EditorCall(call) /\ TypedEditor(editor) /\ \A c \in editorCalls : EditorCall(c)
  BY Zenon DEF EditorTyped, EditorInv, SavesKeepTrigger
<1>2. \A c \in editorCalls' : c \in editorCalls \/ (c.op = call.op /\ c.about = call.about /\ c.answer = answer)
  BY <1>1, AnsweredReplaces
<1>3. ASSUME NEW c, c.op = call.op, c.about = call.about, c.answer = answer
      PROVE  EditorCall(c)
  BY <1>1, <1>3 DEF EditorCall, IsDone
<1>4. QED
  BY <1>1, <1>2, <1>3, Zenon DEF EditorTyped

LEMMA EditorServerKeepsTypes ==
  ASSUME EditorTyped, EditorInv, NEW call \in editorCalls,
         EditorServer(call) \/ EditorAnswerLost(call) \/ LateAnswer(call)
  PROVE  EditorTyped'
<1>1. TypedEditor(editor) /\ TypedFlow(flowRow) /\ EditorCall(call) /\ UNCHANGED editor
  BY Zenon DEF EditorTyped, EditorServer, EditorAnswerLost, LateAnswer
<1>2. \A ok : Reply(call, ok) =>
        \E answer : /\ editorCalls' = Answered(editorCalls, call, answer)
                    /\ answer = Failed \/ answer.result.status = flowRow'.status
  <2>1. \A status : Ok([status |-> status]).result.status = status
    BY DEF Ok
  <2>2. QED
    BY <2>1, Zenon DEF Reply
<1>3. ASSUME NEW ok, Reply(call, ok), TypedFlow(flowRow'), call.op # "list"
      PROVE  EditorTyped'
  <2>1. PICK answer : /\ editorCalls' = Answered(editorCalls, call, answer)
                      /\ answer = Failed \/ answer.result.status = flowRow'.status
    BY <1>2, <1>3
  <2>2. answer \notin {Waiting, Failed} => answer.result.status \in FlowStatuses
    BY <1>3, <2>1 DEF TypedFlow
  <2>3. QED
    BY <1>1, <1>3, <2>1, <2>2, EditorReplyTyped
<1>4. CASE EditorServer(call)
  <2>1. CASE call.op = "list"
    <3> DEFINE row == [def |-> flowRow.def, status |-> flowRow.status]
               none == <<>>
               rows == IF flowRow.gone THEN none ELSE <<row>>
               answer == Ok([rows |-> rows])
    <3>1. editorCalls' = Answered(editorCalls, call, answer) /\ UNCHANGED flowRow
      BY <1>4, <2>1 DEF EditorServer
    <3>2. ListedRows(rows)
      BY <1>1 DEF ListedRows, TypedFlow
    <3> HIDE DEF rows
    <3>3. answer.result.rows = rows
      BY DEF Ok
    <3> HIDE DEF answer
    <3>4. QED
      BY <1>1, <2>1, <3>1, <3>2, <3>3, EditorReplyTyped
  <2>2. CASE call.op = "execute"
    <3>1. Reply(call, ~flowRow.gone) /\ UNCHANGED flowRow
      BY <1>4, <2>2 DEF EditorServer
    <3>2. QED
      BY <1>1, <1>3, <2>2, <3>1
  <2>3. CASE call.op = "remove"
    <3>1. Reply(call, TRUE) /\ flowRow' = [flowRow EXCEPT !.gone = TRUE]
      BY <1>4, <2>3 DEF EditorServer
    <3>2. TypedFlow(flowRow')
      BY <1>1, <3>1 DEF TypedFlow
    <3>3. QED
      BY <1>3, <2>3, <3>1, <3>2
  <2>4. CASE call.op \in {"save", "toggle"}
    <3> DEFINE toggled == IF call.about.why = "active" THEN "inactive" ELSE "active"
               def == IF call.op = "save" THEN call.about.def ELSE flowRow.def
               status == IF call.op = "save" THEN call.about.status ELSE toggled
    <3>1. Stores(def, status) /\ Reply(call, Accepts(def, status))
      <4>1. ServerStores(call)
        BY <1>4, <2>4 DEF EditorServer
      <4>2. QED
        BY <4>1, Zenon DEF ServerStores
    <3>2. def \in FlowDefinition /\ status \in FlowStatuses
      BY <1>1 DEF EditorCall, TypedFlow, FlowStatuses
    <3> HIDE DEF def, status
    <3>3. flowRow' = flowRow \/ flowRow' = [flowRow EXCEPT !.def = def, !.status = status]
      BY <3>1, Zenon DEF Stores
    <3>4. TypedFlow(flowRow')
      BY <1>1, <3>2, <3>3 DEF TypedFlow
    <3>5. call.op # "list"
      BY <2>4
    <3>6. QED
      BY <1>3, <3>1, <3>4, <3>5
  <2>5. QED
    BY <1>4, <2>1, <2>2, <2>3, <2>4, Zenon DEF EditorServer
<1>5. CASE EditorAnswerLost(call)
  <2>1. editorCalls' = Answered(editorCalls, call, Failed) /\ UNCHANGED flowRow
    BY <1>5, Zenon DEF EditorAnswerLost
  <2>2. QED
    BY <1>1, <2>1, EditorReplyTyped
<1>6. CASE LateAnswer(call)
  <2>1. editorCalls' = editorCalls \ {call} /\ UNCHANGED flowRow
    BY <1>6, Zenon DEF LateAnswer
  <2>2. QED
    BY <1>1, <2>1, EditorTypedNext
<1>7. QED
  BY <1>4, <1>5, <1>6

LEMMA EditorTypedStep ==
  ASSUME EditorTyped, EditorInv, DrawnInv, [EditorNext]_editorVars
  PROVE  EditorTyped'
<1>1. CASE EditorNext
  BY <1>1, ToolbarKeepsTypes, EditsKeepTypes, VisitsKeepTypes, EditorAnswersKeepTypes, EditorServerKeepsTypes, Zenon
     DEF EditorNext
<1>2. CASE UNCHANGED editorVars
  BY <1>2, Zenon DEF editorVars, EditorTyped
<1>3. QED
  BY <1>1, <1>2

LEMMA EditorTypedInit ==
  ASSUME EditorInit
  PROVE  EditorTyped
<1> DEFINE blank == Blank
           none == ""
           row == <<>>
<1>1. PICK b \in Budgets : editor = ListView(row, FALSE, b)
  BY Zenon DEF EditorInit
<1> DEFINE m == [view |-> "list", row |-> row, busy |-> FALSE, edits |-> b.edits, puts |-> b.puts,
                 visits |-> b.visits, canvas |-> blank, selected |-> none, status |-> "draft", dirty |-> FALSE,
                 saving |-> FALSE, saved |-> FALSE, late |-> FALSE, test |-> "closed"]
<1>2. editor = m
  BY <1>1, Zenon DEF ListView
<1>3. b.edits \in Nat /\ b.puts \in Nat /\ b.visits \in Nat
  <2>1. Budgets \subseteq [edits : Nat, puts : Nat, visits : Nat]
    BY EditorAssumption, Zenon
  <2>2. QED
    BY <2>1
<1>4. ListedRows(row)
  BY DEF ListedRows
<1> HIDE DEF blank, none, row
<1>5. m \in [view : {"list", "editor"}, row : {m.row}, busy : BOOLEAN, edits : Nat, puts : Nat, visits : Nat,
             canvas : {m.canvas}, selected : {m.selected}, status : FlowStatuses, dirty : BOOLEAN,
             saving : BOOLEAN, saved : BOOLEAN, late : BOOLEAN, test : {"closed", "open", "running"}]
  BY <1>3 DEF FlowStatuses
<1>6. m.canvas = blank /\ m.selected = none /\ m.row = row
  BY Zenon
<1> HIDE DEF m
<1>7. TypedEditor(m)
  BY <1>4, <1>5, <1>6, Zenon DEF TypedEditor, InTheEditor, IsBlank, blank, none
<1>8. TypedFlow(flowRow)
  <2>1. flowRow \in [def : StoredDefs, status : {"draft"}, gone : {FALSE}]
    BY Zenon DEF EditorInit
  <2>2. StoredDefs \subseteq FlowDefinition
    BY EditorAssumption
  <2>3. QED
    BY <2>1, <2>2 DEF TypedFlow, FlowStatuses
<1>9. \A c \in editorCalls : EditorCall(c)
  <2> DEFINE about == [why |-> "open"]
  <2>1. editorCalls = Send({}, "list", about)
    BY Zenon DEF EditorInit
  <2> HIDE DEF about
  <2>2. \A c \in editorCalls : c.answer = Waiting /\ c.op = "list"
    BY <2>1, SendAddsWaiting
  <2>3. QED
    BY <2>2, EditorCallSent
<1>10. QED
  BY <1>2, <1>7, <1>8, <1>9, Zenon DEF EditorTyped

(* The type invariant of the flow editor.                                  *)
LEMMA EditorTypes ==
  ASSUME EditorTyped, DrawnInv
  PROVE  EditorTypeOK
<1>1. TypedEditor(editor) /\ TypedFlow(flowRow)
  BY Zenon DEF EditorTyped
<1>2. /\ editor.view \in {"list", "editor"}
      /\ {editor.busy, editor.dirty, editor.saving, editor.saved, editor.late} \subseteq BOOLEAN
      /\ editor.status \in {"draft", "active", "inactive"}
      /\ editor.test \in {"closed", "open", "running"}
      /\ {editor.edits, editor.puts, editor.visits} \subseteq Nat
  BY <1>1 DEF TypedEditor, FlowStatuses
<1>3. flowRow.def \in FlowDefinition /\ flowRow.status \in {"draft", "active", "inactive"}
  BY <1>1 DEF TypedFlow, FlowStatuses
<1>4. /\ editor.canvas.nodes \in Seq(FlowNode) /\ editor.canvas.edges \in Seq(FlowEdge)
      /\ editor.selected \in CanvasIds(Canvas) \cup {""}
  <2>1. CASE editor.view = "editor"
    <3>1. Legal(editor.canvas) /\ editor.selected \in CanvasIds(Canvas) \cup {""}
      BY <2>1, Zenon DEF DrawnInv, InCanvas, Edited, Canvas
    <3>2. editor.canvas.nodes \in Seq(FlowNode) /\ editor.canvas.edges \in Seq(FlowEdge)
      BY <3>1, LegalTypes, Zenon
    <3>3. QED
      BY <3>1, <3>2, Zenon
  <2>2. CASE editor.view # "editor"
    <3>1. editor.canvas = Blank /\ editor.selected = ""
      BY <1>1, <2>2, Zenon DEF TypedEditor, InTheEditor, IsBlank
    <3>2. Blank.nodes \in Seq(FlowNode) /\ Blank.edges \in Seq(FlowEdge)
      BY DEF Blank
    <3>3. QED
      BY <3>1, <3>2, Zenon
  <2>3. QED
    BY <2>1, <2>2, Zenon
<1>5. QED
  BY <1>2, <1>3, <1>4, Zenon DEF EditorTypeOK

(* The types of the page of campaigns                                      *)
LEMMA CampaignTypes ==
  ASSUME CampaignsFit
  PROVE  CampaignsTypeOK
<1>1. IsPage(wizard) /\ IsServer(campaignDb)
  BY Zenon DEF CampaignsFit
<1>2. Rows \in Seq(ARow) /\ campaignDb.lost \in 0..MaxLost
  BY <1>1 DEF IsServer, Rows
<1>3. wizard.form \in AForm /\ wizard.error \in {"", "create", "draft"}
  BY <1>1, Zenon DEF IsPage
<1>4. wizard.step \in 0..3 /\ wizard.busy \in 0..MaxCampaigns /\ {wizard.mounted, wizard.submitting} \subseteq BOOLEAN
  <2>1. /\ wizard.step \in 0..3 /\ wizard.busy \in 0..MaxCampaigns
        /\ wizard.mounted \in BOOLEAN /\ wizard.submitting \in BOOLEAN
    BY <1>1, Zenon DEF IsPage
  <2>2. QED
    BY <2>1
<1>5. QED
  BY <1>2, <1>3, <1>4, Zenon DEF CampaignsTypeOK, AForm, ARow

-----------------------------------------------------------------------------
(* The types of the panel *)

(* The drawing is followed where the editor is the part of the run: the    *)
(* flow of the others is any.                                              *)
EditorTypesInv == EditorInv /\ (part = "flows" => DrawnInv /\ EditorTyped)

TypesInv ==
  /\ part \in Parts
  /\ SessionTyped /\ SignupInv /\ InboxTyped
  /\ EditorTypesInv /\ WizardInv /\ SampleInv /\ ScanInv
  /\ BoardInv /\ CrmTyped
  /\ PeopleInv /\ ContactsTyped

LEMMA TypesInit == Init => TypesInv
<1> SUFFICES ASSUME Init PROVE TypesInv
  OBVIOUS
<1>1. part \in Parts /\ SessionInit /\ SignupInit
  BY Zenon DEF Init, SignedOut
<1>2. /\ InboxInit \/ InboxClosed
      /\ EditorInit \/ EditorClosed
      /\ CampaignsInit \/ CampaignsClosed
      /\ TemplatesInit \/ TemplatesClosed
      /\ ChannelsInit \/ ChannelsClosed
      /\ CrmInit \/ CrmClosed
      /\ ContactsInit \/ ContactsClosed
  BY Zenon DEF Init
<1>3. part = "flows" => DrawnInv /\ EditorTyped
  BY DrawnInit, EditorTypedInit, Zenon DEF Init
<1>4. SessionTyped /\ SignupInv /\ InboxTyped
  BY <1>1, <1>2, SessionTypedInit, SignupInitInv, InboxTypedInit, Zenon
<1>5. EditorTypesInv /\ WizardInv /\ SampleInv /\ ScanInv
  BY <1>2, <1>3, EditorInitInv, WizardInitInv, SampleInitInv, ScanInitInv, Zenon DEF EditorTypesInv
<1>6. BoardInv /\ CrmTyped /\ PeopleInv /\ ContactsTyped
  BY <1>2, BoardInitInv, CrmTypedInit, PeopleInitInv, ContactsTypedInit, Zenon
<1>7. QED
  BY <1>1, <1>4, <1>5, <1>6, Zenon DEF TypesInv

LEMMA TypesStep == TypesInv /\ [Next]_webVars => TypesInv'
<1> SUFFICES ASSUME TypesInv, [Next]_webVars PROVE TypesInv'
  OBVIOUS
<1>1. part' = part
  BY Zenon DEF Next, OthersStandStill, webVars
<1>2. SessionTyped' /\ SignupInv' /\ InboxTyped'
  BY PartsStep, SessionTypedStep, SignupStepInv, InboxTypedStep, Zenon DEF TypesInv
<1>3. EditorTypesInv'
  <2>1. EditorInv'
    BY PartsStep, EditorStepInv, Zenon DEF TypesInv, EditorTypesInv
  <2>2. part = "flows" => DrawnInv' /\ EditorTyped'
    BY PartsStep, DrawnStep, EditorTypedStep, Zenon DEF TypesInv, EditorTypesInv
  <2>3. QED
    BY <1>1, <2>1, <2>2, Zenon DEF EditorTypesInv
<1>4. WizardInv' /\ SampleInv' /\ ScanInv'
  BY PartsStep, WizardStepInv, SampleStepInv, ScanStepInv, Zenon DEF TypesInv
<1>5. BoardInv' /\ CrmTyped' /\ PeopleInv' /\ ContactsTyped'
  BY PartsStep, BoardStepInv, CrmTypedStep, PeopleStepInv, ContactsTypedStep, Zenon DEF TypesInv
<1>6. part' \in Parts
  BY <1>1, Zenon DEF TypesInv
<1>7. QED
  BY <1>2, <1>3, <1>4, <1>5, <1>6, Zenon DEF TypesInv

(* The state of every page, of what the browser keeps and of what the      *)
(* server has of it stays of its type, through every call, answer, lost    *)
(* connection and event.                                                   *)
THEOREM PanelTypeCorrect == Spec => []TypeOK
<1>1. TypesInv => TypeOK
  <2> SUFFICES ASSUME TypesInv PROVE TypeOK
    OBVIOUS
  <2>1. part \in Parts /\ SessionTypeOK /\ SignupTypeOK /\ InboxTypeOK
    BY SessionTypes, SignupTypes, InboxTypes, Zenon DEF TypesInv
  <2>2. part = "flows" => EditorTypeOK
    BY EditorTypes, Zenon DEF TypesInv, EditorTypesInv
  <2>3. CampaignsTypeOK /\ TemplatesTypeOK /\ ChannelsTypeOK
    BY CampaignTypes, TemplateTypes, ChannelTypesHold, Zenon DEF TypesInv, WizardInv
  <2>4. CrmTypeOK /\ ContactsTypeOK
    BY CrmTypes, ContactTypes, Zenon DEF TypesInv
  <2>5. QED
    BY <2>1, <2>2, <2>3, <2>4, Zenon DEF TypeOK
<1>2. QED
  BY <1>1, TypesInit, TypesStep, PTL DEF Spec
=============================================================================
