------------------------------- MODULE CrmPage -------------------------------
(***************************************************************************)
(* The page of deals (web/src/pages/CRM.jsx): a board of stages and        *)
(* cards, five forms in one dialog, and cards that are moved from the      *)
(* board or from their dialog.  Every change is a write followed by a      *)
(* board read; an answer goes to whatever the page shows by then.          *)
(*                                                                         *)
(* A stage is <<pipeline, n>>; a card is [stage, status, values], where    *)
(* "values" stands for one filling of its fields.  Search, filters, sums   *)
(* and the other data of a card are left out.  The page is modelled until  *)
(* the operator leaves it.                                                 *)
(***************************************************************************)
EXTENDS PanelCalls

CONSTANT FirstCards   \* how many cards the company's first pipeline has, if it has one

ASSUME CrmPageAssumption == FirstCards \in Nat

VARIABLES crm,        \* React state of the page
          crmCalls,   \* its calls in flight
          crmDb       \* the server: pipelines, stages, fields, cards, calls lost so far

crmVars == <<crm, crmCalls, crmDb>>

DealStatuses == {"open", "won"}          \* a lost one is closed just as one that is won
Forms == {"deal", "pipeline", "stage", "fields", "card"}

NoCard == [id |-> 0, stage |-> <<>>, status |-> "open", behind |-> FALSE]

NewCard(stage) == [stage |-> stage, status |-> "open", values |-> 0]

Company(pipelines, stages, cards) ==
  [pipelines |-> pipelines, stages |-> stages, fields |-> {0}, cards |-> [c \in 1..cards |-> NewCard(<<1, 1>>)], lost |-> 0]

(* "muddled" remembers that calls overlapped, or that one failed, since    *)
(* the operator last did something with nothing in flight; "behind", that  *)
(* this was so since the dialog of the card was opened.                    *)
CrmOpened ==
  [mounted |-> TRUE, loading |-> TRUE, pipelines |-> {}, pipeline |-> 0, stages |-> {}, cards |-> <<>>,
   fields |-> {}, modal |-> None, card |-> NoCard, submitting |-> FALSE, acts |-> 0, muddled |-> FALSE]

CrmInit ==
  /\ crm = CrmOpened
  /\ crmCalls = Send({}, "pipelines", [select |-> 0, form |-> None])
  /\ crmDb \in {Company({}, {}, 0), Company({1, 2}, {<<1, 1>>, <<1, 2>>, <<2, 1>>}, FirstCards)}

StagesOf(p) == {s \in crmDb.stages : s[1] = p}
CardsOf(p) == {c \in DOMAIN crmDb.cards : crmDb.cards[c].stage[1] = p}
Board(p) == [stages |-> StagesOf(p), cards |-> [c \in CardsOf(p) |-> crmDb.cards[c]], fields |-> crmDb.fields]

ActsOnCrm == crm.mounted /\ ~crm.loading /\ Room(crm.acts, crmDb.lost) /\ CanCall(crmCalls)
CrmAct(page) == [page EXCEPT !.acts = @ + 1, !.muddled = crmCalls # {}, !.card.behind = @ \/ crmCalls # {}]

-----------------------------------------------------------------------------
(* Reading.  A read that belongs to a form ends it: the dialog closes,     *)
(* but for the one of the fields.                                          *)

Ends(page, form) ==
  IF form = None THEN page
  ELSE [page EXCEPT !.submitting = FALSE, !.modal = IF form = "fields" THEN @ ELSE None]

(* A pipeline just created is selected; the one selected stays; otherwise  *)
(* the default one.  A read that fails is told on the page and ends its    *)
(* form all the same.                                                      *)
PipelinesArrive(call) ==
  /\ crm.mounted /\ call \in Done(crmCalls, "pipelines")
  /\ LET form == call.about.form
     IN IF call.answer = Failed
        THEN crm' = Ends([crm EXCEPT !.loading = FALSE], form) /\ crmCalls' = crmCalls \ {call}
        ELSE LET found == call.answer.result.pipelines
                 next == IF call.about.select # 0 THEN call.about.select
                         ELSE IF found = {} THEN 0 ELSE CHOOSE p \in found : \A q \in found : p <= q
                 page == [crm EXCEPT !.pipelines = found, !.pipeline = next]
             IN IF next # 0
                THEN crm' = page /\ crmCalls' = Chain(crmCalls, call, "board", [pipeline |-> next, form |-> form])
                ELSE /\ crm' = Ends([page EXCEPT !.loading = FALSE, !.stages = {}, !.cards = <<>>], form)
                     /\ crmCalls' = crmCalls \ {call}
  /\ UNCHANGED crmDb

(* The board of the call is shown, whichever pipeline is selected by then. *)
BoardArrives(call) ==
  /\ crm.mounted /\ call \in Done(crmCalls, "board")
  /\ crmCalls' = crmCalls \ {call}
  /\ LET page == [crm EXCEPT !.loading = FALSE]
         board == call.answer.result
     IN crm' = Ends(IF call.answer = Failed THEN page
                    ELSE [page EXCEPT !.stages = board.stages, !.cards = board.cards, !.fields = board.fields],
                    call.about.form)
  /\ UNCHANGED crmDb

SelectPipeline(p) ==
  /\ ActsOnCrm /\ crm.modal = None /\ p \in crm.pipelines \ {crm.pipeline}
  /\ crm' = CrmAct([crm EXCEPT !.pipeline = p])
  /\ crmCalls' = Send(crmCalls, "board", [pipeline |-> p, form |-> None])
  /\ UNCHANGED crmDb

-----------------------------------------------------------------------------
(* The dialog *)

OpenForm(form) ==
  /\ crm.mounted /\ ~crm.loading /\ crm.modal = None /\ Room(crm.acts, crmDb.lost)
  /\ form \in Forms \ {"card"}
  /\ form # "pipeline" => crm.pipelines # {}
  /\ form = "deal" => crm.stages # {}
  /\ crm' = [crm EXCEPT !.modal = form]
  /\ UNCHANGED <<crmCalls, crmDb>>

(* The board and the list under it show the cards; the dialog has a copy   *)
(* of one, as they showed it.                                              *)
OnBoard(c) == crm.mounted /\ crm.modal = None /\ c \in DOMAIN crm.cards
InDialog(c) == crm.modal = "card" /\ c = crm.card.id

OpenCard(c) ==
  /\ OnBoard(c) /\ Room(crm.acts, crmDb.lost)
  /\ crm' = [crm EXCEPT !.modal = "card",
                        !.card = [id |-> c, stage |-> crm.cards[c].stage, status |-> crm.cards[c].status,
                                  behind |-> crmCalls # {}]]
  /\ UNCHANGED <<crmCalls, crmDb>>

(* Mutant of CloseForm: also while the form is being submitted.            *)
CloseForm_Always ==
  /\ crm.mounted /\ crm.modal # None
  /\ crm' = [crm EXCEPT !.modal = None]
  /\ UNCHANGED <<crmCalls, crmDb>>

CloseForm ==
  /\ crm.mounted /\ crm.modal # None /\ ~crm.submitting
  /\ crm' = [crm EXCEPT !.modal = None]
  /\ UNCHANGED <<crmCalls, crmDb>>

Submits(op, about) ==
  /\ ActsOnCrm /\ ~crm.submitting
  /\ crm' = CrmAct([crm EXCEPT !.submitting = TRUE])
  /\ crmCalls' = Send(crmCalls, op, about)
  /\ UNCHANGED crmDb

(* "stage" is the one chosen in the form; the phone is normalised and must *)
(* come with a name, or nothing is sent.                                   *)
CreateDeal(stage) ==
  /\ crm.modal = "deal" /\ stage \in crm.stages
  /\ Submits("deal", [pipeline |-> crm.pipeline, stage |-> stage, form |-> "deal"])

CreatePipeline == crm.modal = "pipeline" /\ Submits("pipeline", [form |-> "pipeline"])

CreateStage == crm.modal = "stage" /\ Submits("stage", [pipeline |-> crm.pipeline, form |-> "stage"])

CreateField == crm.modal = "fields" /\ Submits("field", [new |-> crm.acts + 1, pipeline |-> crm.pipeline, form |-> "fields"])

(* The fields of a card are edited and saved.                              *)
SaveCardFields ==
  /\ crm.modal = "card" /\ crm.fields # {}
  /\ Submits("card", [id |-> crm.card.id, values |-> crm.acts + 1, pipeline |-> crm.pipeline, form |-> "card"])

(* Unlike the forms, this does not keep the dialog from being closed.      *)
DeleteField(field) ==
  /\ ActsOnCrm /\ crm.modal = "fields" /\ field \in crm.fields
  /\ crm' = CrmAct(crm)
  /\ crmCalls' = Send(crmCalls, "deleteField", [field |-> field, pipeline |-> crm.pipeline, form |-> None])
  /\ UNCHANGED crmDb

(* From the board or from the dialog of the card, as each of them has it.  *)
MoveCard(c, stage, status) ==
  /\ ActsOnCrm /\ stage \in crm.stages
  /\ \/ /\ OnBoard(c)
        /\ stage # crm.cards[c].stage /\ status = crm.cards[c].status
     \/ /\ InDialog(c)
        /\ (stage = crm.card.stage) # (status = crm.card.status)
  /\ crm' = CrmAct(crm)
  /\ crmCalls' = Send(crmCalls, "move", [card |-> c, stage |-> stage, status |-> status, shown |-> crm.card.id = c,
                                         pipeline |-> crm.pipeline, form |-> None])
  /\ UNCHANGED crmDb

(* What was written to the card of the dialog goes to the card that is in  *)
(* the dialog by now.                                                      *)
Moved(call) ==
  IF call.op = "move" /\ call.about.shown
  THEN [crm EXCEPT !.card.stage = call.about.stage, !.card.status = call.about.status] ELSE crm

Writes == {"deal", "pipeline", "stage", "field", "card", "deleteField", "move"}

(* Mutant of CrmWriteAnswered: the board is not read again after a write.     *)
CrmWriteAnswered_NoReload(call) ==
  /\ crm.mounted /\ call.op \in Writes /\ call \in Done(crmCalls, call.op)
  /\ crm' = IF call.answer = Failed THEN [crm EXCEPT !.submitting = @ /\ call.about.form = None]
            ELSE Ends(Moved(call), call.about.form)
  /\ crmCalls' = crmCalls \ {call}
  /\ UNCHANGED crmDb

(* A write that fails leaves its form open.                                *)
CrmWriteAnswered(call) ==
  /\ crm.mounted /\ call.op \in Writes /\ call \in Done(crmCalls, call.op)
  /\ IF call.answer = Failed
     THEN /\ crm' = [crm EXCEPT !.submitting = @ /\ call.about.form = None, !.muddled = TRUE, !.card.behind = TRUE]
          /\ crmCalls' = crmCalls \ {call}
     ELSE /\ crm' = Moved(call)
          /\ crmCalls' = IF call.op = "pipeline"
               THEN Chain(crmCalls, call, "pipelines", [select |-> call.answer.result.pipeline, form |-> call.about.form])
               ELSE Chain(crmCalls, call, "board", [pipeline |-> call.about.pipeline, form |-> call.about.form])
  /\ UNCHANGED crmDb

(* Another page is chosen, or the conversations from the dialog of a card. *)
LeaveCrm ==
  /\ crm.mounted /\ crm.modal \in {None, "card"}
  /\ crm' = [crm EXCEPT !.mounted = FALSE, !.modal = None, !.submitting = FALSE]
  /\ crmCalls' = {c \in crmCalls : c.op \in Writes /\ c.answer = Waiting}
  /\ UNCHANGED crmDb

-----------------------------------------------------------------------------
(* The server, as internal/crm/handler.go has it: a new pipeline comes     *)
(* with stages; a card goes to a stage of its own pipeline.                *)

CrmWrites(call) ==
  LET about == call.about
      p == Cardinality(crmDb.pipelines) + 1
      n == Cardinality(StagesOf(about.pipeline)) + 1
  IN CASE call.op = "deal" -> [crmDb EXCEPT !.cards = Append(@, NewCard(about.stage))]
       [] call.op = "pipeline" -> [crmDb EXCEPT !.pipelines = @ \cup {p}, !.stages = @ \cup {<<p, 1>>}]
       [] call.op = "stage" -> [crmDb EXCEPT !.stages = @ \cup {<<about.pipeline, n>>}]
       [] call.op = "field" -> [crmDb EXCEPT !.fields = @ \cup {about.new}]
       [] call.op = "deleteField" -> [crmDb EXCEPT !.fields = @ \ {about.field}]
       [] call.op = "card" -> [crmDb EXCEPT !.cards[about.id].values = about.values]
       [] call.op = "move" -> [crmDb EXCEPT !.cards[about.card].stage = about.stage,
                                            !.cards[about.card].status = about.status]

Refused(call) ==
  \/ call.op = "deal" /\ call.about.stage[1] # call.about.pipeline
  \/ call.op = "move" /\ call.about.stage[1] # crmDb.cards[call.about.card].stage[1]
  \/ call.op = "deleteField" /\ call.about.field \notin crmDb.fields

CrmServer(call) ==
  /\ call \in crmCalls /\ call.answer = Waiting
  /\ \/ /\ call.op = "pipelines"
        /\ crmCalls' = Answered(crmCalls, call, Ok([pipelines |-> crmDb.pipelines])) /\ UNCHANGED crmDb
     \/ /\ call.op = "board"
        /\ crmCalls' = Answered(crmCalls, call, Ok(Board(call.about.pipeline))) /\ UNCHANGED crmDb
     \/ /\ call.op \in Writes /\ Refused(call)
        /\ crmCalls' = Answered(crmCalls, call, Failed) /\ UNCHANGED crmDb
     \/ /\ call.op \in Writes /\ ~Refused(call)
        /\ crmCalls' = Answered(crmCalls, call, Ok([pipeline |-> Cardinality(crmDb.pipelines) + 1]))
        /\ crmDb' = CrmWrites(call)
  /\ UNCHANGED crm

CrmCallFails(call) ==
  /\ call \in crmCalls /\ call.answer # Failed /\ MayFail(crm.acts, crmDb.lost)
  /\ crmCalls' = Answered(crmCalls, call, Failed)
  /\ crmDb' = [crmDb EXCEPT !.lost = @ + 1]
  /\ crm' = [crm EXCEPT !.muddled = TRUE, !.card.behind = TRUE]

CrmNext ==
  \/ CloseForm \/ CreatePipeline \/ CreateStage \/ CreateField \/ SaveCardFields \/ LeaveCrm
  \/ \E form \in Forms : OpenForm(form)
  \/ \E p \in crm.pipelines : SelectPipeline(p)
  \/ \E field \in crm.fields : DeleteField(field)
  \/ \E stage \in crm.stages : CreateDeal(stage)
  \/ \E c \in DOMAIN crmDb.cards : OpenCard(c)
  \/ \E c \in DOMAIN crmDb.cards, stage \in crm.stages, status \in DealStatuses : MoveCard(c, stage, status)
  \/ \E call \in crmCalls : PipelinesArrive(call) \/ BoardArrives(call) \/ CrmWriteAnswered(call)
                            \/ CrmServer(call) \/ CrmCallFails(call)

CrmSpec == CrmInit /\ [][CrmNext]_crmVars

-----------------------------------------------------------------------------
CrmTypeOK ==
  /\ {crm.mounted, crm.loading, crm.submitting, crm.muddled} \subseteq BOOLEAN
  /\ crm.modal \in Forms \cup {None} /\ crm.pipeline \in Nat /\ crm.pipelines \subseteq Nat
  /\ \A c \in DOMAIN crm.cards : crm.cards[c].status \in DealStatuses
  /\ crmDb.lost \in 0..MaxLost

(* A form that has been submitted stays open, and cannot be submitted      *)
(* again, until its last answer is in: that answer ends no other form.     *)
CrmFormsHeld ==
  \A call \in crmCalls : crm.mounted /\ call.about.form # None => crm.submitting /\ crm.modal = call.about.form

(* With nothing in flight, and unless calls overlapped or failed, the      *)
(* board shown is the one of the pipeline selected, as the server has it,  *)
(* and the card in the dialog stands where the server has it.              *)
BoardIsTrue ==
  crm.mounted /\ crmCalls = {} /\ ~crm.muddled /\ crm.pipeline # 0 =>
    /\ [stages |-> crm.stages, cards |-> crm.cards, fields |-> crm.fields] = Board(crm.pipeline)
    /\ crm.modal = "card" /\ ~crm.card.behind =>
         /\ crmDb.cards[crm.card.id].stage = crm.card.stage
         /\ crmDb.cards[crm.card.id].status = crm.card.status
=============================================================================
