---------------------------- MODULE TemplatesPage ----------------------------
(***************************************************************************)
(* The page of message templates (web/src/pages/Templates.jsx): the        *)
(* list, its synchronisation with Meta, and the builder, whose header may  *)
(* need a sample file that is uploaded while the operator goes on filling  *)
(* in the form.                                                            *)
(*                                                                         *)
(* A name stands for one filling of the name field; texts, variables,      *)
(* buttons and the preview are left out.  A file is of the kind of header  *)
(* it was chosen for.                                                      *)
(***************************************************************************)
EXTENDS PanelCalls

CONSTANT MetaChannels   \* official channels of the company

ASSUME TemplatesPageAssumption == None \notin MetaChannels

VARIABLES builder,         \* React state of the page
          templateCalls,   \* its calls in flight
          templateDb       \* the server: templates by name, those of Meta, calls lost so far

templateVars == <<builder, templateCalls, templateDb>>

MediaKinds == {"image", "video"}
HeaderKinds == {"none", "text"} \cup MediaKinds

(* "behind" remembers that an upload on its way was not chosen for the     *)
(* header that is shown now.                                               *)
EmptyForm == [name |-> 0, header |-> "none", sample |-> None, behind |-> FALSE]

TemplatesOpened(acts) ==
  [mounted |-> TRUE, shown |-> {}, channels |-> {}, channel |-> None, syncing |-> FALSE, open |-> FALSE,
   form |-> EmptyForm, uploading |-> FALSE, notice |-> "", acts |-> acts]

(* Meta has a template, name 0, that the panel learns of by synchronising. *)
TemplatesInit ==
  /\ builder = TemplatesOpened(0)
  /\ templateCalls = Send({}, "load", [why |-> "open"])
  /\ templateDb \in [channels : SUBSET MetaChannels, rows : {{}}, synced : {FALSE}, lost : {0}]

Uploads == {c \in templateCalls : c.op = "upload"}
ActsOnTemplates == builder.mounted /\ Room(builder.acts, templateDb.lost) /\ CanCall(templateCalls)
TemplateAct(page) == [page EXCEPT !.acts = @ + 1]
Listed == {r.name : r \in templateDb.rows}

-----------------------------------------------------------------------------
(* The list.  Each load goes back to the first official channel.           *)
LoadArrives(call) ==
  /\ builder.mounted /\ call \in Done(templateCalls, "load")
  /\ templateCalls' = templateCalls \ {call}
  /\ LET synced == [builder EXCEPT !.syncing = @ /\ call.about.why # "sync",
                                   !.notice = IF call.about.why = "sync" THEN "synced" ELSE @]
     IN IF call.answer = Failed THEN builder' = synced
        ELSE LET found == call.answer.result.channels
                 page == [synced EXCEPT !.shown = call.answer.result.rows, !.channels = found]
             IN IF found = {} THEN builder' = page
                ELSE builder' = [page EXCEPT !.channel = CHOOSE c \in found : TRUE]
  /\ UNCHANGED templateDb

SelectMetaChannel(channel) ==
  /\ builder.mounted /\ channel \in builder.channels \ {builder.channel} /\ Room(builder.acts, templateDb.lost)
  /\ builder' = TemplateAct([builder EXCEPT !.channel = channel])
  /\ UNCHANGED <<templateCalls, templateDb>>

HandleSyncMetaTemplates ==
  /\ ActsOnTemplates /\ ~builder.open /\ ~builder.syncing /\ builder.channels # {}
  /\ builder' = TemplateAct([builder EXCEPT !.syncing = TRUE, !.notice = ""])
  /\ templateCalls' = Send(templateCalls, "sync", [channel |-> builder.channel])
  /\ UNCHANGED templateDb

(* The whole list comes back; an empty one is read once more.              *)
SyncArrives(call) ==
  /\ builder.mounted /\ call \in Done(templateCalls, "sync")
  /\ IF call.answer # Failed /\ call.answer.result.rows = {}
     THEN /\ templateCalls' = Chain(templateCalls, call, "load", [why |-> "sync"])
          /\ UNCHANGED builder
     ELSE /\ templateCalls' = templateCalls \ {call}
          /\ builder' = IF call.answer = Failed THEN [builder EXCEPT !.syncing = FALSE]
                        ELSE [builder EXCEPT !.syncing = FALSE, !.shown = call.answer.result.rows,
                                             !.notice = "synced"]
  /\ UNCHANGED templateDb

(* The list of templates, which the builder takes the place of.            *)
TemplateRow(name) == ~builder.open /\ name \in builder.shown

HandleDeleteTemplate(name) ==
  /\ ActsOnTemplates /\ TemplateRow(name)
  /\ builder' = TemplateAct(builder)
  /\ templateCalls' = Send(templateCalls, "delete", [name |-> name])
  /\ UNCHANGED templateDb

DeleteAnswered(call) ==
  /\ builder.mounted /\ call \in Done(templateCalls, "delete")
  /\ templateCalls' = templateCalls \ {call}
  /\ builder' = IF call.answer = Failed THEN builder
                ELSE [builder EXCEPT !.shown = @ \ {call.about.name}]
  /\ UNCHANGED templateDb

-----------------------------------------------------------------------------
(* The builder.  It keeps what was filled in when it is closed.            *)

OpenBuilder ==
  /\ builder.mounted /\ ~builder.open /\ Room(builder.acts, templateDb.lost)
  /\ builder' = TemplateAct([builder EXCEPT !.open = TRUE])
  /\ UNCHANGED <<templateCalls, templateDb>>

CloseBuilder ==
  /\ builder.mounted /\ builder.open
  /\ builder' = [builder EXCEPT !.open = FALSE]
  /\ UNCHANGED <<templateCalls, templateDb>>

FillName ==
  /\ builder.mounted /\ builder.open /\ builder.form.name = 0
  /\ builder' = [builder EXCEPT !.form.name = builder.acts]
  /\ UNCHANGED <<templateCalls, templateDb>>

(* Mutant of ChangeHeader: the sample of the last header is kept.          *)
ChangeHeader_KeepsSample(header) ==
  /\ builder.mounted /\ builder.open /\ header # builder.form.header
  /\ builder' = [builder EXCEPT !.form = [@ EXCEPT !.header = header, !.behind = Uploads # {}]]
  /\ UNCHANGED <<templateCalls, templateDb>>

ChangeHeader(header) ==
  /\ builder.mounted /\ builder.open /\ header # builder.form.header
  /\ builder' = [builder EXCEPT !.form = [@ EXCEPT !.header = header, !.sample = None, !.behind = Uploads # {}]]
  /\ UNCHANGED <<templateCalls, templateDb>>

HandleHeaderMediaUpload ==
  /\ ActsOnTemplates /\ builder.open /\ builder.form.header \in MediaKinds
  /\ builder' = TemplateAct([builder EXCEPT !.uploading = TRUE])
  /\ templateCalls' = Send(templateCalls, "upload", [kind |-> builder.form.header])
  /\ UNCHANGED templateDb

(* Whatever header is shown by now gets the file; the first answer ends    *)
(* "uploading" even if another file is still on its way.                   *)
UploadArrives(call) ==
  /\ builder.mounted /\ call \in Done(templateCalls, "upload")
  /\ templateCalls' = templateCalls \ {call}
  /\ builder' = [builder EXCEPT !.uploading = FALSE,
                                !.form.sample = IF call.answer = Failed THEN None ELSE call.about.kind]
  /\ UNCHANGED templateDb

(* The validator, as far as the header goes: a media header needs its      *)
(* sample, and an upload to be over.                                       *)
HeaderErrors ==
  builder.form.header \in MediaKinds /\ (builder.uploading \/ builder.form.sample = None)

(* Nothing keeps the operator from sending it twice.                       *)
HandleCreateTemplate ==
  /\ ActsOnTemplates /\ builder.open /\ builder.form.name # 0 /\ ~HeaderErrors
  /\ builder' = TemplateAct(builder)
  /\ templateCalls' = Send(templateCalls, "create", [form |-> builder.form])
  /\ UNCHANGED templateDb

(* The builder is closed and emptied, whatever it holds by then.           *)
CreateAnswered(call) ==
  /\ builder.mounted /\ call \in Done(templateCalls, "create")
  /\ templateCalls' = templateCalls \ {call}
  /\ builder' = IF call.answer = Failed THEN builder
                ELSE [builder EXCEPT !.shown = @ \cup {call.about.form.name}, !.open = FALSE, !.notice = "created",
                                     !.form = [EmptyForm EXCEPT !.behind = Uploads # {}]]
  /\ UNCHANGED templateDb

LeaveTemplates ==
  /\ builder.mounted
  /\ builder' = [TemplatesOpened(MaxActs) EXCEPT !.mounted = FALSE]
  /\ templateCalls' = {c \in templateCalls : c.op \in {"create", "delete"} /\ c.answer = Waiting}
  /\ UNCHANGED templateDb

-----------------------------------------------------------------------------
(* The server: a name is taken once; synchronising brings what Meta has.   *)

Reads(db) == Ok([rows |-> {r.name : r \in db.rows} \cup (IF db.synced THEN {0} ELSE {}), channels |-> db.channels])

TemplateServer(call) ==
  /\ call \in templateCalls /\ call.answer = Waiting
  /\ LET db == templateDb
         Replies(next, answer) == templateDb' = next /\ templateCalls' = Answered(templateCalls, call, answer)
         synced == [db EXCEPT !.synced = TRUE]
         form == call.about.form
     IN \/ call.op = "load" /\ Replies(db, Reads(db))
        \/ call.op = "sync" /\ \E next \in {db, synced} : Replies(next, Reads(next))
        \/ call.op = "upload" /\ Replies(db, Ok([done |-> TRUE]))
        \/ /\ call.op = "delete"
           /\ Replies([db EXCEPT !.rows = {r \in @ : r.name # call.about.name},
                                 !.synced = @ /\ call.about.name # 0], Ok([done |-> TRUE]))
        \/ /\ call.op = "create"
           /\ IF form.name \in Listed THEN Replies(db, Failed)
              ELSE Replies([db EXCEPT !.rows = @ \cup {form}], Ok([done |-> TRUE]))
  /\ UNCHANGED builder

TemplateCallFails(call) ==
  /\ call \in templateCalls /\ call.answer # Failed /\ MayFail(builder.acts, templateDb.lost)
  /\ templateCalls' = Answered(templateCalls, call, Failed)
  /\ templateDb' = [templateDb EXCEPT !.lost = @ + 1]
  /\ UNCHANGED builder

TemplatesNext ==
  \/ HandleSyncMetaTemplates \/ OpenBuilder \/ CloseBuilder \/ FillName \/ HandleHeaderMediaUpload
  \/ HandleCreateTemplate \/ LeaveTemplates
  \/ \E channel \in MetaChannels : SelectMetaChannel(channel)
  \/ \E name \in 0..MaxActs : HandleDeleteTemplate(name)
  \/ \E header \in HeaderKinds : ChangeHeader(header)
  \/ \E call \in templateCalls :
       \/ LoadArrives(call) \/ SyncArrives(call) \/ DeleteAnswered(call) \/ UploadArrives(call)
       \/ CreateAnswered(call) \/ TemplateServer(call) \/ TemplateCallFails(call)

TemplatesSpec == TemplatesInit /\ [][TemplatesNext]_templateVars

-----------------------------------------------------------------------------
TemplatesTypeOK ==
  /\ {builder.mounted, builder.syncing, builder.open, builder.uploading} \subseteq BOOLEAN
  /\ builder.shown \subseteq 0..MaxActs /\ builder.channel \in MetaChannels \cup {None}
  /\ builder.form \in [name : 0..MaxActs, header : HeaderKinds, sample : MediaKinds \cup {None}, behind : BOOLEAN]
  /\ templateDb.lost \in 0..MaxLost

(* What is submitted to Meta with a media header has a sample, and one of  *)
(* that kind, unless the header was changed or the form emptied while an   *)
(* upload was on its way.                                                  *)
SampleIsOfTheHeader ==
  \A r \in templateDb.rows : r.header \in MediaKinds =>
    r.sample # None /\ (r.sample = r.header \/ r.behind)
=============================================================================
