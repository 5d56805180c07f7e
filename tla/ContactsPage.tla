---------------------------- MODULE ContactsPage ----------------------------
(***************************************************************************)
(* The page of contacts (web/src/pages/Contacts.jsx): a list that is       *)
(* searched by the server, a page at a time, and four forms in one dialog. *)
(* What is typed in the search is applied 250 ms after the last key, and   *)
(* each change of the search or of the page reads the list, whatever reads *)
(* are still on their way; a saved form reads it as the page was when the  *)
(* form was submitted.                                                     *)
(*                                                                         *)
(* A list is told apart by its search, its page and how often the contacts *)
(* had been changed; the contacts themselves are left out.                 *)
(***************************************************************************)
EXTENDS PanelCalls

CONSTANTS Searches,   \* what can be searched for, "" included
          MaxPages    \* bound: pages of a list

ASSUME ContactsPageAssumption == "" \in Searches /\ MaxPages \in Nat \ {0}

VARIABLES people,      \* React state of the page
          peopleCalls, \* its calls in flight
          peopleDb     \* the server: changes of contacts and of fields, calls lost so far

peopleVars == <<people, peopleCalls, peopleDb>>

Dialogs == {"create", "edit", "field", "merge"}
NoList == [search |-> "", page |-> 0, changes |-> 0]

Reading(page, form) == [search |-> page.search, page |-> page.page, form |-> form]

(* "typed" is a timer that has not fired yet; "muddled" remembers that     *)
(* calls overlapped or that one failed since the list was last asked for   *)
(* with nothing in flight.                                                 *)
ContactsOpened ==
  [mounted |-> TRUE, view |-> "contacts", input |-> "", typed |-> TRUE, search |-> "", page |-> 1,
   pages |-> 1, list |-> NoList, fields |-> 0, modal |-> None, submitting |-> FALSE, acts |-> 0, muddled |-> FALSE]

ContactsInit ==
  /\ people = ContactsOpened
  /\ peopleCalls = Send(Send({}, "list", Reading(people, None)), "fields", [form |-> None])
  /\ peopleDb = [changes |-> 0, fields |-> 0, lost |-> 0]

ActsOnContacts == people.mounted /\ Room(people.acts, peopleDb.lost) /\ CanCall(peopleCalls)
ContactAct(page, reads) ==
  [page EXCEPT !.acts = @ + 1, !.muddled = peopleCalls # {} \/ (@ /\ ~reads)]

-----------------------------------------------------------------------------
(* The list *)

(* A view of the page, uncovered: the list, or the custom fields.          *)
OnView(view) == people.mounted /\ people.modal = None /\ people.view = view

TypeSearch(input) ==
  /\ OnView("contacts")
  /\ input \in Searches \ {people.input} /\ Room(people.acts, peopleDb.lost)
  /\ people' = [people EXCEPT !.acts = @ + 1, !.input = input, !.typed = TRUE]
  /\ UNCHANGED <<peopleCalls, peopleDb>>

(* Mutant of Debounce: the list is read with the search of before.         *)
Debounce_StaleSearch ==
  /\ people.mounted /\ people.typed
  /\ LET next == [people EXCEPT !.typed = FALSE, !.search = people.input, !.page = 1]
     IN IF next.search = people.search /\ next.page = people.page
        THEN people' = next /\ UNCHANGED peopleCalls
        ELSE /\ CanCall(peopleCalls)
             /\ people' = [next EXCEPT !.muddled = peopleCalls # {}]
             /\ peopleCalls' = Send(peopleCalls, "list", Reading(people, None))
  /\ UNCHANGED peopleDb

(* The timer fires, in a form too: the search starts at its first page.    *)
Debounce ==
  /\ people.mounted /\ people.typed
  /\ LET next == [people EXCEPT !.typed = FALSE, !.search = people.input, !.page = 1]
     IN IF next.search = people.search /\ next.page = people.page
        THEN people' = next /\ UNCHANGED peopleCalls
        ELSE /\ CanCall(peopleCalls)
             /\ people' = [next EXCEPT !.muddled = peopleCalls # {}]
             /\ peopleCalls' = Send(peopleCalls, "list", Reading(next, None))
  /\ UNCHANGED peopleDb

TurnPage(page) ==
  /\ ActsOnContacts /\ OnView("contacts")
  /\ page \in {people.page - 1, people.page + 1} \cap (1..people.pages)
  /\ people' = ContactAct([people EXCEPT !.page = page], TRUE)
  /\ peopleCalls' = Send(peopleCalls, "list", Reading(people', None))
  /\ UNCHANGED peopleDb

(* Whoever reads for a form ends it, even if the list could not be read.   *)
Finishes(page, form) ==
  IF form = None THEN page ELSE [page EXCEPT !.modal = None, !.submitting = FALSE]

ContactsArrive(call) ==
  /\ people.mounted /\ call \in Done(peopleCalls, "list")
  /\ peopleCalls' = peopleCalls \ {call}
  /\ people' = Finishes(IF call.answer = Failed THEN people
                        ELSE [people EXCEPT !.list = call.answer.result.list, !.pages = call.answer.result.pages],
                        call.about.form)
  /\ UNCHANGED peopleDb

FieldsArrive(call) ==
  /\ people.mounted /\ call \in Done(peopleCalls, "fields")
  /\ peopleCalls' = peopleCalls \ {call}
  /\ people' = Finishes(IF call.answer = Failed THEN people ELSE [people EXCEPT !.fields = call.answer.result.fields],
                        call.about.form)
  /\ UNCHANGED peopleDb

ChooseView(view) ==
  /\ people.mounted /\ people.modal = None /\ view # people.view
  /\ people' = [people EXCEPT !.view = view]
  /\ UNCHANGED <<peopleCalls, peopleDb>>

-----------------------------------------------------------------------------
(* The dialog *)

OpenDialog(form) ==
  /\ OnView(IF form = "field" THEN "fields" ELSE "contacts") /\ Room(people.acts, peopleDb.lost)
  /\ form = "edit" => people.list.page > 0
  /\ people' = [people EXCEPT !.modal = form]
  /\ UNCHANGED <<peopleCalls, peopleDb>>

CloseDialog ==
  /\ people.mounted /\ people.modal # None /\ ~people.submitting
  /\ people' = [people EXCEPT !.modal = None]
  /\ UNCHANGED <<peopleCalls, peopleDb>>

(* Mutant of SaveDialog: the button stays enabled while it submits.        *)
SaveDialog_Enabled ==
  /\ ActsOnContacts /\ people.modal # None
  /\ people' = ContactAct([people EXCEPT !.submitting = TRUE], people.modal # "field")
  /\ peopleCalls' = Send(peopleCalls, "save", Reading(people, people.modal))
  /\ UNCHANGED peopleDb

(* saveContact, saveField and saveMerge: a phone that cannot be normalised *)
(* and two equal contacts to merge are refused before anything is sent.    *)
SaveDialog ==
  /\ ActsOnContacts /\ people.modal # None /\ ~people.submitting
  /\ people' = ContactAct([people EXCEPT !.submitting = TRUE], people.modal # "field")
  /\ peopleCalls' = Send(peopleCalls, "save", Reading(people, people.modal))
  /\ UNCHANGED peopleDb

(* The list is read for the search and the page that the form was          *)
(* submitted under.  A form that could not be saved stays open.            *)
DialogAnswered(call) ==
  /\ people.mounted /\ call \in Done(peopleCalls, "save")
  /\ IF call.answer = Failed
     THEN /\ people' = [people EXCEPT !.submitting = @ /\ call.about.form = None]
          /\ peopleCalls' = peopleCalls \ {call}
     ELSE /\ UNCHANGED people
          /\ peopleCalls' = IF call.about.form = "field"
               THEN Chain(peopleCalls, call, "fields", [form |-> "field"])
               ELSE Chain(peopleCalls, call, "list", call.about)
  /\ UNCHANGED peopleDb

DeleteContactField ==
  /\ ActsOnContacts /\ OnView("fields") /\ people.fields > 0
  /\ people' = ContactAct(people, FALSE)
  /\ peopleCalls' = Send(peopleCalls, "deleteField", [form |-> None])
  /\ UNCHANGED peopleDb

FieldDeleted(call) ==
  /\ people.mounted /\ call \in Done(peopleCalls, "deleteField")
  /\ peopleCalls' = IF call.answer = Failed THEN peopleCalls \ {call}
                    ELSE Chain(peopleCalls, call, "fields", call.about)
  /\ UNCHANGED <<people, peopleDb>>

(* Another page, or the conversations from the dialog of a contact.        *)
LeaveContacts ==
  /\ people.mounted /\ people.modal \in {None, "edit"}
  /\ people' = [people EXCEPT !.mounted = FALSE, !.modal = None, !.submitting = FALSE, !.typed = FALSE]
  /\ peopleCalls' = {c \in peopleCalls : c.op \in {"save", "deleteField"} /\ c.answer = Waiting}
  /\ UNCHANGED peopleDb

-----------------------------------------------------------------------------
(* The server; how many pages a list has is left open.                     *)

ContactServer(call) ==
  /\ call \in peopleCalls /\ call.answer = Waiting
  /\ LET Replies(db, answer) == peopleDb' = db /\ peopleCalls' = Answered(peopleCalls, call, answer)
         about == call.about
         list == [search |-> about.search, page |-> about.page, changes |-> peopleDb.changes]
         done == Ok([done |-> TRUE])
     IN \/ call.op = "list" /\ \E pages \in 1..MaxPages : Replies(peopleDb, Ok([list |-> list, pages |-> pages]))
        \/ call.op = "fields" /\ Replies(peopleDb, Ok([fields |-> peopleDb.fields]))
        \/ call.op = "save" /\ about.form = "field" /\ Replies([peopleDb EXCEPT !.fields = @ + 1], done)
        \/ call.op = "save" /\ about.form # "field" /\ Replies([peopleDb EXCEPT !.changes = @ + 1], done)
        \/ /\ call.op = "deleteField"
           /\ IF peopleDb.fields = 0 THEN Replies(peopleDb, Failed)
              ELSE Replies([peopleDb EXCEPT !.fields = @ - 1], done)
  /\ UNCHANGED people

(* A call that fails; contacts whose data clash are refused the same way.  *)
ContactCallFails(call) ==
  /\ call \in peopleCalls /\ call.answer # Failed /\ MayFail(people.acts, peopleDb.lost)
  /\ peopleCalls' = Answered(peopleCalls, call, Failed)
  /\ peopleDb' = [peopleDb EXCEPT !.lost = @ + 1]
  /\ people' = [people EXCEPT !.muddled = TRUE]

ContactsNext ==
  \/ Debounce \/ CloseDialog \/ SaveDialog \/ DeleteContactField \/ LeaveContacts
  \/ \E input \in Searches : TypeSearch(input)
  \/ \E page \in 1..MaxPages : TurnPage(page)
  \/ \E view \in {"contacts", "fields"} : ChooseView(view)
  \/ \E form \in Dialogs : OpenDialog(form)
  \/ \E call \in peopleCalls : ContactsArrive(call) \/ FieldsArrive(call) \/ DialogAnswered(call)
                               \/ FieldDeleted(call) \/ ContactServer(call) \/ ContactCallFails(call)

ContactsSpec == ContactsInit /\ [][ContactsNext]_peopleVars

-----------------------------------------------------------------------------
ContactsTypeOK ==
  /\ {people.mounted, people.typed, people.submitting, people.muddled} \subseteq BOOLEAN
  /\ {people.input, people.search} \subseteq Searches /\ {people.page, people.pages} \subseteq 1..MaxPages
  /\ people.list \in [search : Searches, page : 0..MaxPages, changes : 0..MaxActs]
  /\ people.modal \in Dialogs \cup {None} /\ people.view \in {"contacts", "fields"}
  /\ peopleDb.lost \in 0..MaxLost

(* A form that has been submitted stays open, and cannot be submitted      *)
(* again, until its last answer is in: that answer ends no other form.     *)
ContactFormsHeld ==
  \A c1, c2 \in peopleCalls : people.mounted /\ c1.about.form # None =>
    /\ people.submitting /\ people.modal = c1.about.form
    /\ c2.about.form # None => c1 = c2

(* With nothing in flight, and unless calls overlapped or failed, the list *)
(* shown is that of the search and of the page that are shown, after every *)
(* change of the contacts.                                                 *)
ListIsOfTheSearch ==
  people.mounted /\ peopleCalls = {} /\ ~people.muddled /\ people.list.page > 0 =>
    people.list = [search |-> people.search, page |-> people.page, changes |-> peopleDb.changes]
=============================================================================
