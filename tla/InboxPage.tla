------------------------------ MODULE InboxPage ------------------------------
(***************************************************************************)
(* The page on which operators talk to contacts                            *)
(* (web/src/pages/Conversations.jsx).  A thread is put together from       *)
(* three sources that are not ordered among themselves: the answer to the  *)
(* GET of its messages, the answers to the operator's own POSTs and the    *)
(* events of the websocket.                                                *)
(*                                                                         *)
(* Message n is the nth message stored.  What a conversation says, its tags*)
(* and its place in the list are left out; "details" is the conversation   *)
(* whose contact the side panel shows.                                     *)
(***************************************************************************)
EXTENDS PanelCalls, Positions

CONSTANTS Convs,          \* conversations of the company
          Official,       \* those on a channel with the 24 hour window
          Shifts,         \* what an instance is about: [duties, mine], see Duties
          MaxMessages,    \* bound: messages stored
          MaxFaults,      \* bound: losses of the websocket and failed calls
          MaxVisits       \* bound: threads opened, messages sent and other calls

Filters == {"mine", "unassigned", "all", "resolved"}

(* What happens while the page is open: contacts write and are answered,   *)
(* the list is filtered, conversations are resolved and assigned, tagged.  *)
Duties == {"write", "filter", "status", "assign", "tag"}

ASSUME InboxAssumption ==
  /\ None \notin Convs
  /\ Official \subseteq Convs
  /\ Shifts \subseteq [duties : SUBSET Duties, mine : SUBSET Convs]
  /\ MaxMessages \in Nat /\ MaxFaults \in Nat /\ MaxVisits \in Nat

VARIABLES inbox,        \* React state of the page
          inboxCalls,   \* its calls in flight
          inboxDb,      \* the server: conversations and messages
          inboxLine     \* the websocket: events on their way, and the faults so far

inboxVars == <<inbox, inboxCalls, inboxDb, inboxLine>>

Statuses == {"pending", "sent"}
Entry == [id : 1..MaxMessages, status : Statuses, via : {"load", "event", "send"}]
Event == [type : {"new_message", "message_status", "assigned_changed", "status_changed"},
          conv : Convs, id : 0..MaxMessages, status : Statuses]

Messages == inboxDb.messages
MessagesOf(c) == {n \in DOMAIN Messages : Messages[n].conv = c}

Matches(c, filter) ==
  CASE filter = "mine" -> inboxDb.mine[c] /\ inboxDb.status[c] = "open"
    [] filter = "unassigned" -> ~inboxDb.mine[c] /\ inboxDb.status[c] = "open"
    [] filter = "resolved" -> inboxDb.status[c] = "resolved"
    [] OTHER -> TRUE

(* The hub pushes an event to the socket, when there is one.               *)
Push(type, c, n, status) ==
  inboxLine' = IF inboxLine.open
               THEN [inboxLine EXCEPT !.events =
                       Append(@, [type |-> type, conv |-> c, id |-> n, status |-> status])]
               ELSE inboxLine

InboxStart(wide, duties) ==
  [mounted |-> TRUE, wide |-> wide, duties |-> duties, filter |-> "mine", list |-> {}, selected |-> None, loading |-> FALSE,
   thread |-> <<>>, statuses |-> {}, details |-> None, refetch |-> FALSE, calls |-> 0]

(* The page asks for the list of the filter it opens with at once.         *)
InboxInit ==
  /\ \E wide \in BOOLEAN, shift \in Shifts :
       /\ inbox = InboxStart(wide, shift.duties)
       /\ inboxDb = [messages |-> <<>>, mine |-> [c \in Convs |-> c \in shift.mine],
                     status |-> [c \in Convs |-> "open"]]
  /\ inboxCalls = Send({}, "list", "mine")
  /\ inboxLine = [open |-> TRUE, events |-> <<>>, faults |-> 0]

Acts(duty) == duty \in inbox.duties
Acting == inbox.mounted /\ inbox.calls < MaxVisits /\ CanCall(inboxCalls)
Counted(ui) == [ui EXCEPT !.calls = @ + 1]

-----------------------------------------------------------------------------
(* The list *)

(* Opening a thread clears what was shown of the last one, except its      *)
(* messages: the spinner hides them until the answer replaces them.        *)
Opening(ui, c) == [ui EXCEPT !.selected = c, !.loading = TRUE, !.details = None]

SetFilter(f) ==
  /\ Acting /\ Acts("filter") /\ f # inbox.filter
  /\ inbox' = Counted([inbox EXCEPT !.filter = f])
  /\ inboxCalls' = Send(inboxCalls, "list", f)
  /\ UNCHANGED <<inboxDb, inboxLine>>

RefetchFires ==
  /\ Acting /\ inbox.refetch
  /\ inbox' = Counted([inbox EXCEPT !.refetch = FALSE])
  /\ inboxCalls' = Send(inboxCalls, "list", inbox.filter)
  /\ UNCHANGED <<inboxDb, inboxLine>>

(* The first conversation of the list is opened on wide screens when no    *)
(* thread is.  The answer is not matched with the filter shown by then.    *)
InboxListArrives(call) ==
  /\ call \in Done(inboxCalls, "list")
  /\ IF call.answer = Failed
     THEN inbox' = inbox /\ inboxCalls' = inboxCalls \ {call}
     ELSE LET rows == call.answer.result.rows
              ui == [inbox EXCEPT !.list = rows]
          IN IF inbox.selected = None /\ rows # {} /\ inbox.wide
             THEN \E c \in rows : /\ inbox' = Opening(ui, c)
                                  /\ inboxCalls' = Chain(inboxCalls, call, "open", c)
             ELSE inbox' = ui /\ inboxCalls' = inboxCalls \ {call}
  /\ UNCHANGED <<inboxDb, inboxLine>>

(* The panel of the list: a row for each conversation the server listed.   *)
ListPanel(c) == c \in inbox.list

SelectConversation(c) ==
  /\ Acting /\ ListPanel(c)
  /\ inbox' = Counted(Opening(inbox, c))
  /\ inboxCalls' = Send(inboxCalls, "open", c)
  /\ UNCHANGED <<inboxDb, inboxLine>>

(* The header of the thread.  Which of its buttons the row's copy of the   *)
(* conversation shows is left open.                                        *)
ThreadHeader == inbox.mounted /\ inbox.selected # None

BackToList ==
  /\ ThreadHeader /\ ~inbox.wide
  /\ inbox' = [inbox EXCEPT !.selected = None]
  /\ UNCHANGED <<inboxCalls, inboxDb, inboxLine>>

(* Mutant of ThreadArrives: an answer is shown whatever is selected now.   *)
ThreadArrives_AnySelection(call) ==
  /\ call \in Done(inboxCalls, "open")
  /\ inboxCalls' = inboxCalls \ {call}
  /\ inbox' = IF call.answer = Failed
              THEN [inbox EXCEPT !.thread = <<>>, !.loading = FALSE]
              ELSE [inbox EXCEPT !.thread = call.answer.result.thread, !.loading = FALSE,
                                 !.details = call.about]
  /\ UNCHANGED <<inboxDb, inboxLine>>

(* The messages of a thread replace what is shown, if it is still the one  *)
(* the operator has open.                                                  *)
ThreadArrives(call) ==
  /\ call \in Done(inboxCalls, "open")
  /\ inboxCalls' = inboxCalls \ {call}
  /\ inbox' = CASE inbox.selected # call.about -> inbox
                [] inbox.selected = call.about /\ call.answer = Failed ->
                     [inbox EXCEPT !.thread = <<>>, !.loading = FALSE]
                [] OTHER -> [inbox EXCEPT !.thread = call.answer.result.thread, !.loading = FALSE,
                                          !.details = call.about]
  /\ UNCHANGED <<inboxDb, inboxLine>>

-----------------------------------------------------------------------------
(* The websocket *)

InThread(n) == \E k \in DOMAIN inbox.thread : inbox.thread[k].id = n
KnownStatus(n, status) ==
  IF \E s \in inbox.statuses : s[1] = n THEN "sent" ELSE status

(* A message is added to the thread once, by whichever of the event and    *)
(* the POST's answer comes first.                                          *)
Added(n, status, via) ==
  IF InThread(n) THEN inbox.thread
  ELSE Append(inbox.thread, [id |-> n, status |-> KnownStatus(n, status), via |-> via])

NewMessage(e) ==
  inbox' = [inbox EXCEPT !.thread = IF e.conv = inbox.selected THEN Added(e.id, e.status, "event") ELSE @,
                         !.refetch = @ \/ e.conv \notin inbox.list]

MessageStatus(e) ==
  inbox' = IF e.conv # inbox.selected THEN inbox
           ELSE [inbox EXCEPT
                   !.statuses = @ \cup {<<e.id, e.status>>},
                   !.thread = [k \in DOMAIN @ |-> IF @[k].id = e.id
                                                  THEN [@[k] EXCEPT !.status = e.status] ELSE @[k]]]

EventArrives ==
  /\ inbox.mounted /\ inboxLine.events # <<>>
  /\ LET e == Head(inboxLine.events)
     IN CASE e.type = "new_message" -> NewMessage(e)
          [] e.type = "message_status" -> MessageStatus(e)
          [] OTHER -> inbox' = [inbox EXCEPT !.refetch = TRUE]
  /\ inboxLine' = [inboxLine EXCEPT !.events = Tail(@)]
  /\ UNCHANGED <<inboxCalls, inboxDb>>

(* Events on their way are lost with the socket; it reopens later.         *)
SocketLost ==
  /\ inbox.mounted /\ inboxLine.open /\ inboxLine.faults < MaxFaults
  /\ inboxLine' = [open |-> FALSE, events |-> <<>>, faults |-> inboxLine.faults + 1]
  /\ UNCHANGED <<inbox, inboxCalls, inboxDb>>

SocketReopens ==
  /\ inbox.mounted /\ ~inboxLine.open
  /\ inboxLine' = [inboxLine EXCEPT !.open = TRUE]
  /\ UNCHANGED <<inbox, inboxCalls, inboxDb>>

-----------------------------------------------------------------------------
(* Writing *)

(* Free text on an official channel needs a message of the contact in the  *)
(* thread; a note for the team does not.                                   *)
FreeTextBlocked(mode) ==
  /\ inbox.selected \in Official
  /\ mode = "message"
  /\ \A k \in DOMAIN inbox.thread : Messages[inbox.thread[k].id].from # "contact"

Composer(mode) == inbox.selected # None /\ ~FreeTextBlocked(mode)

(* Enter sends again while the last POST is still on its way.              *)
HandleSendMessage(mode) ==
  /\ Acting /\ Acts("write") /\ Composer(mode)
  /\ inbox' = Counted(inbox)
  /\ inboxCalls' = Send(inboxCalls, "send", inbox.selected)
  /\ UNCHANGED <<inboxDb, inboxLine>>

(* The answer goes to the thread on the screen, whichever that is.         *)
MessageSent(call) ==
  /\ call \in Done(inboxCalls, "send")
  /\ inboxCalls' = inboxCalls \ {call}
  /\ inbox' = IF call.answer = Failed THEN inbox
              ELSE [inbox EXCEPT !.thread = Added(call.answer.result.id, "pending", "send")]
  /\ UNCHANGED <<inboxDb, inboxLine>>

(* Resolver, Reabrir and Assumir patch the row and the header when the     *)
(* server has agreed; the list itself follows by the events.               *)
HandleStatusChange(verb) ==
  /\ Acting /\ Acts("status") /\ ThreadHeader
  /\ inbox' = Counted(inbox)
  /\ inboxCalls' = Send(inboxCalls, verb, inbox.selected)
  /\ UNCHANGED <<inboxDb, inboxLine>>

HandleAssignToMe ==
  /\ Acting /\ Acts("assign") /\ ThreadHeader
  /\ inbox' = Counted(inbox)
  /\ inboxCalls' = Send(inboxCalls, "assign", inbox.selected)
  /\ UNCHANGED <<inboxDb, inboxLine>>

(* The panel beside the thread, with the details and the tags.             *)
Drawer == inbox.mounted /\ inbox.selected # None

(* A tag is added and then the details are read again; they are shown      *)
(* beside whatever thread is open by then.                                 *)
HandleAddTag ==
  /\ Acting /\ Acts("tag") /\ Drawer
  /\ inbox' = Counted(inbox)
  /\ inboxCalls' = Send(inboxCalls, "tag", inbox.selected)
  /\ UNCHANGED <<inboxDb, inboxLine>>

WriteAnswered(call) ==
  /\ \E op \in {"resolve", "reopen", "assign", "tag"} : call \in Done(inboxCalls, op)
  /\ inboxCalls' = IF call.op = "tag" /\ call.answer # Failed
                   THEN Chain(inboxCalls, call, "details", call.about)
                   ELSE inboxCalls \ {call}
  /\ UNCHANGED <<inbox, inboxDb, inboxLine>>

DetailsArrive(call) ==
  /\ call \in Done(inboxCalls, "details")
  /\ inboxCalls' = inboxCalls \ {call}
  /\ inbox' = IF call.answer = Failed THEN inbox ELSE [inbox EXCEPT !.details = call.about]
  /\ UNCHANGED <<inboxDb, inboxLine>>

-----------------------------------------------------------------------------
(* The server *)

Stored(c, from) == Append(Messages, [conv |-> c, from |-> from, status |-> "pending"])

Loaded(c) ==
  LET order == Ordered(MessagesOf(c))
  IN [k \in DOMAIN order |-> [id |-> order[k], status |-> Messages[order[k]].status, via |-> "load"]]

ServerReads(call) ==
  /\ inboxCalls' = Answered(inboxCalls, call,
       CASE call.op = "list" -> Ok([rows |-> {c \in Convs : Matches(c, call.about)}])
         [] call.op = "open" -> Ok([thread |-> Loaded(call.about)])
         [] OTHER -> Ok([done |-> TRUE]))
  /\ UNCHANGED <<inbox, inboxDb, inboxLine>>

ServerSends(call) ==
  /\ Len(Messages) < MaxMessages
  /\ inboxDb' = [inboxDb EXCEPT !.messages = Stored(call.about, "user")]
  /\ inboxCalls' = Answered(inboxCalls, call, Ok([id |-> Len(Messages) + 1]))
  /\ Push("new_message", call.about, Len(Messages) + 1, "pending")
  /\ UNCHANGED inbox

ServerUpdates(call) ==
  /\ inboxDb' = CASE call.op = "resolve" -> [inboxDb EXCEPT !.status[call.about] = "resolved"]
                  [] call.op = "reopen" -> [inboxDb EXCEPT !.status[call.about] = "open"]
                  [] call.op = "assign" -> [inboxDb EXCEPT !.mine[call.about] = TRUE]
                  [] OTHER -> inboxDb
  /\ inboxCalls' = Answered(inboxCalls, call, Ok([done |-> TRUE]))
  /\ IF call.op = "tag" THEN UNCHANGED inboxLine
     ELSE Push(IF call.op = "assign" THEN "assigned_changed" ELSE "status_changed",
               call.about, 0, "pending")
  /\ UNCHANGED inbox

InboxServer(call) ==
  /\ call \in inboxCalls /\ call.answer = Waiting
  /\ \/ call.op \in {"list", "open", "details"} /\ ServerReads(call)
     \/ call.op = "send" /\ ServerSends(call)
     \/ call.op \in {"resolve", "reopen", "assign", "tag"} /\ ServerUpdates(call)

InboxCallFails(call) ==
  /\ call \in inboxCalls /\ call.answer = Waiting
  /\ inboxLine.faults < MaxFaults
  /\ inboxCalls' = Answered(inboxCalls, call, Failed)
  /\ inboxLine' = [inboxLine EXCEPT !.faults = @ + 1]
  /\ UNCHANGED <<inbox, inboxDb>>

ContactWrites(c) ==
  /\ inbox.mounted /\ Acts("write") /\ Len(Messages) < MaxMessages
  /\ inboxDb' = [inboxDb EXCEPT !.messages = Stored(c, "contact")]
  /\ Push("new_message", c, Len(Messages) + 1, "pending")
  /\ UNCHANGED <<inbox, inboxCalls>>

(* The provider confirms a message the operator sent.                      *)
ProviderConfirms(n) ==
  /\ inbox.mounted /\ n \in DOMAIN Messages
  /\ Messages[n].from = "user" /\ Messages[n].status = "pending"
  /\ inboxDb' = [inboxDb EXCEPT !.messages[n].status = "sent"]
  /\ Push("message_status", Messages[n].conv, n, "sent")
  /\ UNCHANGED <<inbox, inboxCalls>>

-----------------------------------------------------------------------------
(* The operator leaves: timers and subscriptions are dropped, late answers *)
(* change nothing, calls already sent still reach the server.              *)
LeaveInbox ==
  /\ inbox.mounted
  /\ inbox' = [InboxStart(inbox.wide, inbox.duties) EXCEPT !.mounted = FALSE, !.calls = MaxVisits]
  /\ inboxCalls' = {c \in inboxCalls : c.answer = Waiting /\ c.op = "send"}
  /\ inboxLine' = [inboxLine EXCEPT !.open = FALSE, !.events = <<>>]
  /\ UNCHANGED inboxDb

InboxNext ==
  \/ \E f \in Filters : SetFilter(f)
  \/ RefetchFires
  \/ \E c \in Convs : SelectConversation(c) \/ ContactWrites(c)
  \/ BackToList
  \/ EventArrives \/ SocketLost \/ SocketReopens
  \/ \E mode \in {"message", "whisper"} : HandleSendMessage(mode)
  \/ \E verb \in {"resolve", "reopen"} : HandleStatusChange(verb)
  \/ HandleAssignToMe \/ HandleAddTag
  \/ \E call \in inboxCalls :
       \/ inbox.mounted /\ InboxListArrives(call)
       \/ inbox.mounted /\ (ThreadArrives(call) \/ MessageSent(call) \/ WriteAnswered(call) \/ DetailsArrive(call))
       \/ InboxServer(call) \/ InboxCallFails(call)
  \/ \E n \in 1..MaxMessages : ProviderConfirms(n)
  \/ LeaveInbox

InboxSpec == InboxInit /\ [][InboxNext]_inboxVars

-----------------------------------------------------------------------------
InboxTypeOK ==
  /\ inbox \in [mounted : BOOLEAN, wide : BOOLEAN, duties : SUBSET Duties, filter : Filters,
                list : SUBSET Convs, selected : Convs \cup {None}, loading : BOOLEAN,
                thread : Seq(Entry), statuses : SUBSET ((1..MaxMessages) \X Statuses),
                details : Convs \cup {None}, refetch : BOOLEAN, calls : 0..MaxVisits]
  /\ inboxDb.messages \in Seq([conv : Convs, from : {"contact", "user"}, status : Statuses])
  /\ inboxDb.mine \in [Convs -> BOOLEAN] /\ inboxDb.status \in [Convs -> {"open", "resolved"}]
  /\ inboxLine \in [open : BOOLEAN, events : Seq(Event), faults : 0..MaxFaults]
  /\ \A c \in inboxCalls : c.slot \in 1..MaxInFlight

(* The thread on the screen holds messages of the open conversation only,  *)
(* each one once, whatever order the answers and the websocket's events    *)
(* came in; an answer to a message sent from another thread is the one     *)
(* exception (handleSendMessage does not look at what is open by then).    *)
ThreadShowsItsConversation ==
  inbox.selected # None /\ ~inbox.loading =>
    \A k \in DOMAIN inbox.thread :
      /\ inbox.thread[k].via # "send" => Messages[inbox.thread[k].id].conv = inbox.selected
      /\ \A j \in DOMAIN inbox.thread : inbox.thread[j].id = inbox.thread[k].id => j = k
=============================================================================
