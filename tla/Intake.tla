------------------------------- MODULE Intake -------------------------------
(***************************************************************************)
(* The inbox at the server: what a webhook does with a customer's message  *)
(* (internal/channels/handler.go), what attendants do with conversations   *)
(* and contacts (internal/conversations, internal/contacts), and how a     *)
(* reply leaves.  No constraint of the database says that a phone has one  *)
(* contact, a contact one open conversation or one card: every handler     *)
(* looks first and inserts afterwards, and nothing holds in between.       *)
(*                                                                         *)
(* One action is one database statement or one call to a provider.  Rows   *)
(* are named after the request that inserts them, which draws a new UUID.  *)
(* Flows, which messages start as well, are FlowEngine's; routing is left  *)
(* out.                                                                    *)
(***************************************************************************)
EXTENDS Naturals

CONSTANTS
  Phones,      \* phone numbers, normalised
  Inbound,     \* messages of customers: a webhook handler each
  Outbound,    \* messages of attendants and bots
  People,      \* contacts entered by hand
  Chats,       \* conversations opened by hand
  Desks,       \* attendants' requests of more than one statement
  Pipelines,   \* CRM pipelines, each with a stage
  None,
  Crowds       \* bounds: who shows up together, with how many faults (failed
               \* statements, stopped processes) and changes made by hand

Contacts == Inbound \cup People
Convs == Inbound \cup Chats
Messages == Inbound \cup Outbound

ASSUME IntakeAssumption ==
  /\ None \notin Phones \cup Contacts \cup Convs \cup Pipelines
  /\ Inbound \cap (Outbound \cup People \cup Chats \cup Desks) = {}
  /\ Crowds \subseteq [who : SUBSET (Messages \cup Desks), faults : Nat, acts : Nat]

VARIABLES
  contact,   \* contacts: status and phone
  conv,      \* conversations: contact, status, unread_count
  message,   \* messages: status and conversation
  cards,     \* crm_cards made by messages, each named after its message
  main,      \* the pipeline of new cards: the default one, or else the oldest
  hook,      \* the handler of each inbound message, then its card goroutine
  send,      \* the dispatch of each outbound message
  desk,      \* attendants' requests under way
  shown,     \* inbound messages that an attendant has been shown
  missed,    \* of the others, those a reset of unread_count passed over
  accepted,  \* how often a provider took each outbound message
  overlaps,  \* what was inserted, brought back or switched under somebody's look
  faults,
  crowd,     \* the one of Crowds this behaviour is about
  acts

rows == <<contact, conv, message, cards>>
seenVars == <<shown, missed>>
byHand == <<main, crowd, acts>>   \* what no handler and no dispatch changes
vars == <<rows, hook, send, desk, seenVars, accepted, overlaps, faults, byHand>>

HookPC == {"idle", "contact", "enter", "conversation", "open", "store", "count",
           "card", "look", "deal", "ended"}
AfterCount == {"card", "look", "deal", "ended"}
SendPC == {"idle", "stored", "call", "record", "ended", "unsent"}
Kinds == {"contact", "conversation", "card", "pipeline"}

ContactRow == [status : {"absent", "present", "deleted"}, phone : Phones \cup {None}]
ConvRow == [status : {"absent", "open", "pending", "resolved", "deleted"},
            contact : Contacts \cup {None}, unread : Nat]
MessageRow == [status : {"absent", "delivered", "pending", "sent", "failed", "deleted"},
               conv : Convs \cup {None}]
Hook == [pc : HookPC, phone : Phones \cup {None}, text : BOOLEAN,
         contact : Contacts \cup {None}, conv : Convs \cup {None},
         pipeline : Pipelines \cup {None}]
Dispatch == [pc : SendPC, note : BOOLEAN, result : {"sent", "failed"}]
Request == [pc : {"idle", "reset", "insert"}, conv : Convs \cup {None},
            contact : Contacts \cup {None}, seen : SUBSET Inbound]

IdleHook == [pc |-> "idle", phone |-> None, text |-> FALSE, contact |-> None, conv |-> None,
             pipeline |-> None]
IdleDesk == [pc |-> "idle", conv |-> None, contact |-> None, seen |-> {}]

HasContact(k) == k \in Contacts /\ contact[k].status = "present"
HasConv(v) == v \in Convs /\ conv[v].status \in {"open", "pending", "resolved"}
Known(p) == {k \in Contacts : HasContact(k) /\ contact[k].phone = p /\ p # None}

(* Mutant of Current: only 'open' counts.                                  *)
Current_OpenOnly(k) == {v \in Convs : conv[v].contact = k /\ conv[v].status = "open"}

(* status IN ('open', 'pending'), status != 'resolved'                     *)
Current(k) == {v \in Convs : conv[v].contact = k /\ conv[v].status \in {"open", "pending"}}

CardsOf(k) == {m \in cards : hook[m].contact = k}
CardsIn(k, p) == {m \in CardsOf(k) : hook[m].pipeline = p}
StoredIn(v) == {m \in Inbound : message[m].status = "delivered" /\ message[m].conv = v}

Init ==
  /\ contact = [k \in Contacts |-> [status |-> "absent", phone |-> None]]
  /\ conv = [v \in Convs |-> [status |-> "absent", contact |-> None, unread |-> 0]]
  /\ message = [m \in Messages |-> [status |-> "absent", conv |-> None]]
  /\ cards = {}
  /\ main \in Pipelines
  /\ hook = [m \in Inbound |-> IdleHook]
  /\ send = [m \in Outbound |-> [pc |-> "idle", note |-> FALSE, result |-> "failed"]]
  /\ desk = [d \in Desks |-> IdleDesk]
  /\ shown = {} /\ missed = {}
  /\ accepted = [m \in Outbound |-> 0]
  /\ overlaps = {}
  /\ faults = 0
  /\ crowd \in Crowds
  /\ acts = 0

Fault == faults < crowd.faults /\ faults' = faults + 1
NoFault == UNCHANGED faults

(* Who has looked for something, found nothing and will insert it.         *)
Entering(p) == {m \in Inbound : hook[m].pc = "enter" /\ hook[m].phone = p}
Opening(k) == {m \in Inbound : hook[m].pc = "open" /\ hook[m].contact = k}
           \cup {d \in Desks : desk[d].pc = "insert" /\ desk[d].contact = k}
Dealing(k, p) ==
  {m \in Inbound : hook[m].pc = "deal" /\ hook[m].contact = k /\ hook[m].pipeline = p}
Looking == {m \in Inbound : hook[m].pc \in {"look", "deal"}}

Overlap(kind, others) ==
  overlaps' = IF others # {} THEN overlaps \cup {kind} ELSE overlaps

-----------------------------------------------------------------------------
(* ensureContactAndConversation *)

Goto(m, pc) == hook' = [hook EXCEPT ![m].pc = pc]

(* A webhook brings a message of a phone; media without a caption has no   *)
(* text.  Of a batch of Meta's the code takes the first message and        *)
(* nothing of the others: they never come here.                            *)
Receive(m, p, text) ==
  /\ m \in crowd.who
  /\ hook[m].pc = "idle"
  /\ hook' = [hook EXCEPT ![m] = [IdleHook EXCEPT !.pc = "contact", !.phone = p, !.text = text]]
  /\ UNCHANGED <<rows, send, desk, seenVars, accepted, overlaps, faults>>

(* SELECT ... LIMIT 1: any of them.  An error other than "no rows" drops   *)
(* the message; the webhook answers "received" all the same.               *)
FindContact(m) ==
  /\ hook[m].pc = "contact"
  /\ \/ /\ \E k \in Known(hook[m].phone) :
             hook' = [hook EXCEPT ![m] = [@ EXCEPT !.pc = "conversation", !.contact = k]]
        /\ NoFault
     \/ Known(hook[m].phone) = {} /\ Goto(m, "enter") /\ NoFault
     \/ Goto(m, "ended") /\ Fault
  /\ UNCHANGED <<rows, send, desk, seenVars, accepted, overlaps>>

(* The error of the INSERT is not looked at.                               *)
AddContact(m) ==
  /\ hook[m].pc = "enter"
  /\ hook' = [hook EXCEPT ![m] = [@ EXCEPT !.pc = "conversation", !.contact = m]]
  /\ \/ /\ contact' = [contact EXCEPT ![m] = [status |-> "present", phone |-> hook[m].phone]]
        /\ Overlap("contact", Entering(hook[m].phone) \ {m})
        /\ NoFault
     \/ UNCHANGED <<contact, overlaps>> /\ Fault
  /\ UNCHANGED <<conv, message, cards, send, desk, seenVars, accepted>>

(* Any error counts as "no conversation".                                  *)
FindConversation(m) ==
  LET k == hook[m].contact
  IN /\ hook[m].pc = "conversation"
     /\ \/ /\ \E v \in Current(k) :
                hook' = [hook EXCEPT ![m] = [@ EXCEPT !.pc = "store", !.conv = v]]
           /\ NoFault
        \/ Current(k) = {} /\ Goto(m, "open") /\ NoFault
        \/ Goto(m, "open") /\ Fault
     /\ UNCHANGED <<rows, send, desk, seenVars, accepted, overlaps>>

(* Neither is the error of this INSERT; it needs the contact.              *)
AddConversation(m) ==
  LET k == hook[m].contact
  IN /\ hook[m].pc = "open"
     /\ hook' = [hook EXCEPT ![m] = [@ EXCEPT !.pc = "store", !.conv = m]]
     /\ \/ /\ HasContact(k)
           /\ conv' = [conv EXCEPT ![m] = [status |-> "open", contact |-> k, unread |-> 0]]
           /\ Overlap("conversation", Opening(k) \ {m})
           /\ NoFault
        \/ UNCHANGED <<conv, overlaps>> /\ ((~HasContact(k) /\ NoFault) \/ Fault)
     /\ UNCHANGED <<contact, message, cards, send, desk, seenVars, accepted>>

StoreMessage(m) ==
  LET v == hook[m].conv
      possible == hook[m].text /\ HasConv(v)
  IN /\ hook[m].pc = "store"
     /\ \/ /\ possible
           /\ message' = [message EXCEPT ![m] = [status |-> "delivered", conv |-> v]]
           /\ Goto(m, "count")
           /\ NoFault
        \/ /\ (~possible /\ NoFault) \/ (hook[m].text /\ Fault)
           /\ Goto(m, "card")
           /\ UNCHANGED message
     /\ UNCHANGED <<contact, conv, cards, send, desk, seenVars, accepted, overlaps>>

(* Mutant of CountMessage: a stored message is not counted.                *)
CountMessage_Forgotten(m) ==
  /\ hook[m].pc = "count"
  /\ Goto(m, "card")
  /\ NoFault
  /\ UNCHANGED <<rows, send, desk, seenVars, accepted, overlaps>>

(* unread_count = unread_count + 1, of a row that may be gone.             *)
CountMessage(m) ==
  LET v == hook[m].conv
  IN /\ hook[m].pc = "count"
     /\ Goto(m, "card")
     /\ \/ /\ conv' = IF HasConv(v) THEN [conv EXCEPT ![v].unread = @ + 1] ELSE conv
           /\ NoFault
        \/ UNCHANGED conv /\ Fault
     /\ UNCHANGED <<contact, message, cards, send, desk, seenVars, accepted, overlaps>>

(* ensureCRMCard, a goroutine: without a pipeline or a stage it returns.   *)
ChoosePipeline(m) ==
  /\ hook[m].pc = "card"
  /\ \/ hook' = [hook EXCEPT ![m] = [@ EXCEPT !.pc = "look", !.pipeline = main]]
     \/ Goto(m, "ended")
  /\ NoFault
  /\ UNCHANGED <<rows, send, desk, seenVars, accepted, overlaps>>

(* A card of the contact in that pipeline, one made by hand included, ends *)
(* the search; an error counts as "none".                                  *)
FindCard(m) ==
  /\ hook[m].pc = "look"
  /\ \/ Goto(m, "ended") /\ NoFault
     \/ CardsIn(hook[m].contact, hook[m].pipeline) = {} /\ Goto(m, "deal") /\ NoFault
     \/ Goto(m, "deal") /\ Fault
  /\ UNCHANGED <<rows, send, desk, seenVars, accepted, overlaps>>

AddCard(m) ==
  LET k == hook[m].contact
      possible == HasContact(k) /\ HasConv(hook[m].conv)
  IN /\ hook[m].pc = "deal"
     /\ Goto(m, "ended")
     /\ \/ /\ possible
           /\ cards' = cards \cup {m}
           /\ Overlap("card", Dealing(k, hook[m].pipeline) \ {m})
           /\ NoFault
        \/ UNCHANGED <<cards, overlaps>> /\ ((~possible /\ NoFault) \/ Fault)
     /\ UNCHANGED <<contact, conv, message, send, desk, seenVars, accepted>>

(* The process stops, or the goroutine's context ends.                     *)
LoseHook(m) ==
  /\ hook[m].pc \notin {"idle", "ended"}
  /\ Goto(m, "ended")
  /\ Fault
  /\ UNCHANGED <<rows, send, desk, seenVars, accepted, overlaps>>

-----------------------------------------------------------------------------
(* Attendants and conversations *)

(* GetMessages, its SELECT ...                                             *)
ReadMessages(d, v) ==
  /\ desk[d].pc = "idle"
  /\ HasConv(v)
  /\ desk' = [desk EXCEPT ![d] = [IdleDesk EXCEPT !.pc = "reset", !.conv = v, !.seen = StoredIn(v)]]
  /\ UNCHANGED <<rows, hook, send, seenVars, accepted, overlaps, faults>>

(* ... and its UPDATE, whose error is not looked at, and the answer.       *)
ResetUnread(d) ==
  LET v == desk[d].conv
      counted == {m \in StoredIn(v) : hook[m].pc \in AfterCount}
  IN /\ desk[d].pc = "reset"
     /\ desk' = [desk EXCEPT ![d] = IdleDesk]
     /\ shown' = shown \cup desk[d].seen
     /\ \/ /\ conv' = IF HasConv(v) THEN [conv EXCEPT ![v].unread = 0] ELSE conv
           /\ missed' = missed \cup (counted \ (shown \cup desk[d].seen))
           /\ NoFault
        \/ UNCHANGED <<conv, missed>> /\ Fault
     /\ UNCHANGED <<contact, message, cards, hook, send, accepted, overlaps>>

(* CreateConversation: an unresolved conversation is handed back, an       *)
(* error counts as "none".                                                 *)
FindOpenOne(d, k) ==
  /\ desk[d].pc = "idle"
  /\ HasContact(k)
  /\ \E v \in Chats : conv[v].status = "absent"
  /\ \/ Current(k) = {} /\ NoFault
     \/ Fault
  /\ desk' = [desk EXCEPT ![d] = [IdleDesk EXCEPT !.pc = "insert", !.contact = k]]
  /\ UNCHANGED <<rows, hook, send, seenVars, accepted, overlaps>>

InsertConversation(d) ==
  LET k == desk[d].contact
  IN /\ desk[d].pc = "insert"
     /\ desk' = [desk EXCEPT ![d] = IdleDesk]
     /\ \/ /\ HasContact(k)
           /\ \E v \in Chats :
                /\ conv[v].status = "absent"
                /\ conv' = [conv EXCEPT ![v] = [status |-> "open", contact |-> k, unread |-> 0]]
           /\ Overlap("conversation", Opening(k) \ {d})
           /\ NoFault
        \/ UNCHANGED <<conv, overlaps>> /\ ((~HasContact(k) /\ NoFault) \/ Fault)
     /\ UNCHANGED <<contact, message, cards, hook, send, seenVars, accepted>>

(* UpdateStatus looks at no other conversation of the contact; the flow's  *)
(* end node resolves the same way.                                         *)
UpdateStatus(v, status) ==
  LET k == conv[v].contact
  IN /\ HasConv(v)
     /\ conv[v].status # status
     /\ conv' = [conv EXCEPT ![v].status = status]
     /\ IF conv[v].status = "resolved" /\ status # "resolved"
        THEN Overlap("conversation", Current(k) \cup Opening(k))
        ELSE UNCHANGED overlaps
     /\ UNCHANGED <<contact, message, cards, hook, send, desk, seenVars, accepted, faults>>

-----------------------------------------------------------------------------
(* Attendants and contacts *)

(* Nobody looks whether the phone is taken.                                *)
CreateContact(k, p) ==
  /\ contact[k].status = "absent"
  /\ contact' = [contact EXCEPT ![k] = [status |-> "present", phone |-> p]]
  /\ Overlap("contact", Known(p) \cup Entering(p))
  /\ UNCHANGED <<conv, message, cards, hook, send, desk, seenVars, accepted, faults>>

UpdateContact(k, p) ==
  /\ HasContact(k) /\ contact[k].phone # p
  /\ contact' = [contact EXCEPT ![k].phone = p]
  /\ Overlap("contact", (Known(p) \ {k}) \cup Entering(p))
  /\ UNCHANGED <<conv, message, cards, hook, send, desk, seenVars, accepted, faults>>

(* The primary takes a phone it does not have; the secondary keeps its own *)
(* (and its conversations and cards) under another status, which nothing   *)
(* here reads.                                                             *)
MergeContacts(k, l) ==
  /\ k # l /\ HasContact(k) /\ HasContact(l)
  /\ contact[k].phone = None /\ contact[l].phone # None
  /\ contact' = [contact EXCEPT ![k].phone = contact[l].phone]
  /\ overlaps' = overlaps \cup {"contact"}
  /\ UNCHANGED <<conv, message, cards, hook, send, desk, seenVars, accepted, faults>>

(* Conversations, their messages and the cards go with the contact.        *)
DeleteContact(k) ==
  LET gone == {v \in Convs : HasConv(v) /\ conv[v].contact = k}
  IN /\ HasContact(k)
     /\ contact' = [contact EXCEPT ![k].status = "deleted"]
     /\ conv' = [v \in Convs |-> IF v \in gone THEN [conv[v] EXCEPT !.status = "deleted"] ELSE conv[v]]
     /\ message' = [m \in Messages |->
          IF message[m].conv \in gone THEN [message[m] EXCEPT !.status = "deleted"] ELSE message[m]]
     /\ cards' = cards \ CardsOf(k)
     /\ UNCHANGED <<hook, send, desk, seenVars, accepted, overlaps, faults>>

(* CreatePipeline and UpdatePipeline make another one the default,         *)
(* DeletePipeline may take the oldest one while it has no cards.           *)
ChangePipeline(p) ==
  /\ main # p
  /\ main' = p
  /\ Overlap("pipeline", cards \cup Looking)
  /\ UNCHANGED <<rows, hook, send, desk, seenVars, accepted, faults>>

-----------------------------------------------------------------------------
(* Outbound messages *)

(* Mutant of SendMessage: a status the table does not know.                *)
SendMessage_Misspelt(m, v, note) ==
  /\ m \in crowd.who
  /\ send[m].pc = "idle"
  /\ HasConv(v)
  /\ message' = [message EXCEPT ![m] = [status |-> IF note THEN "sent" ELSE "queued", conv |-> v]]
  /\ send' = [send EXCEPT ![m] = [@ EXCEPT !.pc = IF note THEN "ended" ELSE "stored", !.note = note]]
  /\ UNCHANGED <<contact, conv, cards, hook, desk, seenVars, accepted, overlaps, faults>>

(* SendMessage and SendAutomatedMessage: a note is stored as sent and goes *)
(* nowhere, anything else waits for its dispatch.                          *)
SendMessage(m, v, note) ==
  /\ m \in crowd.who
  /\ send[m].pc = "idle"
  /\ HasConv(v)
  /\ message' = [message EXCEPT ![m] = [status |-> IF note THEN "sent" ELSE "pending", conv |-> v]]
  /\ send' = [send EXCEPT ![m] = [@ EXCEPT !.pc = IF note THEN "ended" ELSE "stored", !.note = note]]
  /\ UNCHANGED <<contact, conv, cards, hook, desk, seenVars, accepted, overlaps, faults>>

(* dispatchOutbound reads the phone and the channel.  Without a phone, an  *)
(* active channel, its credentials or an open 24 h window the message      *)
(* fails; webchat counts as sent.                                          *)
LookUpChannel(m) ==
  LET v == message[m].conv
  IN /\ send[m].pc = "stored"
     /\ \/ send' = [send EXCEPT ![m].pc = "record"]
        \/ /\ HasConv(v) /\ contact[conv[v].contact].phone # None
           /\ \/ send' = [send EXCEPT ![m].pc = "call"]
              \/ send' = [send EXCEPT ![m] = [@ EXCEPT !.pc = "record", !.result = "sent"]]
     /\ UNCHANGED <<rows, hook, desk, seenVars, accepted, overlaps, faults>>

(* Mutant of CallProvider: an answer that is lost is asked for again.      *)
CallProvider_Retry(m) ==
  /\ send[m].pc = "call"
  /\ \/ /\ accepted' = [accepted EXCEPT ![m] = @ + 1]
        /\ \/ send' = [send EXCEPT ![m] = [@ EXCEPT !.pc = "record", !.result = "sent"]]
           \/ accepted[m] < 2 /\ UNCHANGED send
     \/ send' = [send EXCEPT ![m].pc = "record"] /\ UNCHANGED accepted
  /\ UNCHANGED <<rows, hook, desk, seenVars, overlaps, faults>>

(* Accepted, accepted with the answer lost, or refused.                    *)
CallProvider(m) ==
  /\ send[m].pc = "call"
  /\ \/ /\ accepted' = [accepted EXCEPT ![m] = @ + 1]
        /\ \E result \in {"sent", "failed"} :
             send' = [send EXCEPT ![m] = [@ EXCEPT !.pc = "record", !.result = result]]
     \/ send' = [send EXCEPT ![m].pc = "record"] /\ UNCHANGED accepted
  /\ UNCHANGED <<rows, hook, desk, seenVars, overlaps, faults>>

(* Mutant of RecordResult: only what was sent is recorded.                 *)
RecordResult_SentOnly(m) ==
  /\ send[m].pc = "record"
  /\ send' = [send EXCEPT ![m].pc = "ended"]
  /\ message' = IF message[m].status = "pending" /\ send[m].result = "sent"
                THEN [message EXCEPT ![m].status = "sent"] ELSE message
  /\ NoFault
  /\ UNCHANGED <<contact, conv, cards, hook, desk, seenVars, accepted, overlaps>>

(* The deferred UPDATE, of a row that may be gone.                         *)
RecordResult(m) ==
  /\ send[m].pc = "record"
  /\ send' = [send EXCEPT ![m].pc = "ended"]
  /\ \/ /\ message' = IF message[m].status = "pending"
                      THEN [message EXCEPT ![m].status = send[m].result] ELSE message
        /\ NoFault
     \/ UNCHANGED message /\ Fault
  /\ UNCHANGED <<contact, conv, cards, hook, desk, seenVars, accepted, overlaps>>

(* The process stops before or during the dispatch: nothing resumes it.    *)
LoseDispatch(m) ==
  /\ send[m].pc \in {"stored", "call", "record"}
  /\ send' = [send EXCEPT ![m].pc = IF @ = "stored" THEN "unsent" ELSE "ended"]
  /\ Fault
  /\ UNCHANGED <<rows, hook, desk, seenVars, accepted, overlaps>>

-----------------------------------------------------------------------------

HookStep(m) ==
  /\ \/ FindContact(m) \/ AddContact(m) \/ FindConversation(m) \/ AddConversation(m)
     \/ StoreMessage(m) \/ CountMessage(m)
     \/ ChoosePipeline(m) \/ FindCard(m) \/ AddCard(m)
  /\ UNCHANGED byHand

DispatchStep(m) ==
  /\ LookUpChannel(m) \/ CallProvider(m) \/ RecordResult(m)
  /\ UNCHANGED byHand

DeskStep(d) ==
  /\ \/ \E v \in Convs : ReadMessages(d, v)
     \/ ResetUnread(d)
     \/ \E k \in Contacts : FindOpenOne(d, k)
     \/ InsertConversation(d)
  /\ d \in crowd.who
  /\ UNCHANGED byHand

Comes ==
  /\ \/ \E m \in Inbound, p \in Phones, text \in BOOLEAN : Receive(m, p, text)
     \/ \E m \in Outbound, v \in Convs, note \in BOOLEAN : SendMessage(m, v, note)
  /\ UNCHANGED byHand

Stops ==
  /\ (\E m \in Inbound : LoseHook(m)) \/ (\E m \in Outbound : LoseDispatch(m))
  /\ UNCHANGED byHand

ByHand ==
  /\ \/ /\ \/ \E v \in Convs, status \in {"open", "pending", "resolved"} : UpdateStatus(v, status)
           \/ \E k \in People, p \in Phones \cup {None} : CreateContact(k, p)
           \/ \E k \in Contacts, p \in Phones : UpdateContact(k, p)
           \/ \E k, l \in Contacts : MergeContacts(k, l)
           \/ \E k \in Contacts : DeleteContact(k)
        /\ UNCHANGED main
     \/ \E p \in Pipelines : ChangePipeline(p)
  /\ acts < crowd.acts
  /\ acts' = acts + 1
  /\ UNCHANGED crowd

Next ==
  \/ Comes
  \/ \E m \in Inbound : HookStep(m)
  \/ \E m \in Outbound : DispatchStep(m)
  \/ \E d \in Desks : DeskStep(d)
  \/ ByHand
  \/ Stops

Spec == Init /\ [][Next]_vars

(* A handler and a dispatch go on to their next statement; the calls to    *)
(* providers have timeouts.  Nobody owes a message or a look.              *)
FairSpec ==
  /\ Spec
  /\ \A m \in Inbound : WF_vars(HookStep(m))
  /\ \A m \in Outbound : WF_vars(DispatchStep(m))

-----------------------------------------------------------------------------
(* Properties *)

(* Every variable keeps its type.                                          *)
TypeOK ==
  /\ contact \in [Contacts -> ContactRow]
  /\ conv \in [Convs -> ConvRow]
  /\ message \in [Messages -> MessageRow]
  /\ cards \subseteq Inbound /\ main \in Pipelines
  /\ hook \in [Inbound -> Hook]
  /\ send \in [Outbound -> Dispatch]
  /\ desk \in [Desks -> Request]
  /\ shown \subseteq Inbound /\ missed \subseteq Inbound
  /\ accepted \in [Outbound -> Nat]
  /\ overlaps \subseteq Kinds
  /\ faults \in 0..crowd.faults
  /\ crowd \in Crowds
  /\ acts \in 0..crowd.acts

OneContactPerPhone ==
  "contact" \notin overlaps =>
    \A k, l \in Contacts :
      HasContact(k) /\ HasContact(l) /\ contact[k].phone = contact[l].phone
        /\ contact[k].phone # None => k = l

OneConversationPerContact ==
  "conversation" \notin overlaps /\ faults = 0 =>
    \A u, v \in Convs : u \in Current(conv[v].contact) /\ v \in Current(conv[u].contact) => u = v

OneCardPerContact ==
  "card" \notin overlaps /\ faults = 0 =>
    \A m, n \in cards :
      /\ hook[m].contact = hook[n].contact
      /\ hook[m].pipeline = hook[n].pipeline \/ "pipeline" \notin overlaps
      => m = n

(* A phone has one contact, a contact one conversation that is not         *)
(* resolved, and one card of its messages ("se não existir"), unless       *)
(* somebody inserted or brought one back between another one's look and    *)
(* insert, entered the phone by hand, or a look failed.  Each pipeline     *)
(* that new cards went to when a message came may have one of its own.     *)
DuplicatesHaveACause ==
  OneContactPerPhone /\ OneConversationPerContact /\ OneCardPerContact

(* Without a fault no message of a customer gets lost: it is in the        *)
(* conversation its handler chose, unless the contact was deleted, and an  *)
(* attendant has been shown it or sees a counter above zero, unless the    *)
(* message came between the SELECT and the UPDATE of a read.               *)
InboundIsNoticed ==
  faults = 0 =>
    \A m \in Inbound :
      /\ hook[m].text /\ hook[m].pc \in AfterCount
      /\ contact[hook[m].contact].status # "deleted"
      => /\ m \in StoredIn(hook[m].conv)
         /\ m \in shown \/ m \in missed \/ conv[hook[m].conv].unread > 0

(* What becomes of an outbound message, for AtMostOnceDelivery.            *)
PhaseOf(m) ==
  IF message[m].status = "absent" \/ send[m].note THEN "unknown"
  ELSE CASE message[m].status = "deleted" -> "removed"
         [] message[m].status = "pending" ->
              IF send[m].pc \in {"stored", "unsent"} THEN "queued" ELSE "claimed"
         [] OTHER -> "settled"

(* A reply is dispatched at most once, whatever fails or is deleted.       *)
Delivery == INSTANCE AtMostOnceDelivery WITH
  Recipients <- Outbound,
  phase <- [m \in Outbound |-> PhaseOf(m)],
  copies <- accepted

ImplementsDelivery == Delivery!Spec

(* A pending message ends as sent or failed, unless something failed.      *)
RepliesSettle ==
  \A m \in Outbound :
    message[m].status = "pending" ~> message[m].status # "pending" \/ faults > 0
=============================================================================
