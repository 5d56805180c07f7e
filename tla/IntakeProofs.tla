---------------------------- MODULE IntakeProofs ----------------------------
(***************************************************************************)
(* Theorems about Intake, for any number of messages, replies, attendants, *)
(* phones, contacts entered by hand and faults.                            *)
(***************************************************************************)
EXTENDS Intake, TLAPS

-----------------------------------------------------------------------------
(* Types *)

LEMMA TypesStart == Init => TypeOK
<1> SUFFICES ASSUME Init PROVE TypeOK
  OBVIOUS
<1>1. IdleHook \in Hook /\ IdleDesk \in Request
  BY DEF IdleHook, Hook, HookPC, IdleDesk, Request
<1>2. /\ [status |-> "absent", phone |-> None] \in ContactRow
      /\ [status |-> "absent", contact |-> None, unread |-> 0] \in ConvRow
      /\ [status |-> "absent", conv |-> None] \in MessageRow
      /\ [pc |-> "idle", note |-> FALSE, result |-> "failed"] \in Dispatch
  BY DEF ContactRow, ConvRow, MessageRow, Dispatch, SendPC
<1>3. 0 \in 0..crowd.faults /\ 0 \in 0..crowd.acts
  BY IntakeAssumption DEF Init
<1>4. QED
  BY <1>1, <1>2, <1>3 DEF Init, TypeOK

(* What an overlap adds is one of the kinds.                               *)
LEMMA OverlapType ==
  ASSUME NEW kind \in Kinds, NEW others, overlaps \subseteq Kinds, Overlap(kind, others)
  PROVE  overlaps' \subseteq Kinds
BY DEF Overlap

(* The bounds are respected.                                               *)
LEMMA FaultType ==
  ASSUME TypeOK, UNCHANGED byHand, Fault \/ NoFault
  PROVE  /\ faults' \in 0..crowd'.faults /\ crowd' \in Crowds /\ acts' \in 0..crowd'.acts
         /\ main' \in Pipelines
BY IntakeAssumption DEF TypeOK, Fault, NoFault, byHand

(* What one statement does to a row or to a request.                       *)
LEMMA HookUpdates ==
  ASSUME hook \in [Inbound -> Hook], NEW m \in Inbound
  PROVE  /\ \A pc \in HookPC : Goto(m, pc) => hook' \in [Inbound -> Hook]
         /\ \A k \in Contacts :
              hook' = [hook EXCEPT ![m] = [@ EXCEPT !.pc = "conversation", !.contact = k]]
                => hook' \in [Inbound -> Hook]
         /\ \A v \in Convs :
              hook' = [hook EXCEPT ![m] = [@ EXCEPT !.pc = "store", !.conv = v]]
                => hook' \in [Inbound -> Hook]
<1>1. hook[m] \in Hook
  OBVIOUS
<1>2. ASSUME NEW pc \in HookPC PROVE [hook EXCEPT ![m].pc = pc] \in [Inbound -> Hook]
  <2>1. [hook[m] EXCEPT !.pc = pc] \in Hook
    BY <1>1 DEF Hook
  <2>2. QED
    BY <2>1
<1>3. ASSUME NEW k \in Contacts
      PROVE  [hook EXCEPT ![m] = [@ EXCEPT !.pc = "conversation", !.contact = k]] \in [Inbound -> Hook]
  <2>1. [hook[m] EXCEPT !.pc = "conversation", !.contact = k] \in Hook
    BY <1>1 DEF Hook, HookPC
  <2>2. QED
    BY <2>1
<1>4. ASSUME NEW v \in Convs
      PROVE  [hook EXCEPT ![m] = [@ EXCEPT !.pc = "store", !.conv = v]] \in [Inbound -> Hook]
  <2>1. [hook[m] EXCEPT !.pc = "store", !.conv = v] \in Hook
    BY <1>1 DEF Hook, HookPC
  <2>2. QED
    BY <2>1
<1>5. QED
  BY <1>2, <1>3, <1>4 DEF Goto

LEMMA ContactUpdates ==
  ASSUME contact \in [Contacts -> ContactRow], NEW k \in Contacts, NEW p \in Phones \cup {None}
  PROVE  /\ [contact EXCEPT ![k] = [status |-> "present", phone |-> p]] \in [Contacts -> ContactRow]
         /\ [contact EXCEPT ![k].phone = p] \in [Contacts -> ContactRow]
         /\ [contact EXCEPT ![k].status = "deleted"] \in [Contacts -> ContactRow]
<1>1. /\ [status |-> "present", phone |-> p] \in ContactRow
      /\ [contact[k] EXCEPT !.phone = p] \in ContactRow
      /\ [contact[k] EXCEPT !.status = "deleted"] \in ContactRow
  BY DEF ContactRow
<1>2. QED
  BY <1>1

LEMMA ConvUpdates ==
  ASSUME conv \in [Convs -> ConvRow], NEW v \in Convs, NEW k \in Contacts, NEW n \in Nat,
         NEW status \in {"open", "pending", "resolved", "deleted"}
  PROVE  /\ [conv EXCEPT ![v] = [status |-> "open", contact |-> k, unread |-> 0]] \in [Convs -> ConvRow]
         /\ [conv EXCEPT ![v].unread = n] \in [Convs -> ConvRow]
         /\ [conv EXCEPT ![v].status = status] \in [Convs -> ConvRow]
<1>1. /\ [status |-> "open", contact |-> k, unread |-> 0] \in ConvRow
      /\ [conv[v] EXCEPT !.unread = n] \in ConvRow
      /\ [conv[v] EXCEPT !.status = status] \in ConvRow
  BY DEF ConvRow
<1>2. QED
  BY <1>1

LEMMA MessageUpdates ==
  ASSUME message \in [Messages -> MessageRow], NEW m \in Messages, NEW v \in Convs,
         NEW status \in {"delivered", "pending", "sent", "failed"}
  PROVE  /\ [message EXCEPT ![m] = [status |-> status, conv |-> v]] \in [Messages -> MessageRow]
         /\ [message EXCEPT ![m].status = status] \in [Messages -> MessageRow]
<1>1. /\ [status |-> status, conv |-> v] \in MessageRow
      /\ [message[m] EXCEPT !.status = status] \in MessageRow
  BY DEF MessageRow
<1>2. QED
  BY <1>1

(* A handler's step keeps the types.                                       *)
LEMMA HookTypes ==
  ASSUME TypeOK, UNCHANGED byHand, NEW m \in Inbound, HookStep(m) \/ LoseHook(m)
  PROVE  TypeOK'
<1>1. /\ hook[m].phone \in Phones \cup {None} /\ hook[m].conv \in Convs \cup {None}
      /\ hook[m].contact \in Contacts \cup {None}
  BY DEF TypeOK, Hook
<1>2. /\ m \in Contacts /\ m \in Convs /\ m \in Messages /\ None \notin Contacts
      /\ {"conversation", "enter", "ended", "open", "store", "count", "card", "look", "deal"} \subseteq HookPC
  BY IntakeAssumption DEF Contacts, Convs, Messages, HookPC
<1>h. hook \in [Inbound -> Hook]
  BY DEF TypeOK
<1>pc. /\ \A pc \in HookPC : Goto(m, pc) => hook' \in [Inbound -> Hook]
       /\ \A k \in Contacts :
            hook' = [hook EXCEPT ![m] = [@ EXCEPT !.pc = "conversation", !.contact = k]]
              => hook' \in [Inbound -> Hook]
       /\ \A v \in Convs :
            hook' = [hook EXCEPT ![m] = [@ EXCEPT !.pc = "store", !.conv = v]]
              => hook' \in [Inbound -> Hook]
  BY <1>h, HookUpdates
<1>3. CASE FindContact(m)
  <2>1. hook' \in [Inbound -> Hook]
    BY <1>2, <1>pc, <1>3 DEF FindContact, Known
  <2>2. QED
    BY <1>3, <2>1, FaultType DEF FindContact, TypeOK, rows, seenVars
<1>4. CASE AddContact(m)
  <2>0. contact \in [Contacts -> ContactRow]
    BY DEF TypeOK
  <2>1. hook' \in [Inbound -> Hook]
    BY <1>2, <1>pc, <1>4 DEF AddContact
  <2>2. [contact EXCEPT ![m] = [status |-> "present", phone |-> hook[m].phone]]
          \in [Contacts -> ContactRow]
    BY <1>1, <1>2, <2>0, ContactUpdates
  <2>3. contact' \in [Contacts -> ContactRow]
    BY <1>4, <2>0, <2>2 DEF AddContact
  <2>4. overlaps' \subseteq Kinds
    BY <1>4, OverlapType DEF AddContact, TypeOK, Kinds
  <2>5. QED
    BY <1>4, <2>1, <2>3, <2>4, FaultType DEF AddContact, TypeOK, seenVars
<1>5. CASE FindConversation(m)
  <2>1. hook' \in [Inbound -> Hook]
    BY <1>2, <1>pc, <1>5 DEF FindConversation, Current
  <2>2. QED
    BY <1>5, <2>1, FaultType DEF FindConversation, TypeOK, rows, seenVars
<1>6. CASE AddConversation(m)
  <2>0. conv \in [Convs -> ConvRow]
    BY DEF TypeOK
  <2>1. hook' \in [Inbound -> Hook]
    BY <1>2, <1>pc, <1>6 DEF AddConversation
  <2>2. HasContact(hook[m].contact) =>
          [conv EXCEPT ![m] = [status |-> "open", contact |-> hook[m].contact, unread |-> 0]]
            \in [Convs -> ConvRow]
    BY <1>2, <2>0, ConvUpdates DEF HasContact
  <2>3. conv' \in [Convs -> ConvRow]
    BY <1>6, <2>0, <2>2 DEF AddConversation
  <2>4. overlaps' \subseteq Kinds
    BY <1>6, OverlapType DEF AddConversation, TypeOK, Kinds
  <2>5. QED
    BY <1>6, <2>1, <2>3, <2>4, FaultType DEF AddConversation, TypeOK, seenVars
<1>7. CASE StoreMessage(m)
  <2>0. message \in [Messages -> MessageRow]
    BY DEF TypeOK
  <2>1. hook' \in [Inbound -> Hook]
    BY <1>2, <1>pc, <1>7 DEF StoreMessage
  <2>2. HasConv(hook[m].conv) =>
          [message EXCEPT ![m] = [status |-> "delivered", conv |-> hook[m].conv]]
            \in [Messages -> MessageRow]
    BY <1>2, <2>0, MessageUpdates DEF HasConv
  <2>3. message' \in [Messages -> MessageRow]
    BY <1>7, <2>0, <2>2 DEF StoreMessage
  <2>4. QED
    BY <1>7, <2>1, <2>3, FaultType DEF StoreMessage, TypeOK, seenVars
<1>8. CASE CountMessage(m)
  <2>1. \A v \in Convs : conv[v].unread + 1 \in Nat
    BY DEF TypeOK, ConvRow
  <2>2. HasConv(hook[m].conv) => [conv EXCEPT ![hook[m].conv].unread = @ + 1] \in [Convs -> ConvRow]
    <3>1. SUFFICES ASSUME HasConv(hook[m].conv)
                   PROVE  [conv EXCEPT ![hook[m].conv].unread = conv[hook[m].conv].unread + 1]
                            \in [Convs -> ConvRow]
      OBVIOUS
    <3>2. [conv[hook[m].conv] EXCEPT !.unread = conv[hook[m].conv].unread + 1] \in ConvRow
      BY <2>1, <3>1 DEF TypeOK, ConvRow, HasConv
    <3>3. QED
      BY <3>2 DEF TypeOK
  <2>3. hook' \in [Inbound -> Hook]
    BY <1>2, <1>pc, <1>8 DEF CountMessage
  <2>4. conv' \in [Convs -> ConvRow]
    BY <1>8, <2>2 DEF CountMessage, TypeOK
  <2>5. QED
    BY <1>8, <2>3, <2>4, FaultType DEF CountMessage, TypeOK, seenVars
<1>9. CASE FindCard(m)
  <2>1. hook' \in [Inbound -> Hook]
    BY <1>2, <1>pc, <1>9 DEF FindCard
  <2>2. QED
    BY <1>9, <2>1, FaultType DEF FindCard, TypeOK, rows, seenVars
<1>13. CASE ChoosePipeline(m)
  <2>1. [hook[m] EXCEPT !.pc = "look", !.pipeline = main] \in Hook
    BY <1>h, <1>2 DEF Hook, TypeOK
  <2>2. hook' \in [Inbound -> Hook]
    BY <1>h, <1>2, <1>pc, <1>13, <2>1 DEF ChoosePipeline
  <2>3. QED
    BY <1>13, <2>2, FaultType DEF ChoosePipeline, TypeOK, rows, seenVars
<1>10. CASE AddCard(m)
  <2>1. hook' \in [Inbound -> Hook] /\ cards' \subseteq Inbound
    BY <1>2, <1>pc, <1>10 DEF AddCard, TypeOK
  <2>2. overlaps' \subseteq Kinds
    BY <1>10, OverlapType DEF AddCard, TypeOK, Kinds
  <2>3. QED
    BY <1>10, <2>1, <2>2, FaultType DEF AddCard, TypeOK, seenVars
<1>11. CASE LoseHook(m)
  <2>1. hook' \in [Inbound -> Hook]
    BY <1>2, <1>pc, <1>11 DEF LoseHook
  <2>2. QED
    BY <1>11, <2>1, FaultType DEF LoseHook, TypeOK, rows, seenVars
<1>12. QED
  BY <1>3, <1>4, <1>5, <1>6, <1>7, <1>8, <1>9, <1>10, <1>11, <1>13 DEF HookStep

(* So does a dispatch.                                                     *)
LEMMA SendUpdates ==
  ASSUME send \in [Outbound -> Dispatch], NEW m \in Outbound, NEW pc \in SendPC,
         NEW result \in {"sent", "failed"}, NEW note \in BOOLEAN
  PROVE  /\ [send EXCEPT ![m].pc = pc] \in [Outbound -> Dispatch]
         /\ [send EXCEPT ![m] = [@ EXCEPT !.pc = pc, !.result = result]] \in [Outbound -> Dispatch]
         /\ [send EXCEPT ![m] = [@ EXCEPT !.pc = pc, !.note = note]] \in [Outbound -> Dispatch]
<1>1. /\ [send[m] EXCEPT !.pc = pc] \in Dispatch
      /\ [send[m] EXCEPT !.pc = pc, !.result = result] \in Dispatch
      /\ [send[m] EXCEPT !.pc = pc, !.note = note] \in Dispatch
  BY DEF Dispatch
<1>2. QED
  BY <1>1

LEMMA SendTypes ==
  ASSUME TypeOK, UNCHANGED byHand, NEW m \in Outbound,
         \/ DispatchStep(m) \/ LoseDispatch(m)
         \/ \E v \in Convs, note \in BOOLEAN : SendMessage(m, v, note)
  PROVE  TypeOK'
<1>1. /\ send \in [Outbound -> Dispatch] /\ message \in [Messages -> MessageRow]
      /\ accepted \in [Outbound -> Nat]
  BY DEF TypeOK
<1>2. m \in Messages /\ {"stored", "call", "record", "ended", "unsent"} \subseteq SendPC
  BY DEF Messages, SendPC
<1>3. /\ \A pc \in SendPC : [send EXCEPT ![m].pc = pc] \in [Outbound -> Dispatch]
      /\ \A result \in {"sent", "failed"} :
           [send EXCEPT ![m] = [@ EXCEPT !.pc = "record", !.result = result]] \in [Outbound -> Dispatch]
      /\ [accepted EXCEPT ![m] = @ + 1] \in [Outbound -> Nat]
  <2>1. \A pc \in SendPC : [send EXCEPT ![m].pc = pc] \in [Outbound -> Dispatch]
    BY <1>1, SendUpdates
  <2>2. ASSUME NEW result \in {"sent", "failed"}
        PROVE  [send EXCEPT ![m] = [@ EXCEPT !.pc = "record", !.result = result]] \in [Outbound -> Dispatch]
    BY <1>1, <1>2, SendUpdates
  <2>3. [accepted EXCEPT ![m] = @ + 1] \in [Outbound -> Nat]
    BY <1>1
  <2>4. QED
    BY <2>1, <2>2, <2>3
<1>4. CASE LookUpChannel(m)
  <2>1. send' \in [Outbound -> Dispatch]
    BY <1>2, <1>3, <1>4 DEF LookUpChannel
  <2>2. QED
    BY <1>4, <2>1, FaultType DEF LookUpChannel, NoFault, TypeOK, rows, seenVars
<1>5. CASE CallProvider(m)
  <2>1. send' \in [Outbound -> Dispatch] /\ accepted' \in [Outbound -> Nat]
    BY <1>1, <1>2, <1>3, <1>5 DEF CallProvider
  <2>2. QED
    BY <1>5, <2>1, FaultType DEF CallProvider, NoFault, TypeOK, rows, seenVars
<1>6. CASE RecordResult(m)
  <2>1. send' \in [Outbound -> Dispatch]
    BY <1>2, <1>3, <1>6 DEF RecordResult
  <2>2. send[m].result \in {"delivered", "pending", "sent", "failed"}
    BY <1>1 DEF Dispatch
  <2>3. [message EXCEPT ![m].status = send[m].result] \in [Messages -> MessageRow]
    <3>1. [message[m] EXCEPT !.status = send[m].result] \in MessageRow
      BY <1>1, <1>2, <2>2 DEF MessageRow
    <3>2. QED
      BY <1>1, <3>1
  <2>4. message' \in [Messages -> MessageRow]
    BY <1>1, <1>6, <2>3 DEF RecordResult
  <2>5. QED
    BY <1>6, <2>1, <2>4, FaultType DEF RecordResult, TypeOK, seenVars
<1>7. CASE LoseDispatch(m)
  <2>1. send' \in [Outbound -> Dispatch]
    BY <1>2, <1>3, <1>7 DEF LoseDispatch
  <2>2. QED
    BY <1>7, <2>1, FaultType DEF LoseDispatch, TypeOK, rows, seenVars
<1>8. ASSUME NEW v \in Convs, NEW note \in BOOLEAN, SendMessage(m, v, note)
      PROVE  TypeOK'
  <2>1. send' \in [Outbound -> Dispatch]
    BY <1>1, <1>2, <1>8, SendUpdates DEF SendMessage
  <2>2. message' \in [Messages -> MessageRow]
    <3>1. [status |-> IF note THEN "sent" ELSE "pending", conv |-> v] \in MessageRow
      BY DEF MessageRow
    <3>2. QED
      BY <1>1, <1>8, <3>1 DEF SendMessage
  <2>3. QED
    BY <1>8, <2>1, <2>2, FaultType DEF SendMessage, NoFault, TypeOK, seenVars
<1>9. QED
  BY <1>4, <1>5, <1>6, <1>7, <1>8 DEF DispatchStep

(* ... and an attendant's request.                                         *)
LEMMA DeskTypes ==
  ASSUME TypeOK, NEW d \in Desks, DeskStep(d)
  PROVE  TypeOK'
<1>1. /\ desk \in [Desks -> Request] /\ conv \in [Convs -> ConvRow] /\ IdleDesk \in Request
      /\ desk[d].conv \in Convs \cup {None} /\ desk[d].contact \in Contacts \cup {None}
      /\ desk[d].seen \subseteq Inbound
  BY DEF TypeOK, Request, IdleDesk
<1>2. UNCHANGED byHand
  BY DEF DeskStep
<1>3. ASSUME NEW v \in Convs, ReadMessages(d, v) PROVE TypeOK'
  <2>1. [IdleDesk EXCEPT !.pc = "reset", !.conv = v, !.seen = StoredIn(v)] \in Request
    BY DEF IdleDesk, Request, StoredIn
  <2>2. desk' \in [Desks -> Request]
    BY <1>1, <1>3, <2>1 DEF ReadMessages
  <2>3. QED
    BY <1>2, <1>3, <2>2, FaultType DEF ReadMessages, NoFault, TypeOK, rows, seenVars
<1>4. CASE ResetUnread(d)
  <2>1. desk' \in [Desks -> Request]
    BY <1>1, <1>4 DEF ResetUnread
  <2>2. HasConv(desk[d].conv) => [conv EXCEPT ![desk[d].conv].unread = 0] \in [Convs -> ConvRow]
    <3>1. ASSUME NEW v \in Convs PROVE [conv EXCEPT ![v].unread = 0] \in [Convs -> ConvRow]
      <4>1. [conv[v] EXCEPT !.unread = 0] \in ConvRow
        BY <1>1 DEF ConvRow
      <4>2. QED
        BY <1>1, <4>1
    <3>2. QED
      BY <3>1 DEF HasConv
  <2>3. conv' \in [Convs -> ConvRow]
    BY <1>1, <1>4, <2>2 DEF ResetUnread
  <2>4. shown' \subseteq Inbound /\ missed' \subseteq Inbound
    BY <1>1, <1>4 DEF ResetUnread, TypeOK, StoredIn
  <2>5. QED
    BY <1>2, <1>4, <2>1, <2>3, <2>4, FaultType DEF ResetUnread, TypeOK
<1>5. ASSUME NEW k \in Contacts, FindOpenOne(d, k) PROVE TypeOK'
  <2>1. [IdleDesk EXCEPT !.pc = "insert", !.contact = k] \in Request
    BY DEF IdleDesk, Request
  <2>2. desk' \in [Desks -> Request]
    BY <1>1, <1>5, <2>1 DEF FindOpenOne
  <2>3. QED
    BY <1>2, <1>5, <2>2, FaultType DEF FindOpenOne, TypeOK, rows, seenVars
<1>6. CASE InsertConversation(d)
  <2>1. desk' \in [Desks -> Request]
    BY <1>1, <1>6 DEF InsertConversation
  <2>2. conv' \in [Convs -> ConvRow]
    <3>1. ASSUME NEW k \in Contacts, NEW v \in Convs
          PROVE [conv EXCEPT ![v] = [status |-> "open", contact |-> k, unread |-> 0]] \in [Convs -> ConvRow]
      BY <1>1 DEF ConvRow
    <3>2. QED
      BY <1>1, <1>6, <3>1 DEF InsertConversation, HasContact, Convs
  <2>3. overlaps' \subseteq Kinds
    BY <1>6, OverlapType DEF InsertConversation, TypeOK, Kinds
  <2>4. QED
    BY <1>2, <1>6, <2>1, <2>2, <2>3, FaultType DEF InsertConversation, TypeOK, seenVars
<1>7. QED
  BY <1>3, <1>4, <1>5, <1>6 DEF DeskStep

(* What is changed by hand.                                                *)
LEMMA HandTypes ==
  ASSUME TypeOK, ByHand
  PROVE  TypeOK'
<1>1. /\ contact \in [Contacts -> ContactRow] /\ conv \in [Convs -> ConvRow]
      /\ message \in [Messages -> MessageRow] /\ overlaps \subseteq Kinds
      /\ {"contact", "conversation", "pipeline"} \subseteq Kinds /\ main \in Pipelines
  BY DEF TypeOK, Kinds
<1>2. crowd' \in Crowds /\ acts' \in 0..crowd'.acts /\ crowd' = crowd
  BY IntakeAssumption DEF ByHand, TypeOK
<1>3. ASSUME NEW v \in Convs, NEW status \in {"open", "pending", "resolved"}, UpdateStatus(v, status), UNCHANGED main
      PROVE  TypeOK'
  <2>1. conv' \in [Convs -> ConvRow]
    <3>1. [conv[v] EXCEPT !.status = status] \in ConvRow
      BY <1>1 DEF ConvRow
    <3>2. QED
      BY <1>1, <1>3, <3>1 DEF UpdateStatus
  <2>2. overlaps' \subseteq Kinds
    BY <1>1, <1>3, OverlapType DEF UpdateStatus
  <2>3. QED
    BY <1>2, <1>3, <2>1, <2>2 DEF UpdateStatus, TypeOK, seenVars
<1>4. ASSUME NEW k \in People, NEW p \in Phones \cup {None}, CreateContact(k, p), UNCHANGED main
      PROVE  TypeOK'
  <2>1. contact' \in [Contacts -> ContactRow]
    BY <1>1, <1>4, ContactUpdates DEF CreateContact, Contacts
  <2>2. overlaps' \subseteq Kinds
    BY <1>1, <1>4, OverlapType DEF CreateContact
  <2>3. QED
    BY <1>2, <1>4, <2>1, <2>2 DEF CreateContact, TypeOK, seenVars
<1>5. ASSUME NEW k \in Contacts, NEW p \in Phones, UpdateContact(k, p), UNCHANGED main
      PROVE  TypeOK'
  <2>1. contact' \in [Contacts -> ContactRow]
    BY <1>1, <1>5, ContactUpdates DEF UpdateContact
  <2>2. overlaps' \subseteq Kinds
    BY <1>1, <1>5, OverlapType DEF UpdateContact
  <2>3. QED
    BY <1>2, <1>5, <2>1, <2>2 DEF UpdateContact, TypeOK, seenVars
<1>6. ASSUME NEW k \in Contacts, NEW l \in Contacts, MergeContacts(k, l), UNCHANGED main
      PROVE  TypeOK'
  <2>1. contact[l].phone \in Phones \cup {None}
    BY <1>1 DEF ContactRow
  <2>2. [contact EXCEPT ![k].phone = contact[l].phone] \in [Contacts -> ContactRow]
    BY <1>1, <2>1, ContactUpdates
  <2>3. QED
    BY <1>1, <1>2, <1>6, <2>2 DEF MergeContacts, TypeOK, seenVars
<1>7. ASSUME NEW k \in Contacts, DeleteContact(k), UNCHANGED main
      PROVE  TypeOK'
  <2>1. contact' \in [Contacts -> ContactRow]
    <3>1. [contact[k] EXCEPT !.status = "deleted"] \in ContactRow
      BY <1>1 DEF ContactRow
    <3>2. QED
      BY <1>1, <1>7, <3>1 DEF DeleteContact
  <2>2. conv' \in [Convs -> ConvRow]
    <3>1. \A v \in Convs : [conv[v] EXCEPT !.status = "deleted"] \in ConvRow
      BY <1>1 DEF ConvRow
    <3>2. QED
      BY <1>1, <1>7, <3>1 DEF DeleteContact
  <2>3. message' \in [Messages -> MessageRow]
    <3>1. \A m \in Messages : [message[m] EXCEPT !.status = "deleted"] \in MessageRow
      BY <1>1 DEF MessageRow
    <3>2. QED
      BY <1>1, <1>7, <3>1 DEF DeleteContact
  <2>4. QED
    BY <1>2, <1>7, <2>1, <2>2, <2>3 DEF DeleteContact, TypeOK, seenVars
<1>8. ASSUME NEW p \in Pipelines, ChangePipeline(p)
      PROVE  TypeOK'
  <2>1. overlaps' \subseteq Kinds
    BY <1>1, <1>8, OverlapType DEF ChangePipeline
  <2>2. QED
    BY <1>2, <1>8, <2>1 DEF ChangePipeline, TypeOK, rows, seenVars
<1>9. QED
  BY <1>3, <1>4, <1>5, <1>6, <1>7, <1>8 DEF ByHand

LEMMA ReceiveTypes ==
  ASSUME TypeOK, UNCHANGED byHand, NEW m \in Inbound, NEW p \in Phones, NEW text \in BOOLEAN,
         Receive(m, p, text)
  PROVE  TypeOK'
<1>1. [IdleHook EXCEPT !.pc = "contact", !.phone = p, !.text = text] \in Hook
  BY DEF IdleHook, Hook, HookPC
<1>2. hook' \in [Inbound -> Hook]
  BY <1>1 DEF Receive, TypeOK
<1>3. QED
  BY <1>2, FaultType DEF Receive, NoFault, TypeOK, rows, seenVars

LEMMA TypesStep == TypeOK /\ [Next]_vars => TypeOK'
<1> SUFFICES ASSUME TypeOK, [Next]_vars PROVE TypeOK'
  OBVIOUS
<1>1. CASE Next
  BY <1>1, HookTypes, SendTypes, DeskTypes, HandTypes, ReceiveTypes
     DEF Next, Comes, Stops, DispatchStep, HookStep
<1>2. CASE UNCHANGED vars
  BY <1>2 DEF vars, TypeOK, rows, seenVars, byHand
<1>3. QED
  BY <1>1, <1>2

(* Contacts, conversations, messages and requests keep their types.        *)
THEOREM IntakeTypeCorrect == Spec => []TypeOK
BY TypesStart, TypesStep, PTL DEF Spec

-----------------------------------------------------------------------------
(* Rows and the requests they are named after *)

Early == {"idle", "contact", "enter"}
BeforeStore == Early \cup {"conversation", "open"}

RowsOfRequests ==
  /\ \A m \in Inbound : hook[m].pc \in Early => contact[m].status = "absent"
  /\ \A m \in Inbound : hook[m].pc \in BeforeStore => conv[m].status = "absent"
  /\ \A m \in cards : hook[m].pc = "ended"

(* Who writes which requests and rows.                                    *)
LEMMA HookWriters ==
  ASSUME [Next]_vars
  PROVE  \/ \E m \in Inbound : HookStep(m) \/ LoseHook(m)
         \/ \E m \in Inbound, p \in Phones, text \in BOOLEAN : Receive(m, p, text)
         \/ UNCHANGED hook
<1>1. ASSUME NEW m \in Outbound, DispatchStep(m) \/ LoseDispatch(m) PROVE UNCHANGED hook
  BY <1>1 DEF DispatchStep, LookUpChannel, CallProvider, RecordResult, LoseDispatch
<1>2. ASSUME NEW d \in Desks, DeskStep(d) PROVE UNCHANGED hook
  BY <1>2 DEF DeskStep, ReadMessages, ResetUnread, FindOpenOne, InsertConversation
<1>3. CASE ByHand
  BY <1>3 DEF ByHand, UpdateStatus, CreateContact, UpdateContact, MergeContacts, ChangePipeline,
     DeleteContact, rows
<1>4. ASSUME NEW m \in Outbound, NEW v \in Convs, NEW note \in BOOLEAN, SendMessage(m, v, note)
      PROVE  UNCHANGED hook
  BY <1>4 DEF SendMessage
<1>5. CASE UNCHANGED vars
  BY <1>5 DEF vars
<1>6. QED
  BY <1>1, <1>2, <1>3, <1>4, <1>5 DEF Next, Comes, Stops

(* A handler goes forward, and only the one that takes a step.             *)
LEMMA HandlersGoForward ==
  ASSUME TypeOK, [Next]_vars, NEW m \in Inbound
  PROVE  /\ hook'[m].pc \in Early => hook[m].pc \in Early
         /\ hook'[m].pc \in BeforeStore => hook[m].pc \in BeforeStore
         /\ hook[m].pc = "ended" => hook'[m] = hook[m]
         /\ hook[m].pc # "idle" => hook'[m].phone = hook[m].phone /\ hook'[m].text = hook[m].text
         /\ hook[m].pc \notin Early => hook'[m].contact = hook[m].contact
         /\ hook[m].pc \notin BeforeStore => hook'[m].conv = hook[m].conv
         /\ hook[m].pc = "look" => hook'[m].pipeline = hook[m].pipeline
<1> DEFINE Forward == /\ hook'[m].pc \in Early => hook[m].pc \in Early
                      /\ hook'[m].pc \in BeforeStore => hook[m].pc \in BeforeStore
                      /\ hook[m].pc = "ended" => hook'[m] = hook[m]
                      /\ hook[m].pc # "idle" => hook'[m].phone = hook[m].phone /\ hook'[m].text = hook[m].text
                      /\ hook[m].pc \notin Early => hook'[m].contact = hook[m].contact
                      /\ hook[m].pc \notin BeforeStore => hook'[m].conv = hook[m].conv
                      /\ hook[m].pc = "look" => hook'[m].pipeline = hook[m].pipeline
<1>1. hook \in [Inbound -> Hook]
  BY DEF TypeOK
<1>2. ASSUME NEW n \in Inbound, HookStep(n) \/ LoseHook(n) PROVE Forward
  <2>1. hook[n] \in Hook /\ hook[m] \in Hook
    BY <1>1
  <2> USE <1>1, <2>1 DEF Hook, Early, BeforeStore, Goto
  <2>2. CASE FindContact(n)
    <3>0. hook[n].pc = "contact"
      BY <2>2 DEF FindContact
    <3>1. ASSUME NEW k, hook' = [hook EXCEPT ![n] = [@ EXCEPT !.pc = "conversation", !.contact = k]]
          PROVE  Forward
      BY <3>0, <3>1
    <3>2. CASE Goto(n, "enter") \/ Goto(n, "ended")
      BY <3>0, <3>2
    <3>3. QED
      BY <2>2, <3>1, <3>2 DEF FindContact
  <2>3. CASE AddContact(n)
    BY <2>3 DEF AddContact
  <2>4. CASE FindConversation(n)
    <3>1. ASSUME NEW v, hook' = [hook EXCEPT ![n] = [@ EXCEPT !.pc = "store", !.conv = v]]
          PROVE  Forward
      BY <2>4, <3>1 DEF FindConversation
    <3>2. CASE Goto(n, "open")
      BY <2>4, <3>2 DEF FindConversation
    <3>3. QED
      BY <2>4, <3>1, <3>2 DEF FindConversation
  <2>5. CASE AddConversation(n)
    BY <2>5 DEF AddConversation
  <2>6. CASE StoreMessage(n)
    BY <2>6 DEF StoreMessage
  <2>7. CASE CountMessage(n) \/ FindCard(n) \/ AddCard(n) \/ LoseHook(n)
    BY <2>7 DEF CountMessage, FindCard, AddCard, LoseHook
  <2>8. CASE ChoosePipeline(n)
    <3>1. CASE hook' = [hook EXCEPT ![n] = [@ EXCEPT !.pc = "look", !.pipeline = main]]
      BY <2>8, <3>1 DEF ChoosePipeline
    <3>2. CASE Goto(n, "ended")
      BY <2>8, <3>2 DEF ChoosePipeline
    <3>3. QED
      BY <2>8, <3>1, <3>2 DEF ChoosePipeline
  <2>9. QED
    BY <1>2, <2>2, <2>3, <2>4, <2>5, <2>6, <2>7, <2>8 DEF HookStep
<1>3. ASSUME NEW n \in Inbound, NEW p \in Phones, NEW text \in BOOLEAN, Receive(n, p, text)
      PROVE  Forward
  BY <1>1, <1>3 DEF Receive, Early, BeforeStore, IdleHook
<1>4. CASE UNCHANGED hook
  BY <1>4
<1>5. QED
  BY <1>2, <1>3, <1>4, HookWriters

(* Faults and overlaps are only added.                                     *)
LEMMA HistoryGrows ==
  ASSUME TypeOK, [Next]_vars
  PROVE  overlaps \subseteq overlaps' /\ (faults' = 0 => faults = 0)
<1>1. faults \in Nat
  BY IntakeAssumption DEF TypeOK
<1>2. (Fault => faults' # 0) /\ (NoFault => faults' = faults)
  BY <1>1 DEF Fault, NoFault
<1>3. ASSUME NEW m \in Inbound, HookStep(m) \/ LoseHook(m)
      PROVE  overlaps \subseteq overlaps' /\ (faults' = 0 => faults = 0)
  BY <1>2, <1>3 DEF HookStep, FindContact, AddContact, FindConversation, AddConversation, StoreMessage,
     CountMessage, ChoosePipeline, FindCard, AddCard, LoseHook, Overlap
<1>4. ASSUME NEW m \in Outbound, DispatchStep(m) \/ LoseDispatch(m)
      PROVE  overlaps \subseteq overlaps' /\ (faults' = 0 => faults = 0)
  BY <1>2, <1>4 DEF DispatchStep, LookUpChannel, CallProvider, RecordResult, LoseDispatch
<1>5. ASSUME NEW d \in Desks, DeskStep(d)
      PROVE  overlaps \subseteq overlaps' /\ (faults' = 0 => faults = 0)
  BY <1>2, <1>5 DEF DeskStep, ReadMessages, ResetUnread, FindOpenOne, InsertConversation, Overlap
<1>6. CASE ByHand
  BY <1>6 DEF ByHand, UpdateStatus, CreateContact, UpdateContact, MergeContacts, ChangePipeline,
     DeleteContact, Overlap
<1>7. CASE Comes
  BY <1>7 DEF Comes, Receive, SendMessage
<1>8. CASE UNCHANGED vars
  BY <1>8 DEF vars
<1>9. QED
  BY <1>3, <1>4, <1>5, <1>6, <1>7, <1>8 DEF Next, Stops

LEMMA ContactWriters ==
  ASSUME [Next]_vars
  PROVE  (\E n \in Inbound : AddContact(n)) \/ ByHand \/ UNCHANGED contact
<1>1. ASSUME NEW m \in Inbound, HookStep(m) \/ LoseHook(m) PROVE AddContact(m) \/ UNCHANGED contact
  BY <1>1 DEF HookStep, FindContact, FindConversation, AddConversation, StoreMessage, CountMessage,
     ChoosePipeline, FindCard, AddCard, LoseHook, rows
<1>2. ASSUME NEW m \in Outbound, DispatchStep(m) \/ LoseDispatch(m) PROVE UNCHANGED contact
  BY <1>2 DEF DispatchStep, LookUpChannel, CallProvider, RecordResult, LoseDispatch, rows
<1>3. ASSUME NEW d \in Desks, DeskStep(d) PROVE UNCHANGED contact
  BY <1>3 DEF DeskStep, ReadMessages, ResetUnread, FindOpenOne, InsertConversation, rows
<1>4. CASE Comes
  BY <1>4 DEF Comes, Receive, SendMessage, rows
<1>5. CASE UNCHANGED vars
  BY <1>5 DEF vars, rows
<1>6. QED
  BY <1>1, <1>2, <1>3, <1>4, <1>5 DEF Next, Stops

LEMMA ConvWriters ==
  ASSUME [Next]_vars
  PROVE  \/ \E n \in Inbound : AddConversation(n) \/ CountMessage(n)
         \/ \E d \in Desks : ResetUnread(d) \/ InsertConversation(d)
         \/ ByHand
         \/ UNCHANGED conv
<1>1. ASSUME NEW m \in Inbound, HookStep(m) \/ LoseHook(m)
      PROVE  AddConversation(m) \/ CountMessage(m) \/ UNCHANGED conv
  BY <1>1 DEF HookStep, FindContact, AddContact, FindConversation, StoreMessage,
     ChoosePipeline, FindCard, AddCard, LoseHook, rows
<1>2. ASSUME NEW m \in Outbound, DispatchStep(m) \/ LoseDispatch(m) PROVE UNCHANGED conv
  BY <1>2 DEF DispatchStep, LookUpChannel, CallProvider, RecordResult, LoseDispatch, rows
<1>3. ASSUME NEW d \in Desks, DeskStep(d)
      PROVE  ResetUnread(d) \/ InsertConversation(d) \/ UNCHANGED conv
  BY <1>3 DEF DeskStep, ReadMessages, FindOpenOne, rows
<1>4. CASE Comes
  BY <1>4 DEF Comes, Receive, SendMessage, rows
<1>5. CASE UNCHANGED vars
  BY <1>5 DEF vars, rows
<1>6. QED
  BY <1>1, <1>2, <1>3, <1>4, <1>5 DEF Next, Stops

LEMMA DeskWriters ==
  ASSUME [Next]_vars
  PROVE  (\E d \in Desks : DeskStep(d)) \/ UNCHANGED desk
<1>1. ASSUME NEW m \in Inbound, HookStep(m) \/ LoseHook(m) PROVE UNCHANGED desk
  BY <1>1 DEF HookStep, FindContact, AddContact, FindConversation, AddConversation, StoreMessage,
     CountMessage, ChoosePipeline, FindCard, AddCard, LoseHook
<1>2. ASSUME NEW m \in Outbound, DispatchStep(m) \/ LoseDispatch(m) PROVE UNCHANGED desk
  BY <1>2 DEF DispatchStep, LookUpChannel, CallProvider, RecordResult, LoseDispatch
<1>3. CASE Comes
  BY <1>3 DEF Comes, Receive, SendMessage
<1>4. CASE ByHand
  BY <1>4 DEF ByHand, UpdateStatus, CreateContact, UpdateContact, MergeContacts, ChangePipeline,
     DeleteContact, rows
<1>5. CASE UNCHANGED vars
  BY <1>5 DEF vars
<1>6. QED
  BY <1>1, <1>2, <1>3, <1>4, <1>5 DEF Next, Stops

LEMMA CardWriters ==
  ASSUME [Next]_vars
  PROVE  (\E n \in Inbound : AddCard(n)) \/ cards' \subseteq cards
<1>1. ASSUME NEW m \in Inbound, HookStep(m) \/ LoseHook(m) PROVE AddCard(m) \/ UNCHANGED cards
  BY <1>1 DEF HookStep, FindContact, AddContact, FindConversation, AddConversation, StoreMessage,
     CountMessage, ChoosePipeline, FindCard, LoseHook, rows
<1>2. ASSUME NEW m \in Outbound, DispatchStep(m) \/ LoseDispatch(m) PROVE UNCHANGED cards
  BY <1>2 DEF DispatchStep, LookUpChannel, CallProvider, RecordResult, LoseDispatch, rows
<1>3. ASSUME NEW d \in Desks, DeskStep(d) PROVE UNCHANGED cards
  BY <1>3 DEF DeskStep, ReadMessages, ResetUnread, FindOpenOne, InsertConversation, rows
<1>4. CASE Comes
  BY <1>4 DEF Comes, Receive, SendMessage, rows
<1>5. CASE ByHand
  BY <1>5 DEF ByHand, UpdateStatus, CreateContact, UpdateContact, MergeContacts, ChangePipeline,
     DeleteContact, rows
<1>6. CASE UNCHANGED vars
  BY <1>6 DEF vars, rows
<1>7. QED
  BY <1>1, <1>2, <1>3, <1>4, <1>5, <1>6 DEF Next, Stops

LEMMA RowsStart == Init => RowsOfRequests
BY DEF Init, RowsOfRequests, IdleHook, Contacts, Convs

LEMMA RowsStep == TypeOK /\ RowsOfRequests /\ [Next]_vars => RowsOfRequests'
<1> SUFFICES ASSUME TypeOK, RowsOfRequests, [Next]_vars PROVE RowsOfRequests'
  OBVIOUS
<1>1. /\ contact \in [Contacts -> ContactRow] /\ conv \in [Convs -> ConvRow]
      /\ hook \in [Inbound -> Hook] /\ cards \subseteq Inbound
  BY DEF TypeOK
<1>2. Inbound \subseteq Contacts /\ Inbound \subseteq Convs
      /\ Inbound \cap People = {} /\ Inbound \cap Chats = {}
  BY IntakeAssumption DEF Contacts, Convs
<1>3. \A m \in Inbound : contact[m].status = "absent" /\ hook'[m].pc \in Early
        => contact'[m].status = "absent"
  <2>1. ASSUME NEW n \in Inbound, AddContact(n)
        PROVE  hook'[n].pc \notin Early /\ \A m \in Inbound \ {n} : contact'[m] = contact[m]
    BY <1>1, <1>2, <2>1 DEF AddContact, Early
  <2>2. CASE ByHand
    BY <1>1, <1>2, <2>2 DEF ByHand, UpdateStatus, CreateContact, UpdateContact, MergeContacts,
       ChangePipeline, DeleteContact, rows, HasContact
  <2>3. CASE UNCHANGED contact
    BY <2>3
  <2>4. QED
    BY <2>1, <2>2, <2>3, ContactWriters
<1>4. \A m \in Inbound : conv[m].status = "absent" /\ hook'[m].pc \in BeforeStore
        => conv'[m].status = "absent"
  <2>1. ASSUME NEW n \in Inbound, AddConversation(n)
        PROVE  hook'[n].pc \notin BeforeStore /\ \A m \in Inbound \ {n} : conv'[m] = conv[m]
    BY <1>1, <1>2, <2>1 DEF AddConversation, BeforeStore, Early
  <2>2. ASSUME NEW n \in Inbound, CountMessage(n)
        PROVE  \A v \in Convs : conv'[v].status = conv[v].status
    BY <1>1, <2>2 DEF CountMessage, HasConv, ConvRow
  <2>3. ASSUME NEW d \in Desks, ResetUnread(d)
        PROVE  \A v \in Convs : conv'[v].status = conv[v].status
    BY <1>1, <2>3 DEF ResetUnread, HasConv, ConvRow
  <2>4. ASSUME NEW d \in Desks, InsertConversation(d)
        PROVE  \A m \in Inbound : conv'[m] = conv[m]
    BY <1>1, <1>2, <2>4 DEF InsertConversation
  <2>5. CASE ByHand
    BY <1>1, <1>2, <2>5 DEF ByHand, UpdateStatus, CreateContact, UpdateContact, MergeContacts,
       ChangePipeline, DeleteContact, rows, HasConv
  <2>6. CASE UNCHANGED conv
    BY <2>6
  <2>7. QED
    BY <1>2, <2>1, <2>2, <2>3, <2>4, <2>5, <2>6, ConvWriters
<1>5. \A m \in cards' : m \in cards \/ (m \in Inbound /\ hook'[m].pc = "ended")
  <2>1. ASSUME NEW n \in Inbound, AddCard(n)
        PROVE  hook'[n].pc = "ended" /\ cards' \subseteq cards \cup {n}
    BY <1>1, <2>1 DEF AddCard, Goto
  <2>2. CASE cards' \subseteq cards
    BY <2>2
  <2>3. QED
    BY <2>1, <2>2, CardWriters
<1>6. QED
  BY <1>1, <1>3, <1>4, <1>5, HandlersGoForward DEF RowsOfRequests

-----------------------------------------------------------------------------
(* Looks and inserts *)

(* Whoever is about to insert found nothing, or its look failed.           *)
LEMMA LooksBegin ==
  ASSUME TypeOK, [Next]_vars, NEW m \in Inbound
  PROVE  /\ hook'[m].pc = "enter" =>
              /\ hook'[m].phone = hook[m].phone
              /\ hook[m].pc = "enter" \/ (UNCHANGED contact /\ Known(hook[m].phone) = {})
         /\ hook'[m].pc = "open" =>
              /\ hook'[m].contact = hook[m].contact
              /\ \/ hook[m].pc = "open"
                 \/ UNCHANGED conv /\ (Current(hook[m].contact) = {} \/ faults' # 0)
         /\ hook'[m].pc = "deal" =>
              /\ hook'[m].contact = hook[m].contact /\ hook'[m].pipeline = hook[m].pipeline
              /\ \/ hook[m].pc = "deal"
                 \/ /\ hook[m].pc = "look" /\ UNCHANGED cards
                    /\ CardsIn(hook[m].contact, hook[m].pipeline) = {} \/ faults' # 0
<1> DEFINE Enters == hook'[m].pc = "enter" =>
              /\ hook'[m].phone = hook[m].phone
              /\ hook[m].pc = "enter" \/ (UNCHANGED contact /\ Known(hook[m].phone) = {})
           Opens == hook'[m].pc = "open" =>
              /\ hook'[m].contact = hook[m].contact
              /\ \/ hook[m].pc = "open"
                 \/ UNCHANGED conv /\ (Current(hook[m].contact) = {} \/ faults' # 0)
           Deals == hook'[m].pc = "deal" =>
              /\ hook'[m].contact = hook[m].contact /\ hook'[m].pipeline = hook[m].pipeline
              /\ \/ hook[m].pc = "deal"
                 \/ /\ hook[m].pc = "look" /\ UNCHANGED cards
                    /\ CardsIn(hook[m].contact, hook[m].pipeline) = {} \/ faults' # 0
<1>1. hook \in [Inbound -> Hook] /\ faults \in Nat
  BY IntakeAssumption DEF TypeOK
<1>2. Fault => faults' # 0
  BY <1>1 DEF Fault
<1>3. ASSUME NEW n \in Inbound, HookStep(n) \/ LoseHook(n)
      PROVE  Enters /\ Opens /\ Deals
  <2>1. hook[n] \in Hook /\ hook[m] \in Hook
    BY <1>1
  <2> USE <1>1, <2>1 DEF Hook, Goto
  <2>2. CASE FindContact(n)
    <3>1. hook[n].pc = "contact" /\ UNCHANGED rows
      BY <2>2 DEF FindContact
    <3>2. ASSUME NEW k, hook' = [hook EXCEPT ![n] = [@ EXCEPT !.pc = "conversation", !.contact = k]]
          PROVE  Enters /\ Opens /\ Deals
      BY <3>1, <3>2
    <3>3. CASE Known(hook[n].phone) = {} /\ Goto(n, "enter")
      BY <3>1, <3>3 DEF rows
    <3>4. CASE Goto(n, "ended")
      BY <3>1, <3>4
    <3>5. QED
      BY <2>2, <3>2, <3>3, <3>4 DEF FindContact
  <2>3. CASE AddContact(n)
    BY <2>3 DEF AddContact
  <2>4. CASE FindConversation(n)
    <3>1. hook[n].pc = "conversation" /\ UNCHANGED rows
      BY <2>4 DEF FindConversation
    <3>2. ASSUME NEW v, hook' = [hook EXCEPT ![n] = [@ EXCEPT !.pc = "store", !.conv = v]]
          PROVE  Enters /\ Opens /\ Deals
      BY <3>1, <3>2
    <3>3. CASE Goto(n, "open") /\ (Current(hook[n].contact) = {} \/ Fault)
      BY <1>2, <3>1, <3>3 DEF rows
    <3>4. QED
      BY <2>4, <3>2, <3>3 DEF FindConversation
  <2>5. CASE AddConversation(n)
    BY <2>5 DEF AddConversation
  <2>6. CASE StoreMessage(n) \/ CountMessage(n) \/ AddCard(n) \/ LoseHook(n)
    BY <2>6 DEF StoreMessage, CountMessage, AddCard, LoseHook
  <2>7. CASE FindCard(n)
    <3>1. hook[n].pc = "look" /\ UNCHANGED rows
      BY <2>7 DEF FindCard
    <3>2. CASE Goto(n, "ended")
      BY <3>1, <3>2
    <3>3. CASE Goto(n, "deal") /\ (CardsIn(hook[n].contact, hook[n].pipeline) = {} \/ Fault)
      BY <1>2, <3>1, <3>3 DEF rows
    <3>4. QED
      BY <2>7, <3>2, <3>3 DEF FindCard
  <2>8. CASE ChoosePipeline(n)
    <3>1. CASE hook' = [hook EXCEPT ![n] = [@ EXCEPT !.pc = "look", !.pipeline = main]]
      BY <2>8, <3>1 DEF ChoosePipeline
    <3>2. CASE Goto(n, "ended")
      BY <2>8, <3>2 DEF ChoosePipeline
    <3>3. QED
      BY <2>8, <3>1, <3>2 DEF ChoosePipeline
  <2>9. QED
    BY <1>3, <2>2, <2>3, <2>4, <2>5, <2>6, <2>7, <2>8 DEF HookStep
<1>4. ASSUME NEW n \in Inbound, NEW p \in Phones, NEW text \in BOOLEAN, Receive(n, p, text)
      PROVE  Enters /\ Opens /\ Deals
  BY <1>1, <1>4 DEF Receive, IdleHook
<1>5. CASE UNCHANGED hook
  BY <1>5
<1>6. QED
  BY <1>3, <1>4, <1>5, HookWriters

(* A phone has one contact.                                                *)
NobodyEntersAKnownPhone ==
  "contact" \notin overlaps => \A m \in Inbound : hook[m].pc = "enter" => Known(hook[m].phone) = {}

ContactsApart == OneContactPerPhone /\ NobodyEntersAKnownPhone

LEMMA ContactsStart == Init => ContactsApart
BY DEF Init, ContactsApart, OneContactPerPhone, NobodyEntersAKnownPhone, HasContact, IdleHook

LEMMA ContactsStep ==
  TypeOK /\ RowsOfRequests /\ ContactsApart /\ [Next]_vars => ContactsApart'
<1> SUFFICES ASSUME TypeOK, RowsOfRequests, ContactsApart, [Next]_vars, "contact" \notin overlaps'
             PROVE  /\ \A k, l \in Contacts :
                         /\ HasContact(k)' /\ HasContact(l)'
                         /\ contact'[k].phone = contact'[l].phone /\ contact'[k].phone # None
                         => k = l
                    /\ \A m \in Inbound : hook'[m].pc = "enter" => Known(hook[m].phone)' = {}
  BY LooksBegin DEF ContactsApart, OneContactPerPhone, NobodyEntersAKnownPhone
<1> DEFINE Apart == \A k, l \in Contacts :
                         /\ HasContact(k)' /\ HasContact(l)'
                         /\ contact'[k].phone = contact'[l].phone /\ contact'[k].phone # None
                         => k = l
           Free == \A m \in Inbound : hook'[m].pc = "enter" => Known(hook[m].phone)' = {}
<1>1. "contact" \notin overlaps
  BY HistoryGrows
<1>2. /\ \A k, l \in Contacts : HasContact(k) /\ HasContact(l)
           /\ contact[k].phone = contact[l].phone /\ contact[k].phone # None => k = l
      /\ \A m \in Inbound : hook[m].pc = "enter" => Known(hook[m].phone) = {}
      /\ contact \in [Contacts -> ContactRow] /\ hook \in [Inbound -> Hook]
  BY <1>1 DEF ContactsApart, OneContactPerPhone, NobodyEntersAKnownPhone, TypeOK
<1>3. CASE UNCHANGED contact
  <2>1. Apart
    BY <1>2, <1>3 DEF HasContact
  <2>2. Free
    BY <1>2, <1>3, LooksBegin DEF Known, HasContact
  <2>3. QED
    BY <2>1, <2>2
<1>4. ASSUME NEW n \in Inbound, AddContact(n), contact' # contact
      PROVE  Apart /\ Free
  <2> DEFINE p == hook[n].phone
  <2>1. /\ hook[n].pc = "enter" /\ n \in Contacts
        /\ contact' = [contact EXCEPT ![n] = [status |-> "present", phone |-> p]]
        /\ Overlap("contact", Entering(p) \ {n})
        /\ hook' = [hook EXCEPT ![n] = [@ EXCEPT !.pc = "conversation", !.contact = n]]
    BY <1>4 DEF AddContact, Contacts
  <2>2. Known(p) = {}
    BY <1>2, <2>1
  <2>3. Entering(p) \subseteq {n}
    BY <1>1, <2>1 DEF Overlap
  <2>4. \A k \in Contacts \ {n} : contact'[k] = contact[k]
    BY <1>2, <2>1
  <2>5. contact'[n].phone = p
    BY <1>2, <2>1
  <2>6. \A k \in Contacts \ {n} : HasContact(k)' => HasContact(k)
    BY <2>4 DEF HasContact
  <2>7. Apart
    BY <1>2, <2>2, <2>4, <2>5, <2>6 DEF Known
  <2>8. \A m \in Inbound : hook'[m].pc = "enter" => m # n /\ hook'[m] = hook[m]
    BY <1>2, <2>1 DEF Hook
  <2>9. \A m \in Inbound : hook'[m].pc = "enter" => hook[m].phone # p
    BY <2>3, <2>8 DEF Entering
  <2>10. Free
    BY <1>2, <2>4, <2>5, <2>6, <2>8, <2>9 DEF Known
  <2>11. QED
    BY <2>7, <2>10
<1>5. ASSUME ByHand, contact' # contact
      PROVE  Apart /\ Free
  <2>1. UNCHANGED hook
    BY <1>5 DEF ByHand, UpdateStatus, CreateContact, UpdateContact, MergeContacts, ChangePipeline,
     DeleteContact, rows
  <2>2. ASSUME NEW k \in Contacts, NEW p \in Phones \cup {None},
               Overlap("contact", (Known(p) \ {k}) \cup Entering(p)),
               contact'[k].phone = p, \A l \in Contacts \ {k} : contact'[l] = contact[l]
        PROVE  Apart /\ Free
    <3>1. Known(p) \subseteq {k} /\ Entering(p) = {}
      BY <1>1, <2>2 DEF Overlap
    <3>2. \A l \in Contacts \ {k} : HasContact(l)' => HasContact(l)
      BY <2>2 DEF HasContact
    <3>3. Apart
      BY <1>2, <2>2, <3>1, <3>2 DEF Known
    <3>4. \A m \in Inbound : hook[m].pc = "enter" => hook[m].phone # p
      BY <3>1 DEF Entering
    <3>5. Free
      BY <1>2, <2>1, <2>2, <3>2, <3>4 DEF Known
    <3>6. QED
      BY <3>3, <3>5
  <2>3. ASSUME NEW k \in People, NEW p \in Phones \cup {None}, CreateContact(k, p)
        PROVE  Apart /\ Free
    <3>1. k \in Contacts /\ Known(p) \ {k} = Known(p)
      BY <2>3 DEF CreateContact, Contacts, Known, HasContact
    <3>2. /\ Overlap("contact", (Known(p) \ {k}) \cup Entering(p))
          /\ contact'[k].phone = p /\ \A l \in Contacts \ {k} : contact'[l] = contact[l]
      BY <1>2, <2>3, <3>1 DEF CreateContact
    <3>3. QED
      BY <2>2, <3>1, <3>2
  <2>4. ASSUME NEW k \in Contacts, NEW p \in Phones, UpdateContact(k, p)
        PROVE  Apart /\ Free
    <3>1. /\ Overlap("contact", (Known(p) \ {k}) \cup Entering(p))
          /\ contact'[k].phone = p /\ \A l \in Contacts \ {k} : contact'[l] = contact[l]
      BY <1>2, <2>4 DEF UpdateContact, ContactRow
    <3>2. QED
      BY <2>2, <3>1
  <2>5. ASSUME NEW k \in Contacts, DeleteContact(k)
        PROVE  Apart /\ Free
    <3>1. \A l \in Contacts : HasContact(l)' => HasContact(l) /\ contact'[l] = contact[l]
      BY <1>2, <2>5 DEF DeleteContact, HasContact, ContactRow
    <3>2. QED
      BY <1>2, <2>1, <3>1 DEF Known
  <2>6. ASSUME NEW p \in Pipelines, ChangePipeline(p) PROVE UNCHANGED contact
    BY <2>6 DEF ChangePipeline, rows
  <2>7. QED
    BY <1>3, <1>5, <2>3, <2>4, <2>5, <2>6 DEF ByHand, UpdateStatus, MergeContacts
<1>6. QED
  BY <1>3, <1>4, <1>5, ContactWriters

-----------------------------------------------------------------------------
(* A contact has one conversation that is not resolved.                    *)
NobodyOpensASecond ==
  "conversation" \notin overlaps /\ faults = 0 =>
    /\ \A m \in Inbound : hook[m].pc = "open" => Current(hook[m].contact) = {}
    /\ \A d \in Desks : desk[d].pc = "insert" => Current(desk[d].contact) = {}

ConversationsApart == OneConversationPerContact /\ NobodyOpensASecond

LEMMA ConversationsStart == Init => ConversationsApart
BY DEF Init, ConversationsApart, OneConversationPerContact, NobodyOpensASecond, Current, IdleHook, IdleDesk

(* The same of an attendant's request.                                     *)
LEMMA DeskLooks ==
  ASSUME TypeOK, [Next]_vars, NEW d \in Desks, desk'[d].pc = "insert"
  PROVE  \/ desk[d] = desk'[d]
         \/ UNCHANGED conv /\ (Current(desk'[d].contact) = {} \/ faults' # 0)
<1>1. desk \in [Desks -> Request] /\ faults \in Nat
  BY IntakeAssumption DEF TypeOK
<1>2. Fault => faults' # 0
  BY <1>1 DEF Fault
<1>3. ASSUME NEW e \in Desks, DeskStep(e), e # d PROVE desk[d] = desk'[d]
  BY <1>1, <1>3 DEF DeskStep, ReadMessages, ResetUnread, FindOpenOne, InsertConversation
<1>4. CASE DeskStep(d)
  <2>1. ASSUME NEW k \in Contacts, FindOpenOne(d, k)
        PROVE  UNCHANGED conv /\ (Current(desk'[d].contact) = {} \/ faults' # 0)
    <3>1. desk'[d].contact = k
      BY <1>1, <2>1 DEF FindOpenOne, IdleDesk
    <3>2. QED
      BY <1>2, <2>1, <3>1 DEF FindOpenOne, rows
  <2>2. ASSUME NEW v \in Convs, ReadMessages(d, v) PROVE FALSE
    BY <1>1, <2>2 DEF ReadMessages, IdleDesk
  <2>3. CASE ResetUnread(d) \/ InsertConversation(d)
    BY <1>1, <2>3 DEF ResetUnread, InsertConversation, IdleDesk
  <2>4. QED
    BY <1>4, <2>1, <2>2, <2>3 DEF DeskStep
<1>5. CASE UNCHANGED desk
  BY <1>5
<1>6. QED
  BY <1>3, <1>4, <1>5, DeskWriters

LEMMA ConversationsStep ==
  TypeOK /\ RowsOfRequests /\ ConversationsApart /\ [Next]_vars => ConversationsApart'
<1> SUFFICES ASSUME TypeOK, RowsOfRequests, ConversationsApart, [Next]_vars,
                    "conversation" \notin overlaps', faults' = 0
             PROVE  /\ \A u, v \in Convs :
                         u \in Current(conv[v].contact)' /\ v \in Current(conv[u].contact)' => u = v
                    /\ \A m \in Inbound : hook'[m].pc = "open" => Current(hook[m].contact)' = {}
                    /\ \A d \in Desks : desk'[d].pc = "insert" => Current(desk[d].contact)' = {}
  BY DEF ConversationsApart, OneConversationPerContact, NobodyOpensASecond
<1> DEFINE Apart == \A u, v \in Convs :
                      u \in Current(conv[v].contact)' /\ v \in Current(conv[u].contact)' => u = v
           Free == \A m \in Inbound : hook'[m].pc = "open" => Current(hook[m].contact)' = {}
           DeskFree == \A d \in Desks : desk'[d].pc = "insert" => Current(desk[d].contact)' = {}
<1>1. "conversation" \notin overlaps /\ faults = 0
  BY HistoryGrows
<1>2. /\ \A u, v \in Convs : u \in Current(conv[v].contact) /\ v \in Current(conv[u].contact) => u = v
      /\ \A m \in Inbound : hook[m].pc = "open" => Current(hook[m].contact) = {}
      /\ \A d \in Desks : desk[d].pc = "insert" => Current(desk[d].contact) = {}
      /\ conv \in [Convs -> ConvRow] /\ hook \in [Inbound -> Hook] /\ desk \in [Desks -> Request]
  BY <1>1 DEF ConversationsApart, OneConversationPerContact, NobodyOpensASecond, TypeOK
<1>3. /\ \A m \in Inbound : hook'[m].pc = "open" =>
           /\ hook'[m].contact = hook[m].contact
           /\ hook[m].pc = "open" \/ (UNCHANGED conv /\ Current(hook[m].contact) = {})
      /\ \A d \in Desks : desk'[d].pc = "insert" =>
           desk[d] = desk'[d] \/ (UNCHANGED conv /\ Current(desk'[d].contact) = {})
  BY LooksBegin, DeskLooks
(* Fewer, or the same: nobody is disturbed.                                *)
<1>4. ASSUME \A v \in Convs : conv'[v].status \in {"open", "pending"} =>
                conv[v].status \in {"open", "pending"} /\ conv'[v].contact = conv[v].contact
      PROVE  Apart /\ Free /\ DeskFree
  <2>1. Apart
    BY <1>2, <1>4 DEF Current
  <2>2. Free
    BY <1>2, <1>3, <1>4 DEF Current
  <2>3. DeskFree
    BY <1>2, <1>3, <1>4 DEF Current
  <2>4. QED
    BY <2>1, <2>2, <2>3
(* One more, where there was none and nobody else is about to insert.      *)
<1>5. ASSUME NEW w \in Convs, NEW k, conv'[w].contact = k, Current(k) \subseteq {w},
             \A v \in Convs \ {w} : conv'[v] = conv[v],
             \A m \in Inbound : hook'[m].pc = "open" => hook[m].contact # k,
             \A d \in Desks : desk'[d].pc = "insert" => desk'[d].contact # k
      PROVE  Apart /\ Free /\ DeskFree
  <2>1. Apart
    BY <1>2, <1>5 DEF Current
  <2>2. Free
    BY <1>2, <1>3, <1>5 DEF Current
  <2>3. DeskFree
    BY <1>2, <1>3, <1>5 DEF Current
  <2>4. QED
    BY <2>1, <2>2, <2>3
<1>6. ASSUME NEW n \in Inbound, AddConversation(n), conv' # conv
      PROVE  Apart /\ Free /\ DeskFree
  <2> DEFINE k == hook[n].contact
  <2>1. /\ hook[n].pc = "open" /\ n \in Convs /\ UNCHANGED desk
        /\ conv' = [conv EXCEPT ![n] = [status |-> "open", contact |-> k, unread |-> 0]]
        /\ Overlap("conversation", Opening(k) \ {n})
        /\ hook' = [hook EXCEPT ![n] = [@ EXCEPT !.pc = "store", !.conv = n]]
    BY <1>6 DEF AddConversation, Convs
  <2>2. Current(k) = {}
    BY <1>2, <2>1
  <2>3. Opening(k) \subseteq {n}
    BY <1>1, <2>1 DEF Overlap
  <2>4. conv'[n].contact = k /\ \A v \in Convs \ {n} : conv'[v] = conv[v]
    BY <1>2, <2>1
  <2>5. \A m \in Inbound : hook'[m].pc = "open" => m # n /\ hook'[m] = hook[m]
    BY <1>2, <2>1 DEF Hook
  <2>6. \A m \in Inbound : hook'[m].pc = "open" => hook[m].contact # k
    BY <2>3, <2>5 DEF Opening
  <2>7. \A d \in Desks : desk[d].pc = "insert" => desk[d].contact # k
    BY <2>1, <2>3, IntakeAssumption DEF Opening
  <2>8. QED
    BY <1>5, <2>1, <2>2, <2>4, <2>6, <2>7
<1>7. ASSUME NEW d \in Desks, InsertConversation(d), conv' # conv
      PROVE  Apart /\ Free /\ DeskFree
  <2> DEFINE k == desk[d].contact
  <2>1. /\ desk[d].pc = "insert" /\ UNCHANGED hook
        /\ Overlap("conversation", Opening(k) \ {d})
        /\ desk' = [desk EXCEPT ![d] = IdleDesk]
    BY <1>7 DEF InsertConversation
  <2>2. PICK w \in Convs : conv' = [conv EXCEPT ![w] = [status |-> "open", contact |-> k, unread |-> 0]]
    BY <1>7 DEF InsertConversation, Convs
  <2>3. Current(k) = {}
    BY <1>2, <2>1
  <2>4. Opening(k) \subseteq {d}
    BY <1>1, <2>1 DEF Overlap
  <2>5. conv'[w].contact = k /\ \A v \in Convs \ {w} : conv'[v] = conv[v]
    BY <1>2, <2>2
  <2>6. \A m \in Inbound : hook'[m].pc = "open" => hook[m].contact # k
    BY <2>1, <2>4, IntakeAssumption DEF Opening
  <2>7. \A e \in Desks : desk'[e].pc = "insert" => e # d /\ desk'[e] = desk[e]
    BY <1>2, <2>1 DEF IdleDesk
  <2>8. \A e \in Desks : desk'[e].pc = "insert" => desk'[e].contact # k
    BY <2>4, <2>7 DEF Opening
  <2>9. QED
    BY <1>5, <2>3, <2>5, <2>6, <2>8
<1>8. ASSUME ByHand PROVE Apart /\ Free /\ DeskFree
  <2>1. ASSUME NEW v \in Convs, NEW status \in {"open", "pending", "resolved"}, UpdateStatus(v, status)
        PROVE  Apart /\ Free /\ DeskFree
    <3> DEFINE k == conv[v].contact
    <3>1. /\ conv'[v].contact = k /\ conv'[v].status = status
          /\ \A w \in Convs \ {v} : conv'[w] = conv[w]
          /\ UNCHANGED <<hook, desk>> /\ conv[v].status \in {"open", "pending", "resolved"}
      BY <1>2, <2>1 DEF UpdateStatus, ConvRow, HasConv
    <3>2. CASE conv[v].status = "resolved" /\ status # "resolved"
      <4>1. Current(k) = {} /\ Opening(k) = {}
        BY <1>1, <2>1, <3>2 DEF UpdateStatus, Overlap
      <4>2. /\ \A m \in Inbound : hook'[m].pc = "open" => hook[m].contact # k
            /\ \A d \in Desks : desk'[d].pc = "insert" => desk'[d].contact # k
        BY <3>1, <4>1 DEF Opening
      <4>3. QED
        BY <1>5, <3>1, <4>1, <4>2
    <3>3. CASE ~(conv[v].status = "resolved" /\ status # "resolved")
      BY <1>4, <3>1, <3>3
    <3>4. QED
      BY <3>2, <3>3
  <2>2. ASSUME NEW k \in Contacts, DeleteContact(k) PROVE Apart /\ Free /\ DeskFree
    <3>1. \A v \in Convs : conv'[v].status \in {"open", "pending"} => conv'[v] = conv[v]
      BY <1>2, <2>2 DEF DeleteContact, ConvRow
    <3>2. QED
      BY <1>4, <3>1
  <2>3. CASE UNCHANGED conv
    BY <1>4, <2>3
  <2>4. QED
    BY <1>8, <2>1, <2>2, <2>3 DEF ByHand, CreateContact, UpdateContact, MergeContacts, ChangePipeline, rows
<1>9. ASSUME NEW n \in Inbound, CountMessage(n)
      PROVE  Apart /\ Free /\ DeskFree
  <2>1. \A v \in Convs : conv'[v].status = conv[v].status /\ conv'[v].contact = conv[v].contact
    BY <1>2, <1>9 DEF CountMessage, HasConv, ConvRow
  <2>2. QED
    BY <1>4, <2>1
<1>10. ASSUME NEW d \in Desks, ResetUnread(d)
       PROVE  Apart /\ Free /\ DeskFree
  <2>1. \A v \in Convs : conv'[v].status = conv[v].status /\ conv'[v].contact = conv[v].contact
    BY <1>2, <1>10 DEF ResetUnread, HasConv, ConvRow
  <2>2. QED
    BY <1>4, <2>1
<1>11. CASE UNCHANGED conv
  BY <1>4, <1>11
<1>12. QED
  BY <1>6, <1>7, <1>8, <1>9, <1>10, <1>11, ConvWriters

-----------------------------------------------------------------------------
(* A contact has one card of its messages in each pipeline they met, and   *)
(* they met one as long as nobody changed it under their cards and looks.  *)
NobodyDealsASecond ==
  "card" \notin overlaps /\ faults = 0 =>
    \A m \in Inbound : hook[m].pc = "deal" => CardsIn(hook[m].contact, hook[m].pipeline) = {}

OnePipeline ==
  "pipeline" \notin overlaps => \A m \in cards \cup Looking : hook[m].pipeline = main

CardsApart ==
  /\ "card" \notin overlaps /\ faults = 0 =>
       \A m, n \in cards :
         hook[m].contact = hook[n].contact /\ hook[m].pipeline = hook[n].pipeline => m = n
  /\ NobodyDealsASecond
  /\ OnePipeline

LEMMA CardsFollow == CardsApart => OneCardPerContact
BY DEF CardsApart, OnePipeline, OneCardPerContact

LEMMA CardsStart == Init => CardsApart
BY DEF Init, CardsApart, NobodyDealsASecond, OnePipeline, Looking, CardsOf, CardsIn, IdleHook

LEMMA PipelineWriters ==
  ASSUME [Next]_vars
  PROVE  UNCHANGED main \/ \E p \in Pipelines : ChangePipeline(p)
<1>1. CASE ByHand
  BY <1>1 DEF ByHand
<1>2. CASE UNCHANGED vars
  BY <1>2 DEF vars, byHand
<1>3. CASE Next /\ ~ByHand
  BY <1>3 DEF Next, Comes, HookStep, DispatchStep, DeskStep, Stops, byHand
<1>4. QED
  BY <1>1, <1>2, <1>3

(* Who looks for a card does so in the pipeline of the moment it began.    *)
LEMMA PipelineChosen ==
  ASSUME TypeOK, [Next]_vars, NEW m \in Inbound, hook'[m].pc \in {"look", "deal"}
  PROVE  (hook'[m].pipeline = hook[m].pipeline /\ m \in Looking) \/ hook'[m].pipeline = main
<1>1. hook \in [Inbound -> Hook]
  BY DEF TypeOK
<1>2. CASE hook'[m].pc = "deal"
  BY <1>1, <1>2, LooksBegin DEF Looking
<1>3. CASE hook'[m].pc = "look"
  <2>1. ASSUME NEW n \in Inbound, HookStep(n) \/ LoseHook(n)
        PROVE  \/ hook'[m] = hook[m]
               \/ ChoosePipeline(n)
    BY <1>1, <1>3, <2>1 DEF HookStep, FindContact, AddContact, FindConversation, AddConversation,
       StoreMessage, CountMessage, FindCard, AddCard, LoseHook, Goto, Hook
  <2>2. ASSUME NEW n \in Inbound, ChoosePipeline(n)
        PROVE  hook'[m] = hook[m] \/ hook'[m].pipeline = main
    BY <1>1, <1>3, <2>2 DEF ChoosePipeline, Goto, Hook
  <2>3. ASSUME NEW n \in Inbound, NEW p \in Phones, NEW text \in BOOLEAN, Receive(n, p, text)
        PROVE  hook'[m] = hook[m]
    BY <1>1, <1>3, <2>3 DEF Receive, IdleHook
  <2>4. hook'[m] = hook[m] \/ hook'[m].pipeline = main
    BY <2>1, <2>2, <2>3, HookWriters
  <2>5. QED
    BY <1>3, <2>4 DEF Looking
<1>4. QED
  BY <1>2, <1>3

(* The pipeline of a card, or of a look for one, stays the one of then.    *)
LEMMA PipelineStep ==
  TypeOK /\ RowsOfRequests /\ OnePipeline /\ [Next]_vars => OnePipeline'
<1> SUFFICES ASSUME TypeOK, RowsOfRequests, OnePipeline, [Next]_vars, "pipeline" \notin overlaps',
                    NEW m \in cards' \cup Looking'
             PROVE  hook'[m].pipeline = main'
  BY DEF OnePipeline
<1>1. hook \in [Inbound -> Hook] /\ cards \subseteq Inbound /\ "pipeline" \notin overlaps
  BY HistoryGrows DEF TypeOK
<1>2. \A n \in cards \cup Looking : hook[n].pipeline = main
  BY <1>1 DEF OnePipeline
<1>3. \A n \in Inbound : hook'[n].pc \in {"look", "deal"} =>
        (hook'[n].pipeline = hook[n].pipeline /\ n \in Looking) \/ hook'[n].pipeline = main
  BY PipelineChosen
<1>4. \A n \in cards : hook'[n] = hook[n]
  BY <1>1, HandlersGoForward DEF RowsOfRequests
<1>5. UNCHANGED main \/ \E p \in Pipelines : ChangePipeline(p)
  BY PipelineWriters
<1>6. hook'[m].pipeline = main
  <2>1. CASE m \in Looking'
    BY <1>2, <1>3, <2>1 DEF Looking
  <2>2. CASE m \in cards
    BY <1>2, <1>4, <2>2
  <2>3. ASSUME NEW n \in Inbound, AddCard(n), m = n, m \notin cards, m \in cards'
        PROVE  m \in Looking /\ hook'[m].pipeline = hook[m].pipeline
    BY <1>1, <2>3 DEF AddCard, Goto, Looking, Hook
  <2>4. ASSUME NEW n \in Inbound, AddCard(n) PROVE cards' \subseteq cards \cup {n}
    BY <2>4 DEF AddCard
  <2>5. QED
    BY <1>2, <2>1, <2>2, <2>3, <2>4, CardWriters
<1>7. ASSUME NEW p \in Pipelines, ChangePipeline(p) PROVE FALSE
  <2>1. cards' = cards /\ Looking' = Looking
    BY <1>7 DEF ChangePipeline, Looking, rows
  <2>2. cards \cup Looking = {}
    BY <1>1, <1>7 DEF ChangePipeline, Overlap
  <2>3. QED
    BY <2>1, <2>2
<1>8. QED
  BY <1>5, <1>6, <1>7

LEMMA CardsStep ==
  TypeOK /\ RowsOfRequests /\ CardsApart /\ [Next]_vars => CardsApart'
<1> SUFFICES ASSUME TypeOK, RowsOfRequests, CardsApart, [Next]_vars,
                    "card" \notin overlaps', faults' = 0
             PROVE  /\ \A m, n \in cards' :
                         hook'[m].contact = hook'[n].contact /\ hook'[m].pipeline = hook'[n].pipeline
                           => m = n
                    /\ \A m \in Inbound :
                         hook'[m].pc = "deal" => CardsIn(hook[m].contact, hook[m].pipeline)' = {}
  BY PipelineStep DEF CardsApart, NobodyDealsASecond
<1>1. "card" \notin overlaps /\ faults = 0
  BY HistoryGrows
<1>2. /\ \A m, n \in cards :
           hook[m].contact = hook[n].contact /\ hook[m].pipeline = hook[n].pipeline => m = n
      /\ \A m \in Inbound : hook[m].pc = "deal" => CardsIn(hook[m].contact, hook[m].pipeline) = {}
      /\ hook \in [Inbound -> Hook] /\ cards \subseteq Inbound
  BY <1>1 DEF CardsApart, NobodyDealsASecond, TypeOK
<1>3. \A m \in cards : hook'[m] = hook[m]
  BY <1>2, HandlersGoForward DEF RowsOfRequests
<1>4. \A m \in Inbound : hook'[m].pc = "deal" =>
        /\ hook'[m].contact = hook[m].contact /\ hook'[m].pipeline = hook[m].pipeline
        /\ hook[m].pc = "deal" \/ CardsIn(hook[m].contact, hook[m].pipeline) = {}
  BY LooksBegin
<1>5. CASE cards' \subseteq cards
  BY <1>2, <1>3, <1>4, <1>5 DEF CardsOf, CardsIn
<1>6. ASSUME NEW n \in Inbound, AddCard(n), cards' # cards
      PROVE  /\ \A l, m \in cards' :
                  hook'[l].contact = hook'[m].contact /\ hook'[l].pipeline = hook'[m].pipeline => l = m
             /\ \A m \in Inbound :
                  hook'[m].pc = "deal" => CardsIn(hook[m].contact, hook[m].pipeline)' = {}
  <2>1. /\ hook[n].pc = "deal" /\ cards' = cards \cup {n}
        /\ Overlap("card", Dealing(hook[n].contact, hook[n].pipeline) \ {n})
        /\ hook' = [hook EXCEPT ![n].pc = "ended"]
    BY <1>6 DEF AddCard, Goto
  <2>2. /\ CardsIn(hook[n].contact, hook[n].pipeline) = {}
        /\ Dealing(hook[n].contact, hook[n].pipeline) \subseteq {n}
    BY <1>1, <1>2, <2>1 DEF Overlap
  <2>3. /\ hook'[n].contact = hook[n].contact /\ hook'[n].pipeline = hook[n].pipeline
        /\ hook'[n].pc = "ended"
    BY <1>2, <2>1 DEF Hook
  <2>4. \A m \in Inbound : hook'[m].pc = "deal" => m # n /\ hook'[m] = hook[m]
    BY <1>2, <2>1, <2>3
  <2>5. \A m \in Inbound :
          hook'[m].pc = "deal" => hook[m].contact # hook[n].contact \/ hook[m].pipeline # hook[n].pipeline
    BY <2>2, <2>4 DEF Dealing
  <2>6. QED
    BY <1>2, <1>3, <1>4, <2>1, <2>2, <2>3, <2>4, <2>5 DEF CardsOf, CardsIn
<1>7. QED
  BY <1>5, <1>6, CardWriters

-----------------------------------------------------------------------------
(* Every message is noticed *)

HandlerKnows(m) ==
  /\ hook[m].pc \notin Early =>
       hook[m].contact \in Contacts /\ contact[hook[m].contact].status # "absent"
  /\ contact[hook[m].contact].status # "deleted" =>
       /\ hook[m].pc \notin BeforeStore =>
            HasConv(hook[m].conv) /\ conv[hook[m].conv].contact = hook[m].contact
       /\ hook[m].text /\ hook[m].pc \in AfterCount \cup {"count"} => m \in StoredIn(hook[m].conv)
       /\ hook[m].text /\ hook[m].pc \in AfterCount =>
            m \in shown \/ m \in missed \/ conv[hook[m].conv].unread > 0

HandlersKnow == faults = 0 => \A m \in Inbound : HandlerKnows(m)

LEMMA NoticedFollows == TypeOK /\ HandlersKnow => InboundIsNoticed
BY DEF HandlersKnow, HandlerKnows, InboundIsNoticed

LEMMA KnowsStart == Init => HandlersKnow
BY DEF Init, HandlersKnow, HandlerKnows, IdleHook, Early, BeforeStore, AfterCount

(* A row outlives every step but the removal of its contact.               *)
LEMMA ContactsLast ==
  ASSUME TypeOK, RowsOfRequests, [Next]_vars, NEW k \in Contacts
  PROVE  /\ contact[k].status # "absent" => contact'[k].status # "absent"
         /\ contact[k].status = "deleted" => contact'[k].status = "deleted"
<1>1. contact \in [Contacts -> ContactRow]
  BY DEF TypeOK
<1>2. ASSUME NEW n \in Inbound, AddContact(n)
      PROVE  contact[n].status = "absent" /\ \A l \in Contacts \ {n} : contact'[l] = contact[l]
  BY <1>1, <1>2 DEF AddContact, RowsOfRequests, Early
<1>3. ASSUME NEW l \in Contacts, NEW r,
             \/ contact' = [contact EXCEPT ![l].phone = r] /\ HasContact(l)
             \/ contact' = [contact EXCEPT ![l].status = "deleted"]
             \/ contact' = [contact EXCEPT ![l] = [status |-> "present", phone |-> r]]
                  /\ contact[l].status = "absent"
      PROVE  /\ contact[k].status # "absent" => contact'[k].status # "absent"
             /\ contact[k].status = "deleted" => contact'[k].status = "deleted"
  BY <1>1, <1>3 DEF ContactRow, HasContact
<1>4. CASE ByHand
  BY <1>3, <1>4 DEF ByHand, UpdateStatus, CreateContact, UpdateContact, MergeContacts, ChangePipeline,
     DeleteContact, Contacts, rows
<1>5. QED
  BY <1>2, <1>4, ContactWriters

LEMMA ConvsLast ==
  ASSUME TypeOK, RowsOfRequests, [Next]_vars, NEW v, HasConv(v)
  PROVE  /\ conv'[v].contact = conv[v].contact
         /\ HasConv(v)' \/ contact'[conv[v].contact].status = "deleted"
<1>1. conv \in [Convs -> ConvRow] /\ contact \in [Contacts -> ContactRow] /\ v \in Convs
  BY DEF TypeOK, HasConv
<1>2. ASSUME NEW n \in Inbound, AddConversation(n)
      PROVE  conv'[v] = conv[v]
  BY <1>1, <1>2 DEF AddConversation, RowsOfRequests, BeforeStore, HasConv
<1>3. ASSUME NEW n \in Inbound, CountMessage(n)
      PROVE  conv'[v].status = conv[v].status /\ conv'[v].contact = conv[v].contact
  BY <1>1, <1>3 DEF CountMessage, HasConv, ConvRow
<1>4. ASSUME NEW d \in Desks, ResetUnread(d)
      PROVE  conv'[v].status = conv[v].status /\ conv'[v].contact = conv[v].contact
  BY <1>1, <1>4 DEF ResetUnread, HasConv, ConvRow
<1>5. ASSUME NEW d \in Desks, InsertConversation(d)
      PROVE  conv'[v] = conv[v]
  BY <1>1, <1>5 DEF InsertConversation, HasConv
<1>6. ASSUME NEW w \in Convs, NEW status \in {"open", "pending", "resolved"}, UpdateStatus(w, status)
      PROVE  conv'[v].status \in {conv[v].status, status} /\ conv'[v].contact = conv[v].contact
  BY <1>1, <1>6 DEF UpdateStatus, ConvRow
<1>7. ASSUME NEW k \in Contacts, DeleteContact(k)
      PROVE  /\ conv'[v].contact = conv[v].contact
             /\ conv'[v].status = conv[v].status \/ contact'[conv[v].contact].status = "deleted"
  BY <1>1, <1>7 DEF DeleteContact, ConvRow, ContactRow
<1>8. CASE ByHand
  BY <1>6, <1>7, <1>8 DEF ByHand, CreateContact, UpdateContact, MergeContacts, ChangePipeline, HasConv, rows
<1>9. QED
  BY <1>2, <1>3, <1>4, <1>5, <1>8, ConvWriters DEF HasConv

LEMMA MessageWriters ==
  ASSUME [Next]_vars
  PROVE  \/ \E n \in Inbound : StoreMessage(n)
         \/ \E n \in Outbound : RecordResult(n)
         \/ \E n \in Outbound, v \in Convs, note \in BOOLEAN : SendMessage(n, v, note)
         \/ \E k \in Contacts : DeleteContact(k)
         \/ UNCHANGED message
<1>1. ASSUME NEW m \in Inbound, HookStep(m) \/ LoseHook(m) PROVE StoreMessage(m) \/ UNCHANGED message
  BY <1>1 DEF HookStep, FindContact, AddContact, FindConversation, AddConversation, CountMessage,
     ChoosePipeline, FindCard, AddCard, LoseHook, rows
<1>2. ASSUME NEW m \in Outbound, DispatchStep(m) \/ LoseDispatch(m)
      PROVE  RecordResult(m) \/ UNCHANGED message
  BY <1>2 DEF DispatchStep, LookUpChannel, CallProvider, LoseDispatch, rows
<1>3. ASSUME NEW d \in Desks, DeskStep(d) PROVE UNCHANGED message
  BY <1>3 DEF DeskStep, ReadMessages, ResetUnread, FindOpenOne, InsertConversation, rows
<1>4. ASSUME NEW m \in Inbound, NEW p \in Phones, NEW text \in BOOLEAN, Receive(m, p, text)
      PROVE  UNCHANGED message
  BY <1>4 DEF Receive, rows
<1>5. CASE ByHand
  BY <1>5 DEF ByHand, UpdateStatus, CreateContact, UpdateContact, MergeContacts, ChangePipeline, rows
<1>6. CASE UNCHANGED vars
  BY <1>6 DEF vars, rows
<1>7. QED
  BY <1>1, <1>2, <1>3, <1>4, <1>5, <1>6 DEF Next, Comes, Stops

LEMMA MessagesLast ==
  ASSUME TypeOK, RowsOfRequests, [Next]_vars, NEW v, HasConv(v), NEW m \in StoredIn(v),
         hook'[m] = hook[m]
  PROVE  m \in StoredIn(v)' \/ contact'[conv[v].contact].status = "deleted"
<1>1. /\ message \in [Messages -> MessageRow] /\ contact \in [Contacts -> ContactRow]
      /\ hook \in [Inbound -> Hook] /\ m \in Inbound /\ m \in Messages /\ m \notin Outbound
      /\ message[m].status = "delivered" /\ message[m].conv = v
  BY IntakeAssumption DEF TypeOK, StoredIn, Messages
<1>2. ASSUME NEW n \in Inbound, StoreMessage(n) PROVE message'[m] = message[m]
  <2>1. hook'[n] # hook[n]
    BY <1>1, <1>2 DEF StoreMessage, Goto, Hook
  <2>2. QED
    BY <1>1, <1>2, <2>1 DEF StoreMessage
<1>3. ASSUME NEW n \in Outbound, RecordResult(n) PROVE message'[m] = message[m]
  BY <1>1, <1>3 DEF RecordResult
<1>4. ASSUME NEW n \in Outbound, NEW w \in Convs, NEW note \in BOOLEAN, SendMessage(n, w, note)
      PROVE  message'[m] = message[m]
  BY <1>1, <1>4 DEF SendMessage
<1>5. ASSUME NEW k \in Contacts, DeleteContact(k)
      PROVE  message'[m] = message[m] \/ contact'[conv[v].contact].status = "deleted"
  BY <1>1, <1>5 DEF DeleteContact, ContactRow
<1>6. CASE UNCHANGED message
  BY <1>1, <1>6 DEF StoredIn
<1>7. QED
  BY <1>1, <1>2, <1>3, <1>4, <1>5, <1>6, MessageWriters DEF StoredIn

(* A counter above zero is reset only by somebody who is shown the         *)
(* messages, or passes them over.                                          *)
LEMMA CountersLast ==
  ASSUME TypeOK, RowsOfRequests, [Next]_vars, NEW v, HasConv(v), conv[v].unread > 0,
         NEW m \in StoredIn(v), hook[m].pc \in AfterCount
  PROVE  m \in shown' \/ m \in missed' \/ conv'[v].unread > 0
<1>1. conv \in [Convs -> ConvRow] /\ v \in Convs /\ conv[v] \in ConvRow /\ conv[v].unread \in Nat
  BY DEF TypeOK, HasConv, ConvRow
<1>2. ASSUME NEW n \in Inbound, AddConversation(n)
      PROVE  conv'[v] = conv[v]
  BY <1>1, <1>2 DEF AddConversation, RowsOfRequests, BeforeStore, HasConv
<1>3. ASSUME NEW n \in Inbound, CountMessage(n)
      PROVE  conv'[v].unread > 0
  BY <1>1, <1>3 DEF CountMessage, HasConv, ConvRow
<1>4. ASSUME NEW d \in Desks, ResetUnread(d)
      PROVE  m \in shown' \/ m \in missed' \/ conv'[v].unread > 0
  <2>1. CASE desk[d].conv = v
    BY <1>1, <1>4, <2>1 DEF ResetUnread, StoredIn
  <2>2. CASE desk[d].conv # v
    BY <1>1, <1>4, <2>2 DEF ResetUnread
  <2>3. QED
    BY <2>1, <2>2
<1>5. ASSUME NEW d \in Desks, InsertConversation(d)
      PROVE  conv'[v] = conv[v]
  BY <1>1, <1>5 DEF InsertConversation, HasConv
<1>6. ASSUME NEW w \in Convs, NEW status \in {"open", "pending", "resolved"}, UpdateStatus(w, status)
      PROVE  conv'[v].unread = conv[v].unread
  BY <1>1, <1>6 DEF UpdateStatus, ConvRow
<1>7. ASSUME NEW k \in Contacts, DeleteContact(k)
      PROVE  conv'[v].unread = conv[v].unread
  BY <1>1, <1>7 DEF DeleteContact, ConvRow
<1>8. CASE ByHand
  BY <1>6, <1>7, <1>8 DEF ByHand, CreateContact, UpdateContact, MergeContacts, ChangePipeline, rows
<1>9. QED
  BY <1>2, <1>3, <1>4, <1>5, <1>8, ConvWriters

(* What was shown or passed over stays so.                                 *)
LEMMA ShownGrows ==
  ASSUME [Next]_vars
  PROVE  shown \subseteq shown' /\ missed \subseteq missed'
<1>1. ASSUME NEW m \in Inbound, HookStep(m) \/ LoseHook(m) PROVE UNCHANGED seenVars
  BY <1>1 DEF HookStep, FindContact, AddContact, FindConversation, AddConversation, StoreMessage,
     CountMessage, ChoosePipeline, FindCard, AddCard, LoseHook
<1>2. ASSUME NEW m \in Outbound, DispatchStep(m) \/ LoseDispatch(m) PROVE UNCHANGED seenVars
  BY <1>2 DEF DispatchStep, LookUpChannel, CallProvider, RecordResult, LoseDispatch
<1>3. ASSUME NEW d \in Desks, DeskStep(d) PROVE shown \subseteq shown' /\ missed \subseteq missed'
  BY <1>3 DEF DeskStep, ReadMessages, ResetUnread, FindOpenOne, InsertConversation, seenVars
<1>4. CASE Comes
  BY <1>4 DEF Comes, Receive, SendMessage, seenVars
<1>5. CASE ByHand
  BY <1>5 DEF ByHand, UpdateStatus, CreateContact, UpdateContact, MergeContacts, ChangePipeline,
     DeleteContact, seenVars
<1>6. CASE UNCHANGED vars
  BY <1>6 DEF vars, seenVars
<1>7. QED
  BY <1>1, <1>2, <1>3, <1>4, <1>5, <1>6 DEF Next, Stops, seenVars

LEMMA KnowsStep ==
  TypeOK /\ RowsOfRequests /\ HandlersKnow /\ [Next]_vars => HandlersKnow'
<1> SUFFICES ASSUME TypeOK, RowsOfRequests, HandlersKnow, [Next]_vars, faults' = 0, NEW m \in Inbound
             PROVE  HandlerKnows(m)'
  BY DEF HandlersKnow
<1>1. HandlerKnows(m) /\ faults = 0 /\ ~Fault
  BY HistoryGrows, IntakeAssumption DEF HandlersKnow, Fault, TypeOK
<1>2. /\ hook \in [Inbound -> Hook] /\ hook[m] \in Hook /\ contact \in [Contacts -> ContactRow]
      /\ conv \in [Convs -> ConvRow] /\ message \in [Messages -> MessageRow]
      /\ m \in Contacts /\ m \in Convs /\ m \in Messages
  BY DEF TypeOK, Contacts, Convs, Messages
<1> SUFFICES ASSUME NEW k, NEW v, k = hook[m].contact, v = hook[m].conv PROVE HandlerKnows(m)'
  OBVIOUS
<1>3. CASE hook'[m] = hook[m]
  <2>1. CASE hook[m].pc \in Early
    BY <1>3, <2>1 DEF HandlerKnows, Early, BeforeStore, AfterCount
  <2>2. CASE hook[m].pc \notin Early
    <3>1. k \in Contacts /\ contact'[k].status # "absent"
      BY <1>1, <2>2, ContactsLast DEF HandlerKnows
    <3>2. contact'[k].status # "deleted" => contact[k].status # "deleted"
      BY <3>1, ContactsLast
    <3>3. ASSUME contact'[k].status # "deleted", hook[m].pc \notin BeforeStore
          PROVE  HasConv(v) /\ conv[v].contact = k /\ HasConv(v)' /\ conv'[v].contact = k
      <4>1. HasConv(v) /\ conv[v].contact = k
        BY <1>1, <3>2, <3>3 DEF HandlerKnows
      <4>2. QED
        BY <3>3, <4>1, ConvsLast
    <3>4. ASSUME contact'[k].status # "deleted", hook[m].text, hook[m].pc \in AfterCount \cup {"count"}
          PROVE  m \in StoredIn(v) /\ m \in StoredIn(v)'
      <4>1. HasConv(v) /\ conv[v].contact = k
        BY <3>3, <3>4 DEF BeforeStore, Early, AfterCount
      <4>2. m \in StoredIn(v)
        BY <1>1, <3>2, <3>4 DEF HandlerKnows
      <4>3. m \in StoredIn(v)'
        BY <1>3, <3>4, <4>1, <4>2, MessagesLast DEF StoredIn
      <4>4. QED
        BY <4>2, <4>3
    <3>5. ASSUME contact'[k].status # "deleted", hook[m].text, hook[m].pc \in AfterCount
          PROVE  m \in shown' \/ m \in missed' \/ conv'[v].unread > 0
      <4>1. HasConv(v) /\ m \in StoredIn(v)
        BY <3>3, <3>4, <3>5 DEF BeforeStore, Early, AfterCount
      <4>2. m \in shown \/ m \in missed \/ conv[v].unread > 0
        BY <1>1, <3>2, <3>5 DEF HandlerKnows
      <4>3. QED
        BY <3>5, <4>1, <4>2, CountersLast, ShownGrows
    <3>6. QED
      BY <1>3, <3>1, <3>3, <3>4, <3>5 DEF HandlerKnows
  <2>3. QED
    BY <2>1, <2>2
<1>4. CASE HookStep(m)
  <2>1. CASE FindContact(m)
    <3>1. hook[m].pc = "contact" /\ UNCHANGED rows
      BY <2>1 DEF FindContact
    <3>2. ASSUME NEW l \in Known(hook[m].phone),
                 hook' = [hook EXCEPT ![m] = [@ EXCEPT !.pc = "conversation", !.contact = l]]
          PROVE  HandlerKnows(m)'
      <4>1. hook'[m].pc = "conversation" /\ hook'[m].contact = l
        BY <1>2, <3>2 DEF Hook
      <4>2. l \in Contacts /\ contact'[l].status = "present"
        BY <3>1, <3>2 DEF Known, HasContact, rows
      <4>3. QED
        BY <4>1, <4>2 DEF HandlerKnows, BeforeStore, AfterCount
    <3>3. CASE Goto(m, "enter")
      BY <1>2, <3>3 DEF Goto, Hook, HandlerKnows, Early, BeforeStore, AfterCount
    <3>4. QED
      BY <1>1, <2>1, <3>2, <3>3 DEF FindContact
  <2>2. CASE AddContact(m)
    <3>1. /\ hook' = [hook EXCEPT ![m] = [@ EXCEPT !.pc = "conversation", !.contact = m]]
          /\ contact' = [contact EXCEPT ![m] = [status |-> "present", phone |-> hook[m].phone]]
      BY <1>1, <2>2 DEF AddContact
    <3>2. hook'[m].pc = "conversation" /\ hook'[m].contact = m /\ contact'[m].status = "present"
      BY <1>2, <3>1 DEF Hook
    <3>3. QED
      BY <1>2, <3>2 DEF HandlerKnows, BeforeStore, AfterCount
  <2>3. CASE FindConversation(m)
    <3>1. hook[m].pc = "conversation" /\ UNCHANGED rows
      BY <2>3 DEF FindConversation
    <3>2. k \in Contacts /\ contact'[k].status # "absent"
      BY <1>1, <3>1 DEF HandlerKnows, Early, rows
    <3>3. ASSUME NEW w \in Current(k),
                 hook' = [hook EXCEPT ![m] = [@ EXCEPT !.pc = "store", !.conv = w]]
          PROVE  HandlerKnows(m)'
      <4>1. hook'[m].pc = "store" /\ hook'[m].contact = k /\ hook'[m].conv = w
        BY <1>2, <3>3 DEF Hook
      <4>2. HasConv(w)' /\ conv'[w].contact = k
        BY <3>1, <3>3 DEF Current, HasConv, rows
      <4>3. QED
        BY <3>2, <4>1, <4>2 DEF HandlerKnows, AfterCount
    <3>4. CASE Goto(m, "open")
      <4>1. hook'[m].pc = "open" /\ hook'[m].contact = k
        BY <1>2, <3>4 DEF Hook, Goto
      <4>2. QED
        BY <3>2, <4>1 DEF HandlerKnows, BeforeStore, AfterCount
    <3>5. QED
      BY <1>1, <2>3, <3>3, <3>4 DEF FindConversation
  <2>4. CASE AddConversation(m)
    <3>1. hook[m].pc = "open" /\ UNCHANGED contact
      BY <2>4 DEF AddConversation
    <3>2. k \in Contacts /\ contact'[k].status # "absent"
      BY <1>1, <3>1 DEF HandlerKnows, Early
    <3>3. hook'[m].pc = "store" /\ hook'[m].contact = k /\ hook'[m].conv = m
      BY <1>2, <2>4 DEF AddConversation, Hook
    <3>4. ASSUME contact'[k].status # "deleted" PROVE HasConv(m)' /\ conv'[m].contact = k
      <4>1. HasContact(k)
        BY <1>2, <3>1, <3>2, <3>4 DEF HasContact, ContactRow
      <4>2. conv' = [conv EXCEPT ![m] = [status |-> "open", contact |-> k, unread |-> 0]]
        BY <1>1, <2>4, <4>1 DEF AddConversation
      <4>3. QED
        BY <1>2, <4>2 DEF HasConv
    <3>5. QED
      BY <3>2, <3>3, <3>4 DEF HandlerKnows, AfterCount
  <2>5. CASE StoreMessage(m)
    <3>1. hook[m].pc = "store" /\ UNCHANGED <<contact, conv>>
      BY <2>5 DEF StoreMessage
    <3>2. /\ k \in Contacts /\ contact'[k].status # "absent"
          /\ contact'[k].status # "deleted" => HasConv(v) /\ conv[v].contact = k
      BY <1>1, <3>1 DEF HandlerKnows, Early, BeforeStore
    <3>3. /\ hook'[m].contact = k /\ hook'[m].conv = v /\ hook'[m].text = hook[m].text
          /\ hook'[m].pc \in {"count", "card"}
      BY <1>2, <2>5 DEF StoreMessage, Goto, Hook
    <3>4. HasConv(v)' = HasConv(v) /\ conv'[v] = conv[v]
      BY <3>1 DEF HasConv
    <3>5. ASSUME HasConv(v), hook[m].text
          PROVE  hook'[m].pc = "count" /\ m \in StoredIn(v)'
      <4>1. /\ message' = [message EXCEPT ![m] = [status |-> "delivered", conv |-> v]]
            /\ Goto(m, "count")
        BY <1>1, <2>5, <3>5 DEF StoreMessage
      <4>2. QED
        BY <1>2, <4>1 DEF StoredIn, Goto, Hook
    <3>6. QED
      BY <3>2, <3>3, <3>4, <3>5 DEF HandlerKnows, AfterCount
  <2>6. CASE CountMessage(m)
    <3>1. hook[m].pc = "count" /\ UNCHANGED <<contact, message>>
      BY <2>6 DEF CountMessage
    <3>2. /\ k \in Contacts /\ contact'[k].status # "absent"
          /\ contact'[k].status # "deleted" =>
               HasConv(v) /\ conv[v].contact = k /\ (hook[m].text => m \in StoredIn(v))
      BY <1>1, <3>1 DEF HandlerKnows, Early, BeforeStore
    <3>3. /\ hook'[m].contact = k /\ hook'[m].conv = v /\ hook'[m].text = hook[m].text
      BY <1>2, <2>6 DEF CountMessage, Goto, Hook
    <3>4. m \in StoredIn(v) => m \in StoredIn(v)'
      BY <3>1 DEF StoredIn
    <3>5. HasConv(v) => HasConv(v)' /\ conv'[v].contact = conv[v].contact /\ conv'[v].unread > 0
      BY <1>1, <1>2, <2>6 DEF CountMessage, HasConv, ConvRow
    <3>6. QED
      BY <3>2, <3>3, <3>4, <3>5 DEF HandlerKnows
  <2>7. CASE ChoosePipeline(m) \/ FindCard(m) \/ AddCard(m)
    <3>1. hook[m].pc \in {"card", "look", "deal"} /\ UNCHANGED <<contact, conv, message, shown, missed>>
      BY <2>7 DEF ChoosePipeline, FindCard, AddCard, rows, seenVars
    <3>2. /\ hook'[m].contact = k /\ hook'[m].conv = v /\ hook'[m].text = hook[m].text
          /\ hook'[m].pc \in {"look", "deal", "ended"}
      <4>1. CASE ChoosePipeline(m)
        <5>1. hook[m] \in Hook
          BY <1>2
        <5>2. CASE hook' = [hook EXCEPT ![m] = [@ EXCEPT !.pc = "look", !.pipeline = main]]
          BY <1>2, <5>1, <5>2 DEF Hook
        <5>3. CASE Goto(m, "ended")
          BY <1>2, <5>1, <5>3 DEF Goto, Hook
        <5>4. QED
          BY <4>1, <5>2, <5>3 DEF ChoosePipeline
      <4>2. CASE FindCard(m) \/ AddCard(m)
        BY <1>2, <4>2 DEF FindCard, AddCard, Goto, Hook
      <4>3. QED
        BY <2>7, <4>1, <4>2
    <3>3. (m \in StoredIn(v) => m \in StoredIn(v)') /\ (HasConv(v) => HasConv(v)')
      BY <3>1 DEF StoredIn, HasConv
    <3>4. QED
      BY <1>1, <3>1, <3>2, <3>3 DEF HandlerKnows, Early, BeforeStore, AfterCount
  <2>8. QED
    BY <1>4, <2>1, <2>2, <2>3, <2>4, <2>5, <2>6, <2>7 DEF HookStep
<1>5. ASSUME NEW p \in Phones, NEW text \in BOOLEAN, Receive(m, p, text)
      PROVE  HandlerKnows(m)'
  <2>1. hook'[m].pc = "contact" /\ hook'[m].contact = None
    BY <1>2, <1>5 DEF Receive, IdleHook
  <2>2. QED
    BY <2>1 DEF HandlerKnows, Early, BeforeStore, AfterCount
<1>6. ASSUME NEW n \in Inbound \ {m}, HookStep(n) PROVE hook'[m] = hook[m]
  BY <1>2, <1>6 DEF HookStep, FindContact, AddContact, FindConversation, AddConversation, StoreMessage,
     CountMessage, ChoosePipeline, FindCard, AddCard, Goto
<1>7. ASSUME NEW n \in Inbound \ {m}, NEW p \in Phones, NEW text \in BOOLEAN, Receive(n, p, text)
      PROVE  hook'[m] = hook[m]
  BY <1>2, <1>7 DEF Receive
<1>8. ASSUME NEW n \in Inbound PROVE ~LoseHook(n)
  BY <1>1 DEF LoseHook
<1>9. QED
  BY <1>3, <1>4, <1>5, <1>6, <1>7, <1>8, HookWriters

-----------------------------------------------------------------------------
(* A reply is dispatched at most once *)

DispatchKnows(m) ==
  /\ send[m].pc = "idle" => message[m].status = "absent"
  /\ send[m].pc \in {"idle", "stored", "call", "unsent"} => accepted[m] = 0
  /\ send[m].pc # "ended" => ~send[m].note
  /\ send[m].pc \in {"stored", "call", "unsent", "record"} =>
       message[m].status \in {"pending", "deleted"}
  /\ send[m].pc = "ended" => message[m].status # "absent"

DispatchesKnow ==
  /\ \A m \in Outbound : DispatchKnows(m)
  /\ \A m \in Messages : message[m].status = "absent" => message[m].conv = None

LEMMA DispatchesStart == Init => DispatchesKnow
BY DEF Init, DispatchesKnow, DispatchKnows, Messages

(* Who touches a reply.                                                    *)
LEMMA ReplyWriters ==
  ASSUME [Next]_vars
  PROVE  \/ \E m \in Outbound : \/ LookUpChannel(m) \/ CallProvider(m) \/ RecordResult(m) \/ LoseDispatch(m)
                               \/ \E v \in Convs, note \in BOOLEAN : SendMessage(m, v, note)
         \/ \E m \in Inbound : StoreMessage(m)
         \/ \E k \in Contacts : DeleteContact(k)
         \/ UNCHANGED <<message, send, accepted>>
<1>1. ASSUME NEW m \in Inbound, HookStep(m) \/ LoseHook(m)
      PROVE  StoreMessage(m) \/ UNCHANGED <<message, send, accepted>>
  BY <1>1 DEF HookStep, FindContact, AddContact, FindConversation, AddConversation, CountMessage,
     ChoosePipeline, FindCard, AddCard, LoseHook, rows
<1>2. ASSUME NEW d \in Desks, DeskStep(d) PROVE UNCHANGED <<message, send, accepted>>
  BY <1>2 DEF DeskStep, ReadMessages, ResetUnread, FindOpenOne, InsertConversation, rows
<1>3. ASSUME NEW m \in Inbound, NEW p \in Phones, NEW text \in BOOLEAN, Receive(m, p, text)
      PROVE  UNCHANGED <<message, send, accepted>>
  BY <1>3 DEF Receive, rows
<1>4. ASSUME ByHand
      PROVE  (\E k \in Contacts : DeleteContact(k)) \/ UNCHANGED <<message, send, accepted>>
  BY <1>4 DEF ByHand, UpdateStatus, CreateContact, UpdateContact, MergeContacts, ChangePipeline, rows
<1>5. CASE UNCHANGED vars
  BY <1>5 DEF vars, rows
<1>6. QED
  BY <1>1, <1>2, <1>3, <1>4, <1>5 DEF Next, Comes, Stops, DispatchStep

(* A message that is stored as incoming is none of the replies.            *)
LEMMA RepliesAreOther ==
  ASSUME TypeOK, NEW n \in Inbound, StoreMessage(n)
  PROVE  /\ \A m \in Outbound : message'[m] = message[m]
         /\ \A m \in Messages : message'[m].status = "absent" => message'[m] = message[m]
         /\ UNCHANGED <<send, accepted>>
BY IntakeAssumption DEF TypeOK, StoreMessage, Messages

LEMMA DispatchesStep == TypeOK /\ DispatchesKnow /\ [Next]_vars => DispatchesKnow'
<1> SUFFICES ASSUME TypeOK, DispatchesKnow, [Next]_vars PROVE DispatchesKnow'
  OBVIOUS
<1>1. /\ message \in [Messages -> MessageRow] /\ send \in [Outbound -> Dispatch]
      /\ accepted \in [Outbound -> Nat] /\ Outbound \subseteq Messages
      /\ \A m \in Outbound : send[m] \in Dispatch /\ send[m].result \in {"sent", "failed"}
  BY DEF TypeOK, Messages, Dispatch
<1>2. /\ \A m \in Outbound : DispatchKnows(m)
      /\ \A m \in Messages : message[m].status = "absent" => message[m].conv = None
  BY DEF DispatchesKnow
<1>3. ASSUME NEW n \in Outbound, LookUpChannel(n) \/ CallProvider(n) \/ RecordResult(n) \/ LoseDispatch(n)
      PROVE  DispatchesKnow'
  <2>1. \A m \in Outbound \ {n} : message'[m] = message[m] /\ send'[m] = send[m] /\ accepted'[m] = accepted[m]
    BY <1>1, <1>3 DEF LookUpChannel, CallProvider, RecordResult, LoseDispatch, rows
  <2>2. DispatchKnows(n)'
    <3>1. CASE LookUpChannel(n)
      <4>0. /\ \/ send' = [send EXCEPT ![n].pc = "record"]
               \/ send' = [send EXCEPT ![n].pc = "call"]
               \/ send' = [send EXCEPT ![n] = [@ EXCEPT !.pc = "record", !.result = "sent"]]
            /\ send[n].pc = "stored" /\ UNCHANGED <<message, accepted>>
        BY <3>1 DEF LookUpChannel, rows
      <4>1. ASSUME NEW pc, send' = [send EXCEPT ![n].pc = pc]
            PROVE  send'[n].pc = pc /\ send'[n].note = send[n].note
        BY <1>1, <4>1 DEF Dispatch
      <4>2. ASSUME send' = [send EXCEPT ![n] = [@ EXCEPT !.pc = "record", !.result = "sent"]]
            PROVE  send'[n].pc = "record" /\ send'[n].note = send[n].note
        BY <1>1, <4>2 DEF Dispatch
      <4>3. send'[n].pc \in {"record", "call"} /\ send'[n].note = send[n].note
        BY <4>0, <4>1, <4>2
      <4>4. QED
        BY <1>2, <4>0, <4>3 DEF DispatchKnows
    <3>2. CASE CallProvider(n)
      <4>0. send[n].pc = "call" /\ UNCHANGED message
        BY <3>2 DEF CallProvider, rows
      <4>1. ASSUME NEW result, send' = [send EXCEPT ![n] = [@ EXCEPT !.pc = "record", !.result = result]]
            PROVE  send'[n].pc = "record" /\ send'[n].note = send[n].note
        BY <1>1, <4>1 DEF Dispatch
      <4>2. ASSUME send' = [send EXCEPT ![n].pc = "record"]
            PROVE  send'[n].pc = "record" /\ send'[n].note = send[n].note
        BY <1>1, <4>2 DEF Dispatch
      <4>3. QED
        BY <1>2, <3>2, <4>0, <4>1, <4>2 DEF CallProvider, DispatchKnows
    <3>3. CASE RecordResult(n)
      <4>1. send'[n].pc = "ended" /\ send[n].pc = "record" /\ message'[n].status # "absent"
        BY <1>1, <1>2, <3>3 DEF RecordResult, Dispatch, DispatchKnows, MessageRow
      <4>2. QED
        BY <1>2, <4>1 DEF DispatchKnows
    <3>4. CASE LoseDispatch(n)
      <4>1. /\ send'[n].pc = IF send[n].pc = "stored" THEN "unsent" ELSE "ended"
            /\ send'[n].note = send[n].note
            /\ send[n].pc \in {"stored", "call", "record"} /\ UNCHANGED <<message, accepted>>
        BY <1>1, <3>4 DEF LoseDispatch, Dispatch, rows
      <4>2. QED
        BY <1>2, <4>1 DEF DispatchKnows
    <3>5. QED
      BY <1>3, <3>1, <3>2, <3>3, <3>4
  <2>3. \A m \in Outbound \ {n} : DispatchKnows(m)'
    BY <1>2, <2>1 DEF DispatchKnows
  <2>4. \A m \in Messages : message'[m].conv = message[m].conv
                          /\ (message'[m].status = "absent" => message[m].status = "absent")
    BY <1>1, <1>3 DEF LookUpChannel, CallProvider, RecordResult, LoseDispatch, rows, MessageRow
  <2>5. QED
    BY <1>2, <2>2, <2>3, <2>4 DEF DispatchesKnow
<1>4. ASSUME NEW n \in Outbound, NEW v \in Convs, NEW note \in BOOLEAN, SendMessage(n, v, note)
      PROVE  DispatchesKnow'
  <2>1. /\ send[n].pc = "idle" /\ UNCHANGED accepted
        /\ send'[n].pc = (IF note THEN "ended" ELSE "stored") /\ send'[n].note = note
        /\ message'[n].status = IF note THEN "sent" ELSE "pending"
    BY <1>1, <1>4 DEF SendMessage, Dispatch
  <2>2. /\ \A m \in Outbound \ {n} : send'[m] = send[m]
        /\ \A m \in Messages \ {n} : message'[m] = message[m]
    BY <1>1, <1>4 DEF SendMessage
  <2>3. DispatchKnows(n)'
    BY <1>2, <2>1 DEF DispatchKnows
  <2>4. \A m \in Outbound \ {n} : DispatchKnows(m)'
    BY <1>1, <1>2, <2>1, <2>2 DEF DispatchKnows
  <2>5. \A m \in Messages : message'[m].status = "absent" => message'[m].conv = None
    BY <1>2, <2>1, <2>2
  <2>6. QED
    BY <2>3, <2>4, <2>5 DEF DispatchesKnow
<1>5. ASSUME NEW n \in Inbound, StoreMessage(n) PROVE DispatchesKnow'
  BY <1>2, <1>5, RepliesAreOther DEF DispatchesKnow, DispatchKnows
<1>6. ASSUME NEW k \in Contacts, DeleteContact(k) PROVE DispatchesKnow'
  <2>1. /\ \A m \in Messages : \/ message'[m] = message[m]
                               \/ message'[m].status = "deleted" /\ message[m].conv # None
        /\ UNCHANGED <<send, accepted>>
    <3>1. PICK gone : /\ gone \subseteq Convs /\ UNCHANGED <<send, accepted>>
                      /\ message' = [m \in Messages |-> IF message[m].conv \in gone
                                       THEN [message[m] EXCEPT !.status = "deleted"] ELSE message[m]]
      BY <1>6 DEF DeleteContact
    <3>2. ASSUME NEW m \in Messages
          PROVE  \/ message'[m] = message[m]
                 \/ message'[m].status = "deleted" /\ message[m].conv # None
      <4>1. /\ message[m] \in MessageRow
            /\ message'[m] = IF message[m].conv \in gone
                             THEN [message[m] EXCEPT !.status = "deleted"] ELSE message[m]
        BY <1>1, <3>1
      <4>2. CASE message[m].conv \in gone
        <5>1. message'[m] = [message[m] EXCEPT !.status = "deleted"]
          BY <4>1, <4>2
        <5>2. QED
          BY <3>1, <4>1, <4>2, <5>1, IntakeAssumption DEF MessageRow
      <4>3. CASE message[m].conv \notin gone
        <5>1. message'[m] = message[m]
          BY <4>1, <4>3
        <5>2. QED
          BY <5>1
      <4>4. QED
        BY <4>2, <4>3
    <3>3. QED
      BY <3>1, <3>2
  <2>2. ASSUME NEW m \in Outbound PROVE DispatchKnows(m)'
    BY <1>1, <1>2, <2>1 DEF DispatchKnows
  <2>3. QED
    BY <1>2, <2>1, <2>2 DEF DispatchesKnow
<1>7. CASE UNCHANGED <<message, send, accepted>>
  BY <1>2, <1>7 DEF DispatchesKnow, DispatchKnows
<1>8. QED
  BY <1>3, <1>4, <1>5, <1>6, <1>7, ReplyWriters

-----------------------------------------------------------------------------
(* The inductive invariant *)

IndInv ==
  /\ TypeOK
  /\ RowsOfRequests
  /\ ContactsApart
  /\ ConversationsApart
  /\ CardsApart
  /\ HandlersKnow
  /\ DispatchesKnow

LEMMA IndInvariant == Spec => []IndInv
<1>1. Init => IndInv
  BY TypesStart, RowsStart, ContactsStart, ConversationsStart, CardsStart, KnowsStart, DispatchesStart
     DEF IndInv
<1>2. IndInv /\ [Next]_vars => IndInv'
  BY TypesStep, RowsStep, ContactsStep, ConversationsStep, CardsStep, KnowsStep, DispatchesStep
     DEF IndInv
<1>3. QED
  BY <1>1, <1>2, PTL DEF Spec

(* Two contacts of a phone, two open conversations or two cards of a       *)
(* contact always have one of the causes the module names: a race between  *)
(* a look and an insert, a phone entered by hand, another pipeline for new *)
(* cards, a failed look.                                                   *)
THEOREM DuplicatesAlwaysHaveACause == Spec => []DuplicatesHaveACause
<1>1. IndInv => DuplicatesHaveACause
  BY CardsFollow DEF IndInv, ContactsApart, ConversationsApart, DuplicatesHaveACause
<1>2. QED
  BY <1>1, IndInvariant, PTL

(* Without a fault, no customer's message is dropped, misplaced or left    *)
(* uncounted, except in the window between the two statements of a read.   *)
THEOREM EveryMessageIsNoticed == Spec => []InboundIsNoticed
<1>1. IndInv => InboundIsNoticed
  BY NoticedFollows DEF IndInv
<1>2. QED
  BY <1>1, IndInvariant, PTL

-----------------------------------------------------------------------------
(* The refinement: which abstract step each statement takes.               *)
LEMMA DeliveryInit == Init => Delivery!Init
BY DEF Init, Delivery!Init, PhaseOf, Messages

LEMMA DeliveryStep == IndInv /\ [Next]_vars => [Delivery!Next]_(Delivery!vars)
<1> SUFFICES ASSUME IndInv, [Next]_vars PROVE Delivery!Next \/ UNCHANGED Delivery!vars
  OBVIOUS
<1> DEFINE phase == [m \in Outbound |-> PhaseOf(m)]
<1>1. /\ message \in [Messages -> MessageRow] /\ send \in [Outbound -> Dispatch]
      /\ accepted \in [Outbound -> Nat] /\ Outbound \subseteq Messages
      /\ \A m \in Outbound : send[m] \in Dispatch /\ send[m].result \in {"sent", "failed"}
      /\ \A m \in Outbound : DispatchKnows(m)
      /\ \A m \in Messages : message[m].status = "absent" => message[m].conv = None
  BY DEF IndInv, TypeOK, Messages, Dispatch, DispatchesKnow
(* A step that leaves a reply's row and dispatch alone keeps its phase.    *)
<1>2. \A m \in Outbound : message'[m] = message[m] /\ send'[m] = send[m] => PhaseOf(m)' = PhaseOf(m)
  BY DEF PhaseOf
<1>3. ASSUME NEW n \in Outbound,
             \A m \in Outbound \ {n} : message'[m] = message[m] /\ send'[m] = send[m]
      PROVE  phase' = [phase EXCEPT ![n] = PhaseOf(n)']
  BY <1>2, <1>3
<1>4. (\A m \in Outbound : PhaseOf(m)' = PhaseOf(m)) /\ UNCHANGED accepted => UNCHANGED Delivery!vars
  BY DEF Delivery!vars
<1>5. ASSUME NEW n \in Outbound, LookUpChannel(n) PROVE Delivery!Claim(n) \/ UNCHANGED Delivery!vars
  <2>1. /\ send[n].pc = "stored" /\ UNCHANGED <<message, accepted>>
        /\ \/ send' = [send EXCEPT ![n].pc = "record"]
           \/ send' = [send EXCEPT ![n].pc = "call"]
           \/ send' = [send EXCEPT ![n] = [@ EXCEPT !.pc = "record", !.result = "sent"]]
    BY <1>5 DEF LookUpChannel, rows
  <2>2. send'[n].pc \in {"record", "call"} /\ send'[n].note = send[n].note
    <3>1. ASSUME NEW pc, send' = [send EXCEPT ![n].pc = pc]
          PROVE  send'[n].pc = pc /\ send'[n].note = send[n].note
      BY <1>1, <3>1 DEF Dispatch
    <3>2. ASSUME send' = [send EXCEPT ![n] = [@ EXCEPT !.pc = "record", !.result = "sent"]]
          PROVE  send'[n].pc = "record" /\ send'[n].note = send[n].note
      BY <1>1, <3>2 DEF Dispatch
    <3>3. QED
      BY <2>1, <3>1, <3>2
  <2>3. \A m \in Outbound \ {n} : send'[m] = send[m]
    BY <1>1, <2>1
  <2>4. phase' = [phase EXCEPT ![n] = PhaseOf(n)']
    BY <1>3, <2>1, <2>3
  <2>5. accepted[n] = 0 /\ ~send[n].note /\ message[n].status \in {"pending", "deleted"}
    BY <1>1, <2>1 DEF DispatchKnows
  <2>6. CASE message[n].status = "pending"
    <3>1. PhaseOf(n) = "queued" /\ PhaseOf(n)' = "claimed"
      BY <2>1, <2>2, <2>5, <2>6 DEF PhaseOf
    <3>2. QED
      BY <2>1, <2>4, <2>5, <3>1 DEF Delivery!Claim
  <2>7. CASE message[n].status = "deleted"
    <3>1. PhaseOf(n)' = PhaseOf(n)
      BY <2>1, <2>2, <2>5, <2>7 DEF PhaseOf
    <3>2. QED
      BY <1>2, <1>4, <2>1, <2>3, <3>1
  <2>8. QED
    BY <2>5, <2>6, <2>7
<1>6. ASSUME NEW n \in Outbound, CallProvider(n) PROVE Delivery!Deliver(n) \/ UNCHANGED Delivery!vars
  <2>1. /\ send[n].pc = "call" /\ UNCHANGED message
        /\ accepted' = [accepted EXCEPT ![n] = @ + 1] \/ UNCHANGED accepted
    BY <1>6 DEF CallProvider, rows
  <2>2. send'[n].pc = "record" /\ send'[n].note = send[n].note
    <3>1. ASSUME NEW result, send' = [send EXCEPT ![n] = [@ EXCEPT !.pc = "record", !.result = result]]
          PROVE  send'[n].pc = "record" /\ send'[n].note = send[n].note
      BY <1>1, <3>1 DEF Dispatch
    <3>2. ASSUME send' = [send EXCEPT ![n].pc = "record"]
          PROVE  send'[n].pc = "record" /\ send'[n].note = send[n].note
      BY <1>1, <3>2 DEF Dispatch
    <3>3. QED
      BY <1>6, <3>1, <3>2 DEF CallProvider
  <2>3. \A m \in Outbound \ {n} : send'[m] = send[m]
    BY <1>1, <1>6 DEF CallProvider
  <2>4. accepted[n] = 0 /\ ~send[n].note /\ message[n].status \in {"pending", "deleted"}
    BY <1>1, <2>1 DEF DispatchKnows
  <2>5. PhaseOf(n)' = PhaseOf(n) /\ PhaseOf(n) \in {"claimed", "removed"}
    BY <2>1, <2>2, <2>4 DEF PhaseOf
  <2>6. \A m \in Outbound : PhaseOf(m)' = PhaseOf(m)
    BY <1>2, <2>1, <2>3, <2>5
  <2>7. CASE UNCHANGED accepted
    BY <1>4, <2>6, <2>7
  <2>8. CASE accepted' = [accepted EXCEPT ![n] = @ + 1]
    <3>1. accepted' = [accepted EXCEPT ![n] = 1]
      BY <1>1, <2>4, <2>8
    <3>2. QED
      BY <2>4, <2>5, <2>6, <3>1 DEF Delivery!Deliver
  <2>9. QED
    BY <2>1, <2>7, <2>8
<1>7. ASSUME NEW n \in Outbound, RecordResult(n) PROVE Delivery!Settle(n) \/ UNCHANGED Delivery!vars
  <2>1. send[n].pc = "record" /\ UNCHANGED accepted /\ send' = [send EXCEPT ![n].pc = "ended"]
    BY <1>7 DEF RecordResult
  <2>2. send'[n].pc = "ended" /\ send'[n].note = send[n].note
    BY <1>1, <2>1 DEF Dispatch
  <2>3. \A m \in Outbound \ {n} : send'[m] = send[m] /\ message'[m] = message[m]
    BY <1>1, <1>7 DEF RecordResult
  <2>4. ~send[n].note /\ message[n].status \in {"pending", "deleted"}
    BY <1>1, <2>1 DEF DispatchKnows
  <2>5. \/ message'[n] = message[n]
        \/ message[n].status = "pending" /\ message'[n].status \in {"sent", "failed"}
    BY <1>1, <1>7 DEF RecordResult, MessageRow
  <2>6. CASE message'[n] = message[n]
    <3>1. PhaseOf(n)' = PhaseOf(n)
      BY <2>1, <2>2, <2>4, <2>6 DEF PhaseOf
    <3>2. QED
      BY <1>2, <1>4, <2>1, <2>3, <3>1
  <2>7. CASE message[n].status = "pending" /\ message'[n].status \in {"sent", "failed"}
    <3>1. PhaseOf(n) = "claimed" /\ PhaseOf(n)' = "settled"
      BY <2>1, <2>2, <2>4, <2>7 DEF PhaseOf
    <3>2. phase' = [phase EXCEPT ![n] = PhaseOf(n)']
      BY <1>3, <2>3
    <3>3. QED
      BY <2>1, <3>1, <3>2 DEF Delivery!Settle
  <2>8. QED
    BY <2>5, <2>6, <2>7
<1>8. ASSUME NEW n \in Outbound, LoseDispatch(n) PROVE UNCHANGED Delivery!vars
  <2>1. /\ send[n].pc \in {"stored", "call", "record"} /\ UNCHANGED <<message, accepted>>
        /\ send'[n].pc = IF send[n].pc = "stored" THEN "unsent" ELSE "ended"
        /\ send'[n].note = send[n].note
    BY <1>1, <1>8 DEF LoseDispatch, Dispatch, rows
  <2>2. \A m \in Outbound \ {n} : send'[m] = send[m]
    BY <1>1, <1>8 DEF LoseDispatch
  <2>3. PhaseOf(n)' = PhaseOf(n)
    BY <2>1 DEF PhaseOf
  <2>4. QED
    BY <1>2, <1>4, <2>1, <2>2, <2>3
<1>9. ASSUME NEW n \in Outbound, NEW v \in Convs, NEW note \in BOOLEAN, SendMessage(n, v, note)
      PROVE  Delivery!Enqueue({n}) \/ UNCHANGED Delivery!vars
  <2>1. /\ send[n].pc = "idle" /\ UNCHANGED accepted /\ send'[n].note = note
        /\ send'[n].pc = (IF note THEN "ended" ELSE "stored")
        /\ message'[n].status = IF note THEN "sent" ELSE "pending"
    BY <1>1, <1>9 DEF SendMessage, Dispatch
  <2>2. \A m \in Outbound \ {n} : send'[m] = send[m] /\ message'[m] = message[m]
    BY <1>1, <1>9 DEF SendMessage
  <2>3. PhaseOf(n) = "unknown"
    BY <1>1, <2>1 DEF DispatchKnows, PhaseOf
  <2>4. CASE note
    <3>1. PhaseOf(n)' = "unknown"
      BY <2>1, <2>4 DEF PhaseOf
    <3>2. QED
      BY <1>2, <1>4, <2>1, <2>2, <2>3, <3>1
  <2>5. CASE ~note
    <3>1. PhaseOf(n)' = "queued"
      BY <2>1, <2>5 DEF PhaseOf
    <3>2. \A m \in Outbound \ {n} : PhaseOf(m)' = PhaseOf(m)
      BY <1>2, <2>2
    <3>3. QED
      BY <2>1, <2>3, <3>1, <3>2 DEF Delivery!Enqueue
  <2>6. QED
    BY <2>4, <2>5
<1>10. ASSUME NEW n \in Inbound, StoreMessage(n) PROVE UNCHANGED Delivery!vars
  BY <1>2, <1>4, <1>10, RepliesAreOther DEF IndInv
<1>11. ASSUME NEW k \in Contacts, DeleteContact(k)
       PROVE  \E R \in SUBSET Outbound : Delivery!Remove(R)
  <2>1. PICK gone : /\ gone \subseteq Convs /\ UNCHANGED <<send, accepted>>
                    /\ message' = [m \in Messages |-> IF message[m].conv \in gone
                                     THEN [message[m] EXCEPT !.status = "deleted"] ELSE message[m]]
    BY <1>11 DEF DeleteContact
  <2> DEFINE R == {m \in Outbound : /\ message[m].conv \in gone
                                    /\ message[m].status # "deleted" /\ ~send[m].note}
  <2>2. ASSUME NEW m \in Outbound
        PROVE  /\ m \in R => PhaseOf(m) \in {"queued", "claimed", "settled"} /\ PhaseOf(m)' = "removed"
               /\ m \notin R => PhaseOf(m)' = PhaseOf(m)
    <3>1. /\ message[m] \in MessageRow
          /\ message'[m] = IF message[m].conv \in gone
                           THEN [message[m] EXCEPT !.status = "deleted"] ELSE message[m]
      BY <1>1, <2>1
    <3>2. CASE message[m].conv \in gone
      <4>1. message'[m].status = "deleted"
        BY <3>1, <3>2 DEF MessageRow
      <4>2. message[m].status # "absent"
        BY <1>1, <2>1, <3>2, IntakeAssumption
      <4>3. send'[m] = send[m]
        BY <2>1
      <4>4. CASE send[m].note
        <5>1. PhaseOf(m)' = "unknown" /\ PhaseOf(m) = "unknown"
          BY <4>3, <4>4 DEF PhaseOf
        <5>2. QED
          BY <4>4, <5>1
      <4>5. CASE ~send[m].note
        <5>1. PhaseOf(m)' = "removed"
          BY <4>1, <4>3, <4>5 DEF PhaseOf
        <5>2. PhaseOf(m) \in {"queued", "claimed", "settled", "removed"}
          BY <4>2, <4>5 DEF PhaseOf
        <5>3. message[m].status = "deleted" <=> PhaseOf(m) = "removed"
          BY <4>2, <4>5 DEF PhaseOf
        <5>4. QED
          BY <3>2, <4>5, <5>1, <5>2, <5>3
      <4>6. QED
        BY <4>4, <4>5
    <3>3. CASE message[m].conv \notin gone
      BY <1>2, <2>1, <3>1, <3>3
    <3>4. QED
      BY <3>2, <3>3
  <2>3. R \in SUBSET Outbound
    OBVIOUS
  <2>4. Delivery!Remove(R)
    <3> HIDE DEF R
    <3>1. phase' = [m \in Outbound |-> IF m \in R THEN "removed" ELSE phase[m]]
      BY <2>2
    <3>2. QED
      BY <2>1, <2>2, <2>3, <3>1 DEF Delivery!Remove
  <2>5. QED
    BY <2>3, <2>4
<1>12. CASE UNCHANGED <<message, send, accepted>>
  BY <1>2, <1>4, <1>12
<1>13. QED
  <2>1. \A n \in Outbound : {n} \in SUBSET Outbound
    OBVIOUS
  <2>2. QED
    BY <1>5, <1>6, <1>7, <1>8, <1>9, <1>10, <1>11, <1>12, <2>1, ReplyWriters DEF Delivery!Next

(* For any number of replies, faults and deletes: a reply leaves once at   *)
(* most, and one that was settled or removed never waits again.            *)
THEOREM RepliesImplementDelivery == Spec => ImplementsDelivery
<1>1. Init => Delivery!Init
  BY DeliveryInit
<1>2. QED
  BY <1>1, DeliveryStep, IndInvariant, PTL DEF Spec, ImplementsDelivery, Delivery!Spec
=============================================================================
