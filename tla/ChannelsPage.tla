---------------------------- MODULE ChannelsPage ----------------------------
(***************************************************************************)
(* The page of channels (web/src/pages/Channels.jsx): the list, and a      *)
(* dialog that starts a WhatsApp session and shows its QR code, asking the *)
(* server for it every 4 seconds until a phone has read it.  One interval  *)
(* is remembered; its answers and those of an earlier one write the same   *)
(* state.  Closing the scanner does not end the interval; leaving the page *)
(* ends the one that is remembered then, though a call still on its way    *)
(* may start another.                                                      *)
(*                                                                         *)
(* Names, copied links and the states told in the list are left out: the   *)
(* list and its states, read right after it, are one call.  The official   *)
(* channels are those MetaSignup connects.                                 *)
(***************************************************************************)
EXTENDS PanelCalls

CONSTANT Sessions   \* names of WhatsApp sessions

ASSUME ChannelsPageAssumption == None \notin Sessions

VARIABLES connect,        \* React state of the page, qrPollIntervalRef
          channelCalls,   \* its calls in flight
          channelDb       \* the server: sessions, other channels, calls lost so far

channelVars == <<connect, channelCalls, channelDb>>

ChannelTypes == {"whatsapp_meta", "whatsapp_qr", "webchat"}
SessionStates == {"STOPPED", "SCAN_QR_CODE", "WORKING"}
Others == {"whatsapp_meta", "webchat"}

(* "scan" is the session the scanner was started for last, "poller" the    *)
(* one of the interval; "crossed" remembers that it was started while the  *)
(* QR code of another session was being asked for.                         *)
ChannelsOpened ==
  [mounted |-> TRUE, shown |-> {}, modal |-> FALSE, type |-> "whatsapp_meta", scanning |-> FALSE,
   scan |-> None, qr |-> None, poller |-> None, crossed |-> FALSE, acts |-> 0]

ChannelsInit ==
  /\ connect = ChannelsOpened
  /\ channelCalls = Send({}, "list", [of |-> None])
  /\ channelDb \in [sessions : {{}, Sessions}, states : {[s \in Sessions |-> "STOPPED"]}, others : {{}}, lost : {0}]

ActsOnChannels == connect.mounted /\ Room(connect.acts, channelDb.lost) /\ CanCall(channelCalls)
ChannelAct(page) == [page EXCEPT !.acts = @ + 1]

-----------------------------------------------------------------------------
(* The list.  One that could not be read is shown as an empty one.         *)
FetchChannels(calls) == Send(calls, "list", [of |-> None])

ListArrives(call) ==
  /\ connect.mounted /\ call \in Done(channelCalls, "list")
  /\ connect' = [connect EXCEPT !.shown = IF call.answer = Failed THEN {} ELSE call.answer.result.channels]
  /\ channelCalls' = channelCalls \ {call}
  /\ UNCHANGED channelDb

-----------------------------------------------------------------------------
(* The scanner *)

(* Mutant of StartScanner: the code of the last session is not cleared.    *)
StartScanner_KeepsCode(page, s, calls) ==
  /\ connect' = [page EXCEPT !.scanning = page.mounted, !.scan = s, !.poller = s,
                             !.crossed = \E c \in calls : c.op = "poll" /\ c.about.of # s]
  /\ channelCalls' = Send(calls, "poll", [of |-> s])

(* startWahaQrScanner: it asks at once, and from now on in an interval     *)
(* that takes the place of the last one.  It does so even when the page is *)
(* no longer there.                                                        *)
StartScanner(page, s, calls) ==
  /\ connect' = [page EXCEPT !.scanning = page.mounted, !.scan = s, !.qr = None, !.poller = s,
                             !.crossed = \E c \in calls : c.op = "poll" /\ c.about.of # s]
  /\ channelCalls' = Send(calls, "poll", [of |-> s])

PollTick ==
  /\ connect.poller # None /\ CanCall(channelCalls)
  /\ channelCalls' = Send(channelCalls, "poll", [of |-> connect.poller])
  /\ UNCHANGED <<connect, channelDb>>

(* A session that works ends the interval, whichever it asks for.          *)
PollArrives(call) ==
  /\ call \in Done(channelCalls, "poll")
  /\ LET state == IF call.answer = Failed THEN "UNKNOWN" ELSE call.answer.result.state
         working == state = "WORKING"
     IN /\ connect' = [connect EXCEPT !.qr = IF state = "SCAN_QR_CODE" /\ connect.mounted THEN call.about.of ELSE @,
                                      !.poller = IF working THEN None ELSE @,
                                      !.scanning = @ /\ ~working]
        /\ channelCalls' = IF working /\ connect.mounted THEN FetchChannels(channelCalls \ {call})
                           ELSE channelCalls \ {call}
  /\ UNCHANGED channelDb

-----------------------------------------------------------------------------
(* The dialog, which does not wait for an answer: it can be submitted      *)
(* twice, closed, or turned to another type meanwhile.                     *)

OpenConnect ==
  /\ connect.mounted /\ ~connect.modal /\ Room(connect.acts, channelDb.lost)
  /\ connect' = ChannelAct([connect EXCEPT !.modal = TRUE, !.scanning = FALSE])
  /\ UNCHANGED <<channelCalls, channelDb>>

ChooseType(type) ==
  /\ connect.modal /\ type # connect.type
  /\ connect' = [connect EXCEPT !.type = type, !.scanning = FALSE]
  /\ UNCHANGED <<channelCalls, channelDb>>

CloseConnect ==
  /\ connect.modal
  /\ connect' = [connect EXCEPT !.modal = FALSE, !.scanning = FALSE]
  /\ UNCHANGED <<channelCalls, channelDb>>

(* The form of the type chosen, until the scanner takes its place.         *)
ConnectForm(type) == connect.modal /\ ~connect.scanning /\ connect.type = type

HandleCreateChannel(s) ==
  /\ ActsOnChannels
  /\ \/ ConnectForm("whatsapp_qr") /\ channelCalls' = Send(channelCalls, "start", [of |-> s])
     \/ ConnectForm("webchat") /\ channelCalls' = Send(channelCalls, "webchat", [of |-> None])
  /\ connect' = ChannelAct(connect)
  /\ UNCHANGED channelDb

(* MetaEmbeddedSignupButton has connected an official channel.             *)
SignupSucceeds ==
  /\ ActsOnChannels /\ ConnectForm("whatsapp_meta")
  /\ connect' = ChannelAct([connect EXCEPT !.modal = FALSE, !.shown = @ \cup {"whatsapp_meta"}])
  /\ channelDb' = [channelDb EXCEPT !.others = @ \cup {"whatsapp_meta"}]
  /\ channelCalls' = FetchChannels(channelCalls)

(* "Desconectar" and "Reconectar" on the row of a session.                 *)
SessionRow(s) == ~connect.modal /\ s \in connect.shown

HandleLogoutWaha(s) ==
  /\ ActsOnChannels /\ SessionRow(s)
  /\ connect' = ChannelAct(connect)
  /\ channelCalls' = Send(channelCalls, "logout", [of |-> s])
  /\ UNCHANGED channelDb

HandleRestartWaha(s) ==
  /\ ActsOnChannels /\ SessionRow(s)
  /\ connect' = ChannelAct(connect)
  /\ channelCalls' = Send(channelCalls, "restart", [of |-> s])
  /\ UNCHANGED channelDb

WebchatAnswered(call) ==
  /\ connect.mounted /\ call \in Done(channelCalls, "webchat")
  /\ IF call.answer = Failed THEN UNCHANGED connect /\ channelCalls' = channelCalls \ {call}
     ELSE connect' = [connect EXCEPT !.modal = FALSE] /\ channelCalls' = FetchChannels(channelCalls \ {call})
  /\ UNCHANGED channelDb

LogoutAnswered(call) ==
  /\ connect.mounted /\ call \in Done(channelCalls, "logout")
  /\ channelCalls' = IF call.answer = Failed THEN channelCalls \ {call} ELSE FetchChannels(channelCalls \ {call})
  /\ UNCHANGED <<connect, channelDb>>

(* A session that was started or restarted is scanned; the answer to a     *)
(* start puts its row on the list at once, ahead of the list read again.   *)
SessionAnswered(call) ==
  /\ call \in Done(channelCalls, "start") \cup Done(channelCalls, "restart")
  /\ IF call.answer = Failed THEN UNCHANGED connect /\ channelCalls' = channelCalls \ {call}
     ELSE IF call.op = "start" /\ connect.mounted
     THEN /\ CanCall(channelCalls)
          /\ StartScanner([connect EXCEPT !.shown = @ \cup {call.about.of}], call.about.of,
                          FetchChannels(channelCalls \ {call}))
     ELSE StartScanner(connect, call.about.of, channelCalls \ {call})
  /\ UNCHANGED channelDb

LeaveChannels ==
  /\ connect.mounted
  /\ connect' = [connect EXCEPT !.mounted = FALSE, !.modal = FALSE, !.scanning = FALSE, !.poller = None]
  /\ channelCalls' = {c \in channelCalls : c.op \in {"start", "restart", "poll"}}
  /\ UNCHANGED channelDb

-----------------------------------------------------------------------------
(* The server and WhatsApp, external to the page.                          *)

ChannelServer(call) ==
  /\ call \in channelCalls /\ call.answer = Waiting
  /\ LET Replies(db, answer) == channelDb' = db /\ channelCalls' = Answered(channelCalls, call, answer)
         of == call.about.of
         Turns(state) == [channelDb EXCEPT !.states[of] = state, !.sessions = @ \cup {of}]
         done == Ok([done |-> TRUE])
     IN \/ call.op = "list" /\ Replies(channelDb, Ok([channels |-> channelDb.sessions \cup channelDb.others]))
        \/ call.op = "poll" /\ Replies(channelDb, Ok([state |-> channelDb.states[of]]))
        \/ call.op \in {"start", "restart"} /\ Replies(Turns("SCAN_QR_CODE"), done)
        \/ call.op = "logout" /\ Replies(Turns("STOPPED"), done)
        \/ call.op = "webchat" /\ Replies([channelDb EXCEPT !.others = @ \cup {"webchat"}], done)
  /\ UNCHANGED connect

ChannelCallFails(call) ==
  /\ call \in channelCalls /\ call.answer # Failed /\ MayFail(connect.acts, channelDb.lost)
  /\ channelCalls' = Answered(channelCalls, call, Failed)
  /\ channelDb' = [channelDb EXCEPT !.lost = @ + 1]
  /\ UNCHANGED connect

PhoneReads(s) ==
  /\ channelDb.states[s] = "SCAN_QR_CODE"
  /\ channelDb' = [channelDb EXCEPT !.states[s] = "WORKING"]
  /\ UNCHANGED <<connect, channelCalls>>

ChannelsNext ==
  \/ PollTick \/ OpenConnect \/ CloseConnect \/ SignupSucceeds \/ LeaveChannels
  \/ \E type \in ChannelTypes : ChooseType(type)
  \/ \E s \in Sessions : HandleCreateChannel(s) \/ HandleLogoutWaha(s) \/ HandleRestartWaha(s) \/ PhoneReads(s)
  \/ \E call \in channelCalls :
       \/ ListArrives(call) \/ PollArrives(call) \/ WebchatAnswered(call) \/ LogoutAnswered(call)
       \/ SessionAnswered(call) \/ ChannelServer(call) \/ ChannelCallFails(call)

ChannelsSpec == ChannelsInit /\ [][ChannelsNext]_channelVars

(* The interval ticks, and calls are answered.                             *)
ChannelsFair ==
  /\ WF_channelVars(PollTick)
  /\ WF_channelVars(\E call \in channelCalls : ChannelServer(call))
  /\ WF_channelVars(\E call \in channelCalls : PollArrives(call))
  /\ WF_channelVars(\E call \in channelCalls :
       \/ ListArrives(call) \/ WebchatAnswered(call) \/ LogoutAnswered(call) \/ SessionAnswered(call))

-----------------------------------------------------------------------------
ChannelsTypeOK ==
  /\ {connect.mounted, connect.modal, connect.scanning, connect.crossed} \subseteq BOOLEAN
  /\ connect.shown \subseteq Sessions \cup Others /\ connect.type \in ChannelTypes
  /\ {connect.scan, connect.qr, connect.poller} \subseteq Sessions \cup {None}
  /\ channelDb.states \in [Sessions -> SessionStates]
  /\ channelDb.lost \in 0..MaxLost

(* The scanner shows the code of the session it was started for, and keeps *)
(* asking for that one, unless it was started while the code of another    *)
(* session was being asked for.                                            *)
QrIsOfTheScan ==
  connect.scanning /\ ~connect.crossed => connect.qr \in {None, connect.scan} /\ connect.poller = connect.scan

(* A phone that has read the code ends the scanner: it does not go on      *)
(* scanning a session that works.                                          *)
ScanIsNoticed ==
  []<>~(connect.scanning /\ channelDb.states[connect.scan] = "WORKING")
=============================================================================
