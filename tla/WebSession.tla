----------------------------- MODULE WebSession -----------------------------
(***************************************************************************)
(* Who is signed in on the panel: the tokens in localStorage, the requests *)
(* that refresh them (web/src/api/client.js), the AuthProvider, what       *)
(* App shows, and the websocket of the signed in layout                    *)
(* (web/src/context).  A request holds on to the token it was sent         *)
(* with; its refresh writes the new tokens whenever it is answered.        *)
(*                                                                         *)
(* Tokens are "good", "expired" (or "bad") or "none".  isAuthenticated is  *)
(* worked out when AuthProvider renders, so "authed" only changes with its *)
(* state and not with localStorage.  "out", "since" and "late" are history *)
(* that only LogoutHolds reads: whether a logout was the last word, the    *)
(* first form that opened after it, and whether the answer to an earlier   *)
(* form has signed in since.                                               *)
(***************************************************************************)
EXTENDS PanelCalls

CONSTANTS MaxSessionActs,   \* bound: what the operator does before or with the session
          MaxExpiries       \* bound: access tokens that expire, refresh tokens that are revoked

ASSUME WebSessionAssumption == MaxSessionActs \in Nat /\ MaxExpiries \in Nat

VARIABLES store,      \* localStorage: access and refresh token, "saved" for wh_user
          auth,       \* React state: AuthProvider, the form shown when signed out
          requests,   \* requests in flight
          socket      \* the websocket of the layout and what earlier layouts left behind

sessionVars == <<store, auth, requests, socket>>

Unauthorized == [kind |-> "unauthorized"]   \* 401

NoTokens == [access |-> "none", refresh |-> "none", saved |-> FALSE]
NoSocket == [ws |-> "none", token |-> "none", timer |-> FALSE,
             left |-> [st \in {"closing", "timer", "open"} |-> 0]]

Request(token, form) == [token |-> token, stage |-> "sent", refresh |-> "none", form |-> form]

(* Mutant of Shown: the panel is shown while the session is checked.       *)
Shown_WhileLoading(a) == a.authed

(* App: a spinner until the session is checked, then the layout or a form. *)
Shown(a) == a.authed /\ ~a.loading

(* checkAuth asks for the user of a stored token.                          *)
Opened(st, acts, lost, expiries, out) ==
  /\ auth' = [user |-> st.saved, authed |-> st.saved /\ st.access # "none", loading |-> st.access # "none",
              view |-> "login", form |-> 0, busy |-> FALSE, out |-> out, since |-> 0, late |-> FALSE,
              acts |-> acts, lost |-> lost, expiries |-> expiries]
  /\ requests' = IF st.access = "none" THEN {} ELSE Send({}, "me", Request(st.access, 0))
  /\ socket' = NoSocket

SessionInit ==
  /\ store \in {NoTokens} \cup [access : {"good", "expired"}, refresh : {"good", "bad"}, saved : {TRUE}]
  /\ auth = [user |-> store.saved, authed |-> store.saved, loading |-> store.saved,
             view |-> "login", form |-> 0, busy |-> FALSE, out |-> FALSE, since |-> 0, late |-> FALSE,
             acts |-> 0, lost |-> 0, expiries |-> 0]
  /\ requests = IF store.saved THEN Send({}, "me", Request(store.access, 0)) ELSE {}
  /\ socket = NoSocket

ActsInSession == auth.acts < MaxSessionActs
SessionAct(a) == [a EXCEPT !.acts = @ + 1]

(* connect() of a layout that appears, with the token of that moment.      *)
Connected(token) == [socket EXCEPT !.ws = "opening", !.token = token, !.timer = FALSE]

(* A layout that goes away drops its timer and closes its websocket, whose *)
(* close event is still to come.                                           *)
Disconnected ==
  [socket EXCEPT !.ws = "none", !.token = "none", !.timer = FALSE,
                 !.left["closing"] = @ + (IF socket.ws \in {"opening", "open"} THEN 1 ELSE 0)]

(* AuthProvider renders: the layout comes or goes with what it finds.      *)
Renders(a, st) ==
  LET next == [a EXCEPT !.authed = a.user /\ st.access # "none"]
  IN /\ auth' = IF Shown(auth) /\ ~Shown(next) THEN [next EXCEPT !.form = @ + 1, !.busy = FALSE] ELSE next
     /\ store' = st
     /\ socket' = CASE Shown(next) /\ ~Shown(auth) -> Connected(st.access)
                    [] ~Shown(next) /\ Shown(auth) -> Disconnected
                    [] OTHER -> socket

-----------------------------------------------------------------------------
(* The operator *)

PageRequest ==
  /\ ActsInSession /\ Shown(auth) /\ CanCall(requests)
  /\ auth' = SessionAct(auth)
  /\ requests' = Send(requests, "page", Request(store.access, 0))
  /\ UNCHANGED <<store, socket>>

(* A form of its own page waits for its answer.                            *)
SubmitForm ==
  /\ ActsInSession /\ ~auth.authed /\ ~auth.loading /\ ~auth.busy /\ CanCall(requests)
  /\ auth' = SessionAct([auth EXCEPT !.busy = TRUE])
  /\ requests' = Send(requests, auth.view, Request(store.access, auth.form))
  /\ UNCHANGED <<store, socket>>

Login == auth.view = "login" /\ SubmitForm
Register == auth.view = "register" /\ SubmitForm

SwitchForm ==
  /\ ActsInSession /\ ~auth.authed /\ ~auth.loading
  /\ auth' = SessionAct([auth EXCEPT !.view = IF @ = "login" THEN "register" ELSE "login",
                                     !.form = @ + 1, !.busy = FALSE])
  /\ UNCHANGED <<store, requests, socket>>

Logout ==
  /\ ActsInSession /\ Shown(auth)
  /\ Renders(SessionAct([auth EXCEPT !.user = FALSE, !.out = TRUE, !.since = auth.form + 1,
                                     !.late = FALSE]), NoTokens)
  /\ UNCHANGED requests

(* The browser reloads the page: what was in flight is forgotten.  Tokens  *)
(* that a late refresh brought back after a logout sign in again here.     *)
Reload ==
  /\ ActsInSession
  /\ Opened(store, auth.acts + 1, auth.lost, auth.expiries, auth.out /\ store.access = "none")
  /\ UNCHANGED store

-----------------------------------------------------------------------------
(* Requests *)

(* A 401 with a refresh token at hand, whichever request it answers.       *)
RefreshStarts(r) ==
  /\ r \in requests /\ r.answer = Unauthorized /\ r.about.stage = "sent" /\ store.refresh # "none"
  /\ requests' = (requests \ {r}) \cup
       {[r EXCEPT !.answer = Waiting, !.about.stage = "refreshing", !.about.refresh = store.refresh]}
  /\ UNCHANGED <<store, auth, socket>>

(* The new access token is written, the refresh token stays, and the       *)
(* request is sent again; otherwise the session is over: clearTokens and   *)
(* auth:expired.                                                           *)
RefreshEnds(r) ==
  /\ r \in requests /\ r.about.stage = "refreshing" /\ r.answer # Waiting
  /\ IF r.answer.kind = "ok"
     THEN /\ store' = [store EXCEPT !.access = "good"]
          /\ requests' = (requests \ {r}) \cup
               {[r EXCEPT !.answer = Waiting, !.about = [@ EXCEPT !.stage = "retried", !.token = "good"]]}
          /\ UNCHANGED <<auth, socket>>
     ELSE /\ requests' = (requests \ {r}) \cup {[r EXCEPT !.answer = Unauthorized, !.about.stage = "over"]}
          /\ Renders([auth EXCEPT !.user = FALSE], NoTokens)

Ended(r) ==
  /\ r \in requests /\ r.answer # Waiting /\ r.about.stage # "refreshing"
  /\ r.answer = Unauthorized /\ r.about.stage = "sent" => store.refresh = "none"

(* checkAuth: a failure leaves the stored user as it is.                   *)
SessionChecked(r) ==
  /\ Ended(r) /\ r.op = "me"
  /\ requests' = requests \ {r}
  /\ IF r.answer.kind = "ok"
     THEN Renders([auth EXCEPT !.user = TRUE, !.loading = FALSE], [store EXCEPT !.saved = TRUE])
     ELSE Renders([auth EXCEPT !.loading = FALSE], store)

SignedIn(r) ==
  /\ Ended(r) /\ r.op \in {"login", "register"}
  /\ requests' = requests \ {r}
  /\ LET mine == r.about.form = auth.form
         late == r.about.form < auth.since
     IN IF r.answer.kind = "ok"
        THEN Renders([auth EXCEPT !.user = TRUE, !.out = @ /\ late, !.late = late, !.busy = @ /\ ~mine],
                     [access |-> "good", refresh |-> "good", saved |-> TRUE])
        ELSE auth' = [auth EXCEPT !.busy = @ /\ ~mine] /\ UNCHANGED <<store, socket>>

PageAnswered(r) ==
  /\ Ended(r) /\ r.op = "page"
  /\ requests' = requests \ {r}
  /\ UNCHANGED <<store, auth, socket>>

(* The server: it knows expired tokens, revoked ones and wrong passwords.  *)
(* A token that expires while a request is on its way was still in time.   *)
SessionServer(r) ==
  /\ r \in requests /\ r.answer = Waiting
  /\ \E answer \in {Ok([done |-> TRUE]), Unauthorized} :
       /\ r.about.stage = "refreshing" => (answer.kind = "ok") = (r.about.refresh = "good")
       /\ r.about.stage # "refreshing" /\ r.op \in {"me", "page"} =>
            (answer.kind = "ok") = (r.about.token = "good")
       /\ requests' = Answered(requests, r, answer)
  /\ UNCHANGED <<store, auth, socket>>

RequestLost(r) ==
  /\ r \in requests /\ r.answer # Failed /\ r.about.stage # "over" /\ auth.lost < MaxLost
  /\ requests' = Answered(requests, r, Failed)
  /\ auth' = [auth EXCEPT !.lost = @ + 1]
  /\ UNCHANGED <<store, socket>>

TokenExpires ==
  /\ auth.expiries < MaxExpiries
  /\ \/ store.access = "good" /\ store' = [store EXCEPT !.access = "expired"]
     \/ store.refresh = "good" /\ store' = [store EXCEPT !.refresh = "bad"]
  /\ auth' = [auth EXCEPT !.expiries = @ + 1]
  /\ UNCHANGED <<requests, socket>>

-----------------------------------------------------------------------------
(* The websocket *)

SocketOpens ==
  /\ socket.ws = "opening" /\ socket.token = "good"
  /\ socket' = [socket EXCEPT !.ws = "open"]
  /\ UNCHANGED <<store, auth, requests>>

(* Mutant of SocketCloses: only a websocket that was open is opened again. *)
SocketCloses_OnlyOpen ==
  /\ \/ socket.ws = "opening" /\ socket.token # "good" /\ UNCHANGED auth
     \/ socket.ws \in {"opening", "open"} /\ auth.lost < MaxLost /\ auth' = [auth EXCEPT !.lost = @ + 1]
  /\ socket' = [socket EXCEPT !.ws = "closed", !.timer = socket.ws = "open"]
  /\ UNCHANGED <<store, requests>>

(* Refused for its token, or lost: onclose tries again in 3 seconds.       *)
SocketCloses ==
  /\ \/ socket.ws = "opening" /\ socket.token # "good" /\ UNCHANGED auth
     \/ socket.ws \in {"opening", "open"} /\ auth.lost < MaxLost /\ auth' = [auth EXCEPT !.lost = @ + 1]
  /\ socket' = [socket EXCEPT !.ws = "closed", !.timer = TRUE]
  /\ UNCHANGED <<store, requests>>

(* The token is read again, but nothing refreshes it here.                 *)
ReconnectFires ==
  /\ socket.timer
  /\ socket' = IF store.access = "none" THEN [socket EXCEPT !.timer = FALSE] ELSE Connected(store.access)
  /\ UNCHANGED <<store, auth, requests>>

(* The close event of a layout that is gone arms a timer that nobody       *)
(* clears: while there is a token, its websocket comes back next to the    *)
(* one of the layout that is shown.                                        *)
LeftSocketMoves(from, to) ==
  /\ socket.left[from] > 0
  /\ <<from, to>> \in {<<"closing", "timer">>, <<"timer", "open">>, <<"timer", "gone">>}
  /\ to = "open" => store.access = "good"
  /\ to = "gone" => store.access = "none"
  /\ socket' = [socket EXCEPT !.left = [st \in DOMAIN @ |-> CASE st = from -> @[st] - 1
                                                              [] st = to -> @[st] + 1
                                                              [] OTHER -> @[st]]]
  /\ UNCHANGED <<store, auth, requests>>

SessionNext ==
  \/ PageRequest \/ Login \/ Register \/ SwitchForm \/ Logout \/ Reload
  \/ \E r \in requests :
       \/ RefreshStarts(r) \/ RefreshEnds(r) \/ SessionChecked(r) \/ SignedIn(r) \/ PageAnswered(r)
       \/ SessionServer(r) \/ RequestLost(r)
  \/ TokenExpires
  \/ SocketOpens \/ SocketCloses \/ ReconnectFires
  \/ \E from \in {"closing", "timer"}, to \in {"timer", "open", "gone"} : LeftSocketMoves(from, to)

SessionSpec == SessionInit /\ [][SessionNext]_sessionVars

(* The browser opens or refuses a websocket and fires its timers, and      *)
(* every request is answered or fails.                                     *)
SessionFair ==
  /\ WF_sessionVars(SocketOpens) /\ WF_sessionVars(SocketCloses) /\ WF_sessionVars(ReconnectFires)
  /\ WF_sessionVars(\E r \in requests : SessionServer(r))
  /\ WF_sessionVars(\E r \in requests : RefreshStarts(r) \/ RefreshEnds(r) \/ SessionChecked(r)
                                          \/ SignedIn(r) \/ PageAnswered(r))

-----------------------------------------------------------------------------
SessionTypeOK ==
  /\ store \in [access : {"none", "good", "expired"}, refresh : {"none", "good", "bad"}, saved : BOOLEAN]
  /\ {auth.user, auth.authed, auth.loading, auth.busy, auth.out, auth.late} \subseteq BOOLEAN
  /\ auth.view \in {"login", "register"} /\ {auth.form, auth.since} \subseteq Nat
  /\ auth.acts \in 0..MaxSessionActs /\ auth.lost \in 0..MaxLost /\ auth.expiries \in 0..MaxExpiries
  /\ socket.ws \in {"none", "opening", "open", "closed"} /\ socket.token \in {"none", "good", "expired"}
  /\ socket.timer \in BOOLEAN

(* After a logout the panel is not shown again until somebody signs in     *)
(* with a form that opened since, whatever was still in flight: the        *)
(* session check, or requests that refresh the tokens.  Two things do      *)
(* bring it back: the answer to a form submitted before that logout, and a *)
(* reload after a late refresh has written a token back.                   *)
LogoutHolds == auth.out /\ ~auth.late => ~auth.authed

(* The websocket of the layout comes back after every loss; with an        *)
(* expired token only once some request has refreshed it.                  *)
SocketComesBack == []<>(~Shown(auth) \/ socket.ws = "open" \/ store.access = "expired")
=============================================================================
