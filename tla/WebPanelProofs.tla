--------------------------- MODULE WebPanelProofs ---------------------------
(***************************************************************************)
(* What holds in the browser for every number of calls in flight, of acts, *)
(* of failures and of attempts, and every set of sessions, of channels and *)
(* of searches: a logout holds, a thread is of the conversation that is    *)
(* open, an answer ends the form it belongs to, and the pages show what    *)
(* was asked and send what is complete.                                    *)
(* Every part has an inductive invariant of its own about what is still on *)
(* its way to it; a step of the panel is a step of one part and leaves the *)
(* others alone.                                                           *)
(***************************************************************************)
EXTENDS WebPanel, FlowGraphProofs

-----------------------------------------------------------------------------
(* Calls *)

IsCall(c) == c \in [slot : {c.slot}, op : {c.op}, about : {c.about}, answer : {c.answer}]

(* The server has answered the call.                                       *)
IsDone(c) == c.answer # Waiting /\ c.answer # Failed

LEMMA SendAdds ==
  ASSUME NEW calls, NEW op, NEW about, NEW c \in Send(calls, op, about)
  PROVE  c \in calls \/ (IsCall(c) /\ c.op = op /\ c.about = about)
  BY DEF Send, IsCall

LEMMA AnswerKeepsCall ==
  ASSUME NEW call, IsCall(call), NEW answer
  PROVE  [call EXCEPT !.answer = answer] = [slot |-> call.slot, op |-> call.op, about |-> call.about, answer |-> answer]
  BY DEF IsCall

LEMMA AnsweredReplaces ==
  ASSUME NEW calls, NEW call \in calls, IsCall(call), NEW answer, NEW c \in Answered(calls, call, answer)
  PROVE  \/ c \in calls \ {call}
         \/ IsCall(c) /\ c.op = call.op /\ c.about = call.about /\ c.answer = answer
<1> DEFINE new == [slot |-> call.slot, op |-> call.op, about |-> call.about, answer |-> answer]
<1>1. [call EXCEPT !.answer = answer] = new
  BY AnswerKeepsCall
<1>2. c \in calls \ {call} \/ c = new
  BY <1>1, Zenon DEF Answered
<1>3. QED
  BY <1>2 DEF IsCall

LEMMA SendAddsWaiting ==
  ASSUME NEW calls, NEW op, NEW about, NEW c \in Send(calls, op, about)
  PROVE  c \in calls \/ (IsCall(c) /\ c.op = op /\ c.about = about /\ c.answer = Waiting)
  BY DEF Send, IsCall

LEMMA SeqOfSubset ==
  ASSUME NEW S, NEW T, S \subseteq T, NEW s \in Seq(S)
  PROVE  s \in Seq(T)
  OBVIOUS

LEMMA AnswersDiffer ==
  /\ Waiting # Failed
  /\ \A result : Ok(result) # Failed /\ Ok(result) # Waiting /\ Ok(result).result = result
  BY DEF Waiting, Failed, Ok

-----------------------------------------------------------------------------
(* The session *)

IsAuth(a) ==
  a \in [user : {a.user}, authed : {a.authed}, loading : {a.loading}, view : {a.view}, form : {a.form},
         busy : {a.busy}, out : {a.out}, since : {a.since}, late : {a.late}, acts : {a.acts}, lost : {a.lost}, expiries : {a.expiries}]

(* The check of the session is the only request of its kind, and while it  *)
(* is out nobody has logged out: the panel that could is not shown yet.    *)
CheckIsAlone ==
  \A r \in requests : r.op = "me" =>
    /\ auth.loading /\ ~auth.out
    /\ \A s \in requests : s.op = "me" => s = r

SessionInv ==
  /\ IsAuth(auth)
  /\ \A r \in requests : IsCall(r)
  /\ CheckIsAlone
  /\ LogoutHolds

(* What a render leaves, whatever localStorage holds.                      *)
LEMMA RendersShows ==
  ASSUME NEW a, IsAuth(a), NEW st, Renders(a, st)
  PROVE  /\ IsAuth(auth')
         /\ auth'.authed = (a.user /\ st.access # "none")
         /\ auth'.loading = a.loading /\ auth'.out = a.out /\ auth'.late = a.late
<1> DEFINE next == [a EXCEPT !.authed = a.user /\ st.access # "none"]
<1>1. /\ IsAuth(next) /\ next.authed = (a.user /\ st.access # "none")
      /\ next.loading = a.loading /\ next.out = a.out /\ next.late = a.late
  BY DEF IsAuth
<1>2. CASE auth' = next
  BY <1>1, <1>2, Zenon
<1>3. CASE auth' = [next EXCEPT !.form = @ + 1, !.busy = FALSE]
  <2> HIDE DEF next
  <2>1. QED
    BY <1>1, <1>3 DEF IsAuth
<1>4. QED
  BY <1>2, <1>3, Zenon DEF Renders

(* A request sent by hand is no session check.                             *)
LEMMA SendOther ==
  ASSUME SessionInv, NEW op, op # "me", NEW about, requests' = Send(requests, op, about),
         IsAuth(auth'), auth'.loading = auth.loading, auth'.out = auth.out, auth'.late = auth.late,
         auth'.authed = auth.authed
  PROVE  SessionInv'
<1>1. \A r \in requests' : r \in requests \/ (IsCall(r) /\ r.op # "me")
  BY SendAdds
<1>2. CheckIsAlone' /\ (\A r \in requests' : IsCall(r))
  BY <1>1 DEF SessionInv, CheckIsAlone
<1>3. QED
  BY <1>2 DEF SessionInv, LogoutHolds

(* The request of a session check goes on as that of one.                  *)
LEMMA CheckGoesOn ==
  ASSUME SessionInv, NEW r \in requests, NEW new, IsCall(new), new.op = r.op,
         requests' = (requests \ {r}) \cup {new},
         IsAuth(auth'), auth'.loading = auth.loading, auth'.out = auth.out, auth'.late = auth.late,
         auth'.authed => auth.authed
  PROVE  SessionInv'
<1>1. \A q \in requests' : q \in requests \ {r} \/ q = new
  OBVIOUS
<1>2. CheckIsAlone' /\ (\A q \in requests' : IsCall(q))
  BY <1>1 DEF SessionInv, CheckIsAlone
<1>3. QED
  BY <1>2 DEF SessionInv, LogoutHolds

LEMMA AnswerIsCheck ==
  ASSUME SessionInv, NEW r \in requests, NEW answer, requests' = Answered(requests, r, answer),
         IsAuth(auth'), auth'.loading = auth.loading, auth'.out = auth.out, auth'.late = auth.late,
         auth'.authed => auth.authed
  PROVE  SessionInv'
<1> DEFINE new == [slot |-> r.slot, op |-> r.op, about |-> r.about, answer |-> answer]
<1>1. IsCall(r)
  BY DEF SessionInv
<1>2. [r EXCEPT !.answer = answer] = new
  BY <1>1, AnswerKeepsCall
<1>3. requests' = (requests \ {r}) \cup {new}
  BY <1>2, Zenon DEF Answered
<1>4. IsCall(new) /\ new.op = r.op
  BY DEF IsCall
<1>5. QED
  <2> HIDE DEF new
  <2>1. QED
    BY <1>3, <1>4, CheckGoesOn

LEMMA OperatorKeepsSession ==
  ASSUME SessionInv, PageRequest \/ Login \/ Register \/ SwitchForm \/ Logout
  PROVE  SessionInv'
<1>1. CASE PageRequest
  <2>1. /\ IsAuth(auth') /\ auth'.loading = auth.loading
        /\ auth'.out = auth.out /\ auth'.late = auth.late /\ auth'.authed = auth.authed
    BY <1>1 DEF PageRequest, SessionAct, SessionInv, IsAuth
  <2>2. QED
    BY <1>1, <2>1, SendOther, Zenon DEF PageRequest
<1>2. CASE Login \/ Register
  <2>1. /\ IsAuth(auth') /\ auth'.loading = auth.loading
        /\ auth'.out = auth.out /\ auth'.late = auth.late /\ auth'.authed = auth.authed
    BY <1>2 DEF Login, Register, SubmitForm, SessionAct, SessionInv, IsAuth
  <2>2. auth.view # "me"
    BY <1>2 DEF Login, Register
  <2>3. QED
    BY <1>2, <2>1, <2>2, SendOther, Zenon DEF Login, Register, SubmitForm
<1>3. CASE SwitchForm
  <2>1. /\ IsAuth(auth') /\ auth'.loading = auth.loading
        /\ auth'.out = auth.out /\ auth'.late = auth.late /\ auth'.authed = auth.authed
    BY <1>3 DEF SwitchForm, SessionAct, SessionInv, IsAuth
  <2>2. QED
    BY <1>3, <2>1 DEF SwitchForm, SessionInv, CheckIsAlone, LogoutHolds
<1>4. CASE Logout
  <2> DEFINE since == auth.form + 1
             a == SessionAct([auth EXCEPT !.user = FALSE, !.out = TRUE, !.since = since, !.late = FALSE])
  <2>1. IsAuth(a) /\ ~a.user
    <3> HIDE DEF since
    <3>1. QED
      BY DEF SessionAct, SessionInv, IsAuth
  <2>2. IsAuth(auth') /\ ~auth'.authed
    <3> HIDE DEF a
    <3>1. Renders(a, NoTokens)
      BY <1>4, Zenon DEF Logout, a
    <3>2. QED
      BY <2>1, <3>1, RendersShows
  <2>3. \A r \in requests : r.op # "me"
    BY <1>4 DEF Logout, Shown, SessionInv, CheckIsAlone
  <2>4. requests' = requests
    BY <1>4 DEF Logout
  <2>5. QED
    BY <2>2, <2>3, <2>4 DEF SessionInv, CheckIsAlone, LogoutHolds
<1>5. QED
  BY <1>1, <1>2, <1>3, <1>4

(* What is asked after a reload is the session check alone, and tokens it  *)
(* could be asked with sign in again.                                      *)
LEMMA ReloadKeepsSession ==
  ASSUME Reload
  PROVE  SessionInv'
<1> DEFINE out == auth.out /\ store.access = "none"
           call == Send({}, "me", Request(store.access, 0))
<1>1. \A r, s \in call : IsCall(r) /\ r = s
  BY DEF Send, IsCall
<1>2. requests' = IF store.access = "none" THEN {} ELSE call
  BY DEF Reload, Opened
<1>3. /\ IsAuth(auth') /\ auth'.out = out
      /\ auth'.authed = (store.saved /\ store.access # "none")
      /\ auth'.loading = (store.access # "none")
  BY DEF Reload, Opened, IsAuth
<1>4. \A r, s \in requests' : IsCall(r) /\ r = s
  BY <1>1, <1>2, Zenon
<1>5. requests' # {} => auth'.loading /\ ~auth'.out
  BY <1>2, <1>3
<1>6. LogoutHolds'
  BY <1>3 DEF LogoutHolds
<1>7. QED
  BY <1>3, <1>4, <1>5, <1>6 DEF SessionInv, CheckIsAlone

LEMMA RequestsKeepSession ==
  ASSUME SessionInv, NEW r \in requests,
         \/ RefreshStarts(r) \/ RefreshEnds(r) \/ SessionChecked(r) \/ SignedIn(r) \/ PageAnswered(r)
         \/ SessionServer(r) \/ RequestLost(r)
  PROVE  SessionInv'
<1>1. IsCall(r) /\ IsAuth(auth)
  BY DEF SessionInv
<1>2. CASE RefreshStarts(r)
  <2> DEFINE new == [r EXCEPT !.answer = Waiting, !.about.stage = "refreshing", !.about.refresh = store.refresh]
  <2>1. IsCall(new) /\ new.op = r.op
    BY <1>1 DEF IsCall
  <2>2. requests' = (requests \ {r}) \cup {new} /\ auth' = auth
    BY <1>2 DEF RefreshStarts
  <2>3. QED
    BY <1>1, <2>1, <2>2, CheckGoesOn
<1>3. CASE RefreshEnds(r) /\ r.answer.kind = "ok"
  <2> DEFINE new == [r EXCEPT !.answer = Waiting, !.about = [@ EXCEPT !.stage = "retried", !.token = "good"]]
  <2>1. IsCall(new) /\ new.op = r.op
    BY <1>1 DEF IsCall
  <2>2. requests' = (requests \ {r}) \cup {new} /\ auth' = auth
    BY <1>3 DEF RefreshEnds
  <2>3. QED
    BY <1>1, <2>1, <2>2, CheckGoesOn
<1>4. CASE RefreshEnds(r) /\ r.answer.kind # "ok"
  <2> DEFINE new == [r EXCEPT !.answer = Unauthorized, !.about.stage = "over"]
             a == [auth EXCEPT !.user = FALSE]
  <2>1. IsCall(new) /\ new.op = r.op
    BY <1>1 DEF IsCall
  <2>2. requests' = (requests \ {r}) \cup {new}
    BY <1>4 DEF RefreshEnds
  <2>3. IsAuth(a) /\ ~a.user /\ a.loading = auth.loading /\ a.out = auth.out /\ a.late = auth.late
    BY <1>1 DEF IsAuth
  <2>4. Renders(a, NoTokens)
    BY <1>4 DEF RefreshEnds
  <2>5. IsAuth(auth') /\ ~auth'.authed /\ auth'.loading = auth.loading /\ auth'.out = auth.out
        /\ auth'.late = auth.late
    <3> HIDE DEF a
    <3>1. QED
      BY <2>3, <2>4, RendersShows
  <2>6. QED
    <3> HIDE DEF new
    <3>1. QED
      BY <2>1, <2>2, <2>5, CheckGoesOn
<1>5. CASE SessionChecked(r)
  <2>1. r.op = "me" /\ requests' = requests \ {r}
    BY <1>5 DEF SessionChecked
  <2>2. ~auth.out /\ (\A s \in requests' : IsCall(s) /\ s.op # "me")
    BY <2>1 DEF SessionInv, CheckIsAlone
  <2>3. IsAuth(auth') /\ auth'.out = auth.out
    <3>1. CASE r.answer.kind = "ok"
      <4> DEFINE a == [auth EXCEPT !.user = TRUE, !.loading = FALSE]
                 st == [store EXCEPT !.saved = TRUE]
      <4>1. IsAuth(a) /\ a.out = auth.out
        BY <1>1 DEF IsAuth
      <4>2. Renders(a, st)
        BY <1>5, <3>1 DEF SessionChecked
      <4>3. QED
        <5> HIDE DEF a, st
        <5>1. QED
          BY <4>1, <4>2, RendersShows
    <3>2. CASE r.answer.kind # "ok"
      <4> DEFINE a == [auth EXCEPT !.loading = FALSE]
      <4>1. IsAuth(a) /\ a.out = auth.out
        BY <1>1 DEF IsAuth
      <4>2. Renders(a, store)
        BY <1>5, <3>2 DEF SessionChecked
      <4>3. QED
        <5> HIDE DEF a
        <5>1. QED
          BY <4>1, <4>2, RendersShows
    <3>3. QED
      BY <3>1, <3>2
  <2>4. QED
    BY <2>2, <2>3 DEF SessionInv, CheckIsAlone, LogoutHolds
<1>6. CASE SignedIn(r) /\ r.answer.kind = "ok"
  <2> DEFINE mine == r.about.form = auth.form
             late == r.about.form < auth.since
             a == [auth EXCEPT !.user = TRUE, !.out = @ /\ late, !.late = late, !.busy = @ /\ ~mine]
             st == [access |-> "good", refresh |-> "good", saved |-> TRUE]
  <2>1. IsAuth(a) /\ (a.out => auth.out /\ a.late) /\ a.loading = auth.loading
    BY <1>1 DEF IsAuth
  <2>2. Renders(a, st)
    BY <1>6 DEF SignedIn
  <2>3. IsAuth(auth') /\ (auth'.out => auth.out /\ auth'.late) /\ auth'.loading = auth.loading
    <3> HIDE DEF a, st
    <3>1. QED
      BY <2>1, <2>2, RendersShows
  <2>4. requests' = requests \ {r}
    BY <1>6 DEF SignedIn
  <2>5. QED
    BY <2>3, <2>4 DEF SessionInv, CheckIsAlone, LogoutHolds
<1>7. CASE SignedIn(r) /\ r.answer.kind # "ok"
  <2> DEFINE mine == r.about.form = auth.form
  <2>1. auth' = [auth EXCEPT !.busy = @ /\ ~mine] /\ requests' = requests \ {r}
    BY <1>7 DEF SignedIn
  <2>2. /\ IsAuth(auth') /\ auth'.loading = auth.loading
        /\ auth'.out = auth.out /\ auth'.late = auth.late /\ auth'.authed = auth.authed
    BY <1>1, <2>1 DEF IsAuth
  <2>3. QED
    BY <2>1, <2>2 DEF SessionInv, CheckIsAlone, LogoutHolds
<1>8. CASE PageAnswered(r)
  BY <1>8 DEF PageAnswered, SessionInv, CheckIsAlone, LogoutHolds
<1>9. CASE SessionServer(r)
  <2>1. PICK answer : requests' = Answered(requests, r, answer)
    BY <1>9, Zenon DEF SessionServer
  <2>2. auth' = auth
    BY <1>9 DEF SessionServer
  <2>3. QED
    BY <1>1, <2>1, <2>2, AnswerIsCheck
<1>10. CASE RequestLost(r)
  <2>1. requests' = Answered(requests, r, Failed) /\ auth' = [auth EXCEPT !.lost = @ + 1]
    BY <1>10 DEF RequestLost
  <2>2. /\ IsAuth(auth') /\ auth'.loading = auth.loading
        /\ auth'.out = auth.out /\ auth'.late = auth.late /\ auth'.authed = auth.authed
    BY <1>1, <2>1 DEF IsAuth
  <2>3. QED
    BY <2>1, <2>2, AnswerIsCheck
<1>11. QED
  BY <1>2, <1>3, <1>4, <1>5, <1>6, <1>7, <1>8, <1>9, <1>10

(* Tokens that expire and the websocket have no say in who is signed in.   *)
LEMMA QuietStep ==
  ASSUME SessionInv, requests' = requests,
         auth' = auth \/ auth' = [auth EXCEPT !.lost = @ + 1] \/ auth' = [auth EXCEPT !.expiries = @ + 1]
  PROVE  SessionInv'
<1>1. IsAuth(auth)
  BY DEF SessionInv
<1>2. /\ IsAuth(auth') /\ auth'.loading = auth.loading
      /\ auth'.out = auth.out /\ auth'.late = auth.late /\ auth'.authed = auth.authed
  BY <1>1 DEF IsAuth
<1>3. QED
  BY <1>2 DEF SessionInv, CheckIsAlone, LogoutHolds

LEMMA SessionInitInv ==
  ASSUME SessionInit
  PROVE  SessionInv
<1> DEFINE call == Send({}, "me", Request(store.access, 0))
<1>1. \A r, s \in call : IsCall(r) /\ r = s
  BY DEF Send, IsCall
<1>2. requests = IF store.saved THEN call ELSE {}
  BY DEF SessionInit
<1>3. IsAuth(auth) /\ ~auth.out /\ auth.loading = store.saved
  BY DEF SessionInit, IsAuth
<1>4. \A r, s \in requests : IsCall(r) /\ r = s
  BY <1>1, <1>2, Zenon
<1>5. requests # {} => auth.loading
  BY <1>2, <1>3, Zenon
<1>6. QED
  BY <1>3, <1>4, <1>5 DEF SessionInv, CheckIsAlone, LogoutHolds

LEMMA SessionStepInv ==
  ASSUME SessionInv, [SessionNext]_sessionVars
  PROVE  SessionInv'
<1>1. CASE PageRequest \/ Login \/ Register \/ SwitchForm \/ Logout
  BY <1>1, OperatorKeepsSession
<1>2. CASE Reload
  BY <1>2, ReloadKeepsSession
<1>3. ASSUME NEW r \in requests,
             \/ RefreshStarts(r) \/ RefreshEnds(r) \/ SessionChecked(r) \/ SignedIn(r) \/ PageAnswered(r)
             \/ SessionServer(r) \/ RequestLost(r)
      PROVE  SessionInv'
  BY <1>3, RequestsKeepSession
<1>4. CASE TokenExpires \/ SocketOpens \/ SocketCloses \/ ReconnectFires \/ UNCHANGED sessionVars
  BY <1>4, QuietStep, Zenon DEF TokenExpires, SocketOpens, SocketCloses, ReconnectFires, sessionVars
<1>5. ASSUME NEW from, NEW to, LeftSocketMoves(from, to)
      PROVE  SessionInv'
  BY <1>5, QuietStep, Zenon DEF LeftSocketMoves
<1>6. QED
  BY <1>1, <1>2, <1>3, <1>4, <1>5, Zenon DEF SessionNext

-----------------------------------------------------------------------------
(* Connecting an official channel *)

AnAttempt ==
  [ended : BOOLEAN, code : BOOLEAN, number : 0..MaxAttempts, timer : {"off", "long", "short"}, listening : BOOLEAN,
   mine : BOOLEAN, back : BOOLEAN, told : BOOLEAN, posts : {0, 1}]

IsButton(b) ==
  b \in [mounted : BOOLEAN, ready : BOOLEAN, connecting : BOOLEAN,
         inProgress : {b.inProgress}, opened : {b.opened}, lost : {b.lost}]

(* Whoever collects is the attempt in progress, of the button that is      *)
(* mounted, and has posted nothing yet.                                    *)
Collecting(a, n, b) == ~a.ended => b.inProgress = n /\ a.mine /\ a.posts = 0

SignupInv ==
  /\ IsButton(button)
  /\ attempts \in Seq(AnAttempt) /\ button.inProgress \in 0..Len(attempts)
  /\ \A n \in Attempts : Collecting(attempts[n], n, button)

LEMMA ClosedAttempt ==
  ASSUME NEW a \in AnAttempt
  PROVE  /\ Closed(a) \in AnAttempt /\ Closed(a).ended
         /\ [Closed(a) EXCEPT !.mine = FALSE] \in AnAttempt /\ [Closed(a) EXCEPT !.mine = FALSE].ended
  BY DEF Closed, AnAttempt

LEMMA PostedAttempt ==
  ASSUME NEW a \in AnAttempt, a.posts = 0
  PROVE  Posted(a) \in AnAttempt /\ Posted(a).ended
<1> DEFINE c == Closed(a)
<1>1. c \in AnAttempt /\ c.ended
  BY ClosedAttempt
<1>2. Posted(a) = [c EXCEPT !.posts = 1]
  <2>1. a.posts + 1 = 1
    OBVIOUS
  <2>2. QED
    BY <2>1, Zenon DEF Posted
<1>3. QED
  <2> HIDE DEF c
  <2>1. [c EXCEPT !.posts = 1] \in AnAttempt /\ [c EXCEPT !.posts = 1].ended
    BY <1>1 DEF AnAttempt
  <2>2. QED
    BY <1>2, <2>1

LEMMA ReleasedButton ==
  ASSUME IsButton(button), NEW n
  PROVE  /\ IsButton(Released(n)) /\ Released(n).inProgress \in {0, button.inProgress}
         /\ \A m : m # n /\ button.inProgress = m => Released(n).inProgress = m
  BY DEF Released, IsButton

(* An attempt that fails frees the panel only from itself.                 *)
LEMMA FailsKeepsSignup ==
  ASSUME IsButton(button), NEW all \in Seq(AnAttempt), button.inProgress \in 0..Len(all), NEW n, Fails(all, n),
         \A m \in DOMAIN all : m # n => Collecting(all[m], m, button)
  PROVE  SignupInv'
<1>1. /\ IsButton(button') /\ button'.inProgress \in {0, button.inProgress}
      /\ \A m : m # n /\ button.inProgress = m => button'.inProgress = m
  <2> DEFINE b == Released(n)
  <2>1. /\ IsButton(b) /\ b.inProgress \in {0, button.inProgress}
        /\ \A m : m # n /\ button.inProgress = m => b.inProgress = m
    BY ReleasedButton
  <2>2. button' = [b EXCEPT !.connecting = @ /\ ~all[n].mine]
    BY DEF Fails
  <2>3. QED
    <3> HIDE DEF b
    <3>1. QED
      BY <2>1, <2>2 DEF IsButton
<1>2. \A m \in DOMAIN all : all[m] \in AnAttempt /\ Closed(all[m]) \in AnAttempt /\ Closed(all[m]).ended
  <2>1. \A m \in DOMAIN all : all[m] \in AnAttempt
    OBVIOUS
  <2>2. QED
    BY <2>1, ClosedAttempt, Zenon
<1>3. attempts' = [m \in DOMAIN all |-> IF m = n THEN Closed(all[m]) ELSE all[m]]
  BY Zenon DEF Fails
<1>4. attempts' \in Seq(AnAttempt) /\ Len(attempts') = Len(all)
  <2>1. DOMAIN all = 1..Len(all) /\ Len(all) \in Nat
    OBVIOUS
  <2>2. attempts' \in [1..Len(all) -> AnAttempt] /\ DOMAIN attempts' = 1..Len(all)
    BY <1>2, <1>3, <2>1
  <2>3. QED
    BY <2>1, <2>2
<1>5. \A m \in DOMAIN attempts' : Collecting(attempts'[m], m, button')
  BY <1>1, <1>2, <1>3 DEF Collecting
<1>6. QED
  BY <1>1, <1>4, <1>5 DEF SignupInv, Attempts

(* What is written to one attempt keeps the sequence of them.              *)
LEMMA WriteAttempt ==
  ASSUME NEW all \in Seq(AnAttempt), NEW n \in DOMAIN all, NEW a \in AnAttempt
  PROVE  /\ [all EXCEPT ![n] = a] \in Seq(AnAttempt) /\ Len([all EXCEPT ![n] = a]) = Len(all)
         /\ DOMAIN [all EXCEPT ![n] = a] = DOMAIN all
         /\ \A m \in DOMAIN all : [all EXCEPT ![n] = a][m] = IF m = n THEN a ELSE all[m]
  OBVIOUS

LEMMA CollectedKeepsSignup ==
  ASSUME IsButton(button), NEW all \in Seq(AnAttempt), button.inProgress \in 0..Len(all),
         NEW n \in DOMAIN all, Collected(all, n),
         \A m \in DOMAIN all : Collecting(all[m], m, button)
  PROVE  SignupInv'
<1>1. button' = button
  BY DEF Collected
<1>2. CASE attempts' = all
  BY <1>1, <1>2 DEF SignupInv, Attempts
<1>3. CASE ~all[n].ended /\ attempts' = [all EXCEPT ![n] = Posted(@)]
  <2> DEFINE a == Posted(all[n])
  <2>1. all[n] \in AnAttempt /\ all[n].posts = 0
    BY <1>3 DEF Collecting
  <2>2. a \in AnAttempt /\ a.ended
    BY <2>1, PostedAttempt
  <2>3. attempts' = [all EXCEPT ![n] = a]
    BY <1>3, Zenon
  <2>4. QED
    <3> HIDE DEF a
    <3>1. /\ attempts' \in Seq(AnAttempt) /\ Len(attempts') = Len(all) /\ DOMAIN attempts' = DOMAIN all
          /\ \A m \in DOMAIN all : attempts'[m] = IF m = n THEN a ELSE all[m]
      BY <2>2, <2>3, WriteAttempt
    <3>2. \A m \in DOMAIN attempts' : Collecting(attempts'[m], m, button')
      BY <1>1, <2>2, <3>1 DEF Collecting
    <3>3. QED
      BY <1>1, <3>1, <3>2 DEF SignupInv, Attempts
<1>4. QED
  BY <1>2, <1>3, Zenon DEF Collected

(* A change of an attempt that neither ends it nor posts.                  *)
LEMMA TouchAttempt ==
  ASSUME SignupInv, NEW n \in Attempts, NEW a \in AnAttempt,
         a.ended = attempts[n].ended, a.mine = attempts[n].mine, a.posts = attempts[n].posts
  PROVE  LET all == [attempts EXCEPT ![n] = a]
         IN /\ all \in Seq(AnAttempt) /\ Len(all) = Len(attempts) /\ DOMAIN all = Attempts
            /\ \A m \in Attempts : Collecting(all[m], m, button)
            /\ \A m \in Attempts : all[m] = IF m = n THEN a ELSE attempts[m]
<1> DEFINE all == [attempts EXCEPT ![n] = a]
<1>1. /\ all \in Seq(AnAttempt) /\ Len(all) = Len(attempts) /\ DOMAIN all = Attempts
      /\ \A m \in Attempts : all[m] = IF m = n THEN a ELSE attempts[m]
  BY WriteAttempt DEF SignupInv, Attempts
<1>2. \A m \in Attempts : Collecting(attempts[m], m, button)
  BY DEF SignupInv
<1>3. QED
  <2> HIDE DEF all
  <2>1. \A m \in Attempts : Collecting(all[m], m, button)
    BY <1>1, <1>2 DEF Collecting
  <2>2. QED
    BY <1>1, <2>1, Zenon DEF all

LEMMA PopupAnswersKeepsSignup ==
  ASSUME SignupInv, NEW n, NEW granted \in BOOLEAN, PopupAnswers(n, granted)
  PROVE  SignupInv'
<1> DEFINE due == granted /\ button.inProgress = n /\ ~attempts[n].ended
           a == [attempts[n] EXCEPT !.back = TRUE, !.code = granted, !.timer = IF due THEN "short" ELSE "off"]
           all == [attempts EXCEPT ![n] = a]
<1>1. n \in Attempts /\ attempts[n] \in AnAttempt /\ IsButton(button) /\ button.inProgress \in 0..Len(attempts)
  BY DEF PopupAnswers, SignupInv, Attempts
<1>2. /\ a \in AnAttempt /\ a.ended = attempts[n].ended
      /\ a.mine = attempts[n].mine /\ a.posts = attempts[n].posts
  <2> DEFINE timer == IF due THEN "short" ELSE "off"
  <2>1. timer \in {"short", "off"}
    OBVIOUS
  <2>2. QED
    <3> HIDE DEF timer
    <3>1. /\ [attempts[n] EXCEPT !.back = TRUE, !.code = granted, !.timer = timer] \in AnAttempt
          /\ [attempts[n] EXCEPT !.back = TRUE, !.code = granted, !.timer = timer].ended = attempts[n].ended
          /\ [attempts[n] EXCEPT !.back = TRUE, !.code = granted, !.timer = timer].mine = attempts[n].mine
          /\ [attempts[n] EXCEPT !.back = TRUE, !.code = granted, !.timer = timer].posts = attempts[n].posts
      BY <1>1, <2>1 DEF AnAttempt
    <3>2. QED
      BY <3>1, Zenon DEF timer
<1>3. Fails(all, n) \/ Collected(all, n)
  BY Zenon DEF PopupAnswers
<1>4. /\ all \in Seq(AnAttempt) /\ Len(all) = Len(attempts) /\ DOMAIN all = Attempts
      /\ \A m \in Attempts : Collecting(all[m], m, button)
  <2> HIDE DEF a
  <2>1. QED
    BY <1>1, <1>2, TouchAttempt, Zenon
<1>5. QED
  <2> HIDE DEF a, all
  <2>1. QED
    BY <1>1, <1>3, <1>4, FailsKeepsSignup, CollectedKeepsSignup

LEMMA PopupTellsKeepsSignup ==
  ASSUME SignupInv, NEW popup \in 1..MaxAttempts, NEW n, NEW finished, PopupTells(popup, n, finished)
  PROVE  SignupInv'
<1> DEFINE a == [attempts[popup] EXCEPT !.told = TRUE]
           told == [attempts EXCEPT ![popup] = a]
<1>1. /\ n \in Attempts /\ popup \in Attempts /\ popup \in 0..MaxAttempts
      /\ button.inProgress \in 0..Len(attempts)
      /\ attempts[popup] \in AnAttempt /\ IsButton(button)
  BY DEF PopupTells, SignupInv, Attempts
<1>2. /\ a \in AnAttempt /\ a.ended = attempts[popup].ended
      /\ a.mine = attempts[popup].mine /\ a.posts = attempts[popup].posts
  BY <1>1 DEF AnAttempt
<1>3. told = [attempts EXCEPT ![popup].told = TRUE]
  BY Zenon
<1>4. /\ told \in Seq(AnAttempt) /\ Len(told) = Len(attempts) /\ DOMAIN told = Attempts
      /\ \A m \in Attempts : Collecting(told[m], m, button)
  <2> HIDE DEF a
  <2>1. QED
    BY <1>1, <1>2, TouchAttempt, Zenon
<1>5. CASE ~finished
  <2>1. Fails(told, n)
    BY <1>3, <1>5 DEF PopupTells
  <2>2. QED
    <3> HIDE DEF told
    <3>1. QED
      BY <1>1, <1>4, <2>1, FailsKeepsSignup
<1>6. CASE finished
  <2> DEFINE b == [told[n] EXCEPT !.number = popup]
             all == [told EXCEPT ![n] = b]
  <2>1. Collected(all, n)
    BY <1>3, <1>6, Zenon DEF PopupTells
  <2>2. /\ b \in AnAttempt /\ b.ended = told[n].ended /\ b.mine = told[n].mine /\ b.posts = told[n].posts
    <3> HIDE DEF told
    <3>1. told[n] \in AnAttempt
      BY <1>1, <1>4
    <3>2. QED
      BY <1>1, <3>1 DEF AnAttempt
  <2>3. /\ all \in Seq(AnAttempt) /\ Len(all) = Len(attempts) /\ DOMAIN all = Attempts
        /\ \A m \in Attempts : all[m] = IF m = n THEN b ELSE told[m]
    <3> HIDE DEF told, b
    <3>1. QED
      BY <1>1, <1>4, <2>2, WriteAttempt
  <2>4. \A m \in Attempts : Collecting(all[m], m, button)
    <3> HIDE DEF told, b, all
    <3>1. QED
      BY <1>1, <1>4, <2>2, <2>3 DEF Collecting
  <2>5. QED
    <3> HIDE DEF told, b, all
    <3>1. QED
      BY <1>1, <2>1, <2>3, <2>4, CollectedKeepsSignup
<1>7. QED
  BY <1>5, <1>6

(* A new attempt begins when nobody has the panel.                         *)
LEMMA ClickKeepsSignup ==
  ASSUME SignupInv, HandleClick
  PROVE  SignupInv'
<1> DEFINE k == Len(attempts) + 1
<1>1. /\ attempts \in Seq(AnAttempt) /\ button.inProgress = 0 /\ NewAttempt \in AnAttempt
      /\ NewAttempt.mine /\ NewAttempt.posts = 0
  BY MetaSignupAssumption DEF SignupInv, HandleClick, NewAttempt, AnAttempt
<1>2. \A n \in Attempts : attempts[n].ended
  BY <1>1 DEF SignupInv, Collecting, Attempts
<1>3. attempts' = Append(attempts, NewAttempt)
  BY DEF HandleClick
<1>4. /\ attempts' \in Seq(AnAttempt) /\ Len(attempts') = k /\ k \in 0..k /\ DOMAIN attempts' = 1..k
      /\ attempts'[k] = NewAttempt /\ \A n \in Attempts : attempts'[n] = attempts[n]
  <2> HIDE DEF NewAttempt
  <2>1. QED
    BY <1>1, <1>3 DEF Attempts
<1>5. IsButton(button') /\ button'.inProgress = k
  BY DEF HandleClick, SignupInv, IsButton
<1>6. \A n \in 1..k : Collecting(attempts'[n], n, button')
  <2>1. SUFFICES ASSUME NEW n \in 1..k
                 PROVE  Collecting(attempts'[n], n, button')
    OBVIOUS
  <2>2. CASE n = k
    BY <1>1, <1>4, <1>5, <2>2 DEF Collecting
  <2>3. CASE n # k
    <3>1. n \in Attempts
      BY <1>1, <2>3 DEF Attempts
    <3>2. attempts'[n].ended
      BY <1>2, <1>4, <3>1
    <3>3. QED
      BY <3>2 DEF Collecting
  <2>4. QED
    BY <2>2, <2>3
<1>7. QED
  BY <1>4, <1>5, <1>6 DEF SignupInv, Attempts

(* A button that goes away ends what it began.                             *)
LEMMA UnmountKeepsSignup ==
  ASSUME SignupInv, UnmountButton
  PROVE  SignupInv'
<1> DEFINE last == Len(attempts)
           gone(a) == IF a.mine THEN [Closed(a) EXCEPT !.mine = FALSE] ELSE a
<1>1. \A n \in Attempts : attempts[n] \in AnAttempt /\ (~attempts[n].ended => attempts[n].mine)
  BY DEF SignupInv, Attempts, Collecting
<1>2. \A n \in Attempts : gone(attempts[n]) \in AnAttempt /\ gone(attempts[n]).ended
  <2>1. SUFFICES ASSUME NEW n \in Attempts
                 PROVE  gone(attempts[n]) \in AnAttempt /\ gone(attempts[n]).ended
    OBVIOUS
  <2>2. CASE attempts[n].mine
    BY <1>1, <2>2, ClosedAttempt, Zenon
  <2>3. CASE ~attempts[n].mine
    <3>1. attempts[n].ended
      BY <1>1, <2>3, Zenon DEF AnAttempt
    <3>2. QED
      BY <1>1, <2>3, <3>1, Zenon
  <2>4. QED
    BY <2>2, <2>3
<1>3. attempts' = [n \in Attempts |-> gone(attempts[n])]
  BY Zenon DEF UnmountButton
<1>4. /\ attempts' \in Seq(AnAttempt) /\ Len(attempts') = Len(attempts) /\ DOMAIN attempts' = Attempts
      /\ \A n \in Attempts : attempts'[n].ended
  <2> HIDE DEF gone
  <2>1. Attempts = 1..Len(attempts) /\ Len(attempts) \in Nat
    BY DEF SignupInv, Attempts
  <2>2. /\ attempts' \in [1..Len(attempts) -> AnAttempt] /\ DOMAIN attempts' = 1..Len(attempts)
        /\ \A n \in Attempts : attempts'[n].ended
    BY <1>2, <1>3, <2>1
  <2>3. QED
    BY <2>1, <2>2
<1>5. IsButton(button') /\ button'.inProgress \in {0, button.inProgress}
  <2> DEFINE freed == IF last > 0 /\ attempts[last].mine THEN Released(last) ELSE button
  <2>1. IsButton(freed) /\ freed.inProgress \in {0, button.inProgress}
    <3>1. CASE freed = button
      BY <3>1 DEF SignupInv
    <3>2. CASE freed = Released(last)
      BY <3>2, ReleasedButton, Zenon DEF SignupInv
    <3>3. QED
      BY <3>1, <3>2, Zenon
  <2>2. button' = [freed EXCEPT !.mounted = FALSE, !.ready = FALSE, !.connecting = FALSE]
    BY Zenon DEF UnmountButton
  <2>3. QED
    <3> HIDE DEF freed
    <3>1. QED
      BY <2>1, <2>2 DEF IsButton
<1>6. QED
  BY <1>4, <1>5 DEF SignupInv, Attempts, Collecting

LEMMA SignupStepInv ==
  ASSUME SignupInv, [SignupNext]_signupVars
  PROVE  SignupInv'
<1>1. ASSUME UNCHANGED attempts, IsButton(button'), button'.inProgress = button.inProgress
      PROVE  SignupInv'
  BY <1>1 DEF SignupInv, Attempts, Collecting
<1>2. CASE MountButton \/ UNCHANGED signupVars
  <2>1. UNCHANGED attempts /\ IsButton(button') /\ button'.inProgress = button.inProgress
    BY <1>2 DEF MountButton, signupVars, SignupInv, IsButton
  <2>2. QED
    BY <1>1, <2>1
<1>3. CASE UnmountButton
  BY <1>3, UnmountKeepsSignup
<1>4. CASE HandleClick
  BY <1>4, ClickKeepsSignup
<1>5. ASSUME NEW n, Fails(attempts, n)
      PROVE  SignupInv'
  BY <1>5, FailsKeepsSignup DEF SignupInv, Attempts
<1>6. ASSUME NEW n, TimerFires(n)
      PROVE  SignupInv'
  BY <1>5, <1>6 DEF TimerFires
<1>7. ASSUME NEW n, NEW granted \in BOOLEAN, PopupAnswers(n, granted)
      PROVE  SignupInv'
  BY <1>7, PopupAnswersKeepsSignup
<1>8. ASSUME NEW popup \in 1..MaxAttempts, NEW n, NEW finished, PopupTells(popup, n, finished)
      PROVE  SignupInv'
  BY <1>8, PopupTellsKeepsSignup
<1>9. ASSUME NEW call, ConfigArrives(call)
      PROVE  SignupInv'
  <2>1. UNCHANGED attempts /\ IsButton(button') /\ button'.inProgress = button.inProgress
    BY <1>9 DEF ConfigArrives, SignupInv, IsButton
  <2>2. QED
    BY <1>1, <2>1
<1>10. ASSUME NEW call, SignupAnswered(call)
       PROVE  SignupInv'
  BY <1>5, <1>10 DEF SignupAnswered
<1>11. ASSUME NEW call, SignupServer(call)
       PROVE  SignupInv'
  <2>1. UNCHANGED attempts /\ (button' = button \/ button' = [button EXCEPT !.lost = @ + 1])
    BY <1>11, Zenon DEF SignupServer
  <2>2. IsButton(button') /\ button'.inProgress = button.inProgress
    BY <2>1 DEF SignupInv, IsButton
  <2>3. QED
    BY <1>1, <2>1, <2>2
<1>12. QED
  BY <1>2, <1>3, <1>4, <1>6, <1>7, <1>8, <1>9, <1>10, <1>11, Zenon DEF SignupNext

LEMMA SignupInitInv ==
  ASSUME SignupInit
  PROVE  SignupInv
  BY DEF SignupInit, SignupInv, IsButton, Attempts

LEMMA SignupTypes == SignupInv => SignupTypeOK
<1>1. SUFFICES ASSUME SignupInv PROVE SignupTypeOK
  OBVIOUS
<1>2. {button.mounted, button.ready, button.connecting} \subseteq BOOLEAN
  BY <1>1 DEF SignupInv, IsButton
<1>3. AnAttempt \subseteq [ended : BOOLEAN, code : BOOLEAN, number : 0..MaxAttempts, timer : {"off", "long", "short"},
                          listening : BOOLEAN, mine : BOOLEAN, back : BOOLEAN, told : BOOLEAN, posts : Nat]
  BY DEF AnAttempt
<1>4. QED
  <2> HIDE DEF AnAttempt
  <2>1. attempts \in Seq(AnAttempt) /\ button.inProgress \in 0..Len(attempts)
    BY <1>1 DEF SignupInv
  <2>2. QED
    BY <1>2, <1>3, <2>1, SeqOfSubset DEF SignupTypeOK

LEMMA OneSignup == SignupInv => OneSignupAtATime
<1>1. SUFFICES ASSUME SignupInv, NEW n \in Attempts
               PROVE  attempts[n].posts <= 1 /\ (~attempts[n].ended => button.inProgress = n)
  BY DEF OneSignupAtATime
<1>2. attempts[n] \in AnAttempt /\ Collecting(attempts[n], n, button)
  <2>1. attempts \in Seq(AnAttempt) /\ n \in DOMAIN attempts
    BY <1>1, Zenon DEF SignupInv, Attempts
  <2>2. attempts[n] \in AnAttempt
    BY <2>1
  <2>3. QED
    BY <1>1, <2>2, Zenon DEF SignupInv
<1>3. attempts[n].posts \in {0, 1}
  BY <1>2, Zenon DEF AnAttempt
<1>4. attempts[n].posts <= 1
  BY <1>3
<1>5. QED
  BY <1>2, <1>4, Zenon DEF Collecting

-----------------------------------------------------------------------------
(* The page of conversations *)

IsInbox(m) ==
  m \in [mounted : {m.mounted}, wide : {m.wide}, duties : {m.duties}, filter : {m.filter}, list : {m.list},
         selected : {m.selected}, loading : {m.loading}, thread : {m.thread}, statuses : {m.statuses},
         details : {m.details}, refetch : {m.refetch}, calls : {m.calls}]

IsLine(l) == l \in [open : {l.open}, events : {l.events}, faults : {l.faults}]

IsEntry(r) == r \in [id : {r.id}, status : {r.status}, via : {r.via}]
AreEntries(t) == \E S : t \in Seq(S) /\ \A r \in S : IsEntry(r)

IsMessage(r) == r \in [conv : {r.conv}, from : {r.from}, status : {r.status}]
AreMessages(ms) == \E S : ms \in Seq(S) /\ \A r \in S : IsMessage(r)

IsInboxDb(db) ==
  db \in [messages : {db.messages}, mine : {db.mine}, status : {db.status}] /\ AreMessages(db.messages)

(* Messages are added, and stay in the conversation they were written in.  *)
MessagesStay(ms, ms2) == \A n \in DOMAIN ms : n \in DOMAIN ms2 /\ ms2[n].conv = ms[n].conv

(* Messages of one conversation, each one once, and the answers to POSTs.  *)
IsThreadOf(t, c, ms) ==
  /\ AreEntries(t)
  /\ \A k \in DOMAIN t : t[k].via # "send" => t[k].id \in DOMAIN ms /\ ms[t[k].id].conv = c
  /\ \A j, k \in DOMAIN t : t[j].id = t[k].id => j = k

ThreadIsTrue(m, ms) ==
  AreEntries(m.thread) /\ (m.selected # None /\ ~m.loading => IsThreadOf(m.thread, m.selected, ms))

(* What is on its way to the thread: the answers to the GET of a thread,   *)
(* and the events that tell of a message.                                  *)
CallsAreTrue(calls, ms) ==
  \A c \in calls :
    /\ IsCall(c)
    /\ c.op = "open" /\ c.answer \notin {Waiting, Failed} => IsThreadOf(c.answer.result.thread, c.about, ms)

EventIsTrue(e, ms) == e.type = "new_message" => e.id \in DOMAIN ms /\ ms[e.id].conv = e.conv

EventsAreTrue(events, ms) == \E S : events \in Seq(S) /\ \A e \in S : EventIsTrue(e, ms)

InboxInv ==
  /\ IsInbox(inbox) /\ IsInboxDb(inboxDb) /\ IsLine(inboxLine)
  /\ ThreadIsTrue(inbox, inboxDb.messages)
  /\ CallsAreTrue(inboxCalls, inboxDb.messages)
  /\ EventsAreTrue(inboxLine.events, inboxDb.messages)

(* What is true of the messages stays true as more are written.            *)
LEMMA MessagesComeIn ==
  ASSUME NEW ms, NEW ms2, MessagesStay(ms, ms2)
  PROVE  /\ \A t, c : IsThreadOf(t, c, ms) => IsThreadOf(t, c, ms2)
         /\ \A m : ThreadIsTrue(m, ms) => ThreadIsTrue(m, ms2)
         /\ \A calls : CallsAreTrue(calls, ms) => CallsAreTrue(calls, ms2)
         /\ \A events : EventsAreTrue(events, ms) => EventsAreTrue(events, ms2)
<1>1. \A t, c : IsThreadOf(t, c, ms) => IsThreadOf(t, c, ms2)
  BY Zenon DEF IsThreadOf, MessagesStay
<1>2. \A e : EventIsTrue(e, ms) => EventIsTrue(e, ms2)
  BY Zenon DEF EventIsTrue, MessagesStay
<1>3. QED
  BY <1>1, <1>2, Zenon DEF ThreadIsTrue, CallsAreTrue, EventsAreTrue

LEMMA MessageStored ==
  ASSUME NEW ms, AreMessages(ms), NEW r, IsMessage(r)
  PROVE  /\ AreMessages(Append(ms, r)) /\ MessagesStay(ms, Append(ms, r))
         /\ Len(ms) + 1 \in DOMAIN Append(ms, r) /\ Append(ms, r)[Len(ms) + 1] = r
<1>1. PICK S : ms \in Seq(S) /\ \A d \in S : IsMessage(d)
  BY DEF AreMessages
<1>2. ms \in Seq(S \cup {r}) /\ \A d \in S \cup {r} : IsMessage(d)
  BY <1>1
<1>3. Append(ms, r) \in Seq(S \cup {r})
  BY <1>2
<1>4. AreMessages(Append(ms, r))
  BY <1>2, <1>3, Zenon DEF AreMessages
<1>5. MessagesStay(ms, Append(ms, r))
  BY <1>1 DEF MessagesStay
<1>6. QED
  BY <1>1, <1>4, <1>5

LEMMA MessageConfirmed ==
  ASSUME NEW ms, AreMessages(ms), NEW n \in DOMAIN ms, NEW status
  PROVE  /\ AreMessages([ms EXCEPT ![n].status = status])
         /\ MessagesStay(ms, [ms EXCEPT ![n].status = status])
<1> DEFINE r == [ms[n] EXCEPT !.status = status]
           ms2 == [ms EXCEPT ![n] = r]
<1>1. PICK S : ms \in Seq(S) /\ \A d \in S : IsMessage(d)
  BY DEF AreMessages
<1>2. IsMessage(ms[n]) /\ DOMAIN ms = 1..Len(ms) /\ Len(ms) \in Nat /\ ms \in [1..Len(ms) -> S]
  BY <1>1
<1>3. IsMessage(r) /\ r.conv = ms[n].conv
  BY <1>2 DEF IsMessage
<1>4. [ms EXCEPT ![n].status = status] = ms2
  OBVIOUS
<1> HIDE DEF r
<1>5. ms2 \in [1..Len(ms) -> S \cup {r}]
  BY <1>2
<1>6. ms2 \in Seq(S \cup {r})
  BY <1>2, <1>5
<1>7. \A d \in S \cup {r} : IsMessage(d)
  BY <1>1, <1>3
<1>8. AreMessages(ms2)
  BY <1>6, <1>7, Zenon DEF AreMessages
<1>9. MessagesStay(ms, ms2)
  BY <1>2, <1>3 DEF MessagesStay
<1>10. QED
  BY <1>4, <1>8, <1>9, Zenon

(* An entry joins the thread, or is in it.                                 *)
LEMMA AddedKeepsTheThread ==
  ASSUME AreEntries(inbox.thread), NEW n, NEW status, NEW via
  PROVE  /\ AreEntries(Added(n, status, via))
         /\ \A c, ms : /\ IsThreadOf(inbox.thread, c, ms)
                       /\ via # "send" => n \in DOMAIN ms /\ ms[n].conv = c
                       => IsThreadOf(Added(n, status, via), c, ms)
<1> DEFINE t == inbox.thread
           known == KnownStatus(n, status)
           r == [id |-> n, status |-> known, via |-> via]
           t2 == Append(t, r)
<1>1. CASE InThread(n)
  BY <1>1, Zenon DEF Added
<1>2. CASE ~InThread(n)
  <2>1. Added(n, status, via) = t2
    BY <1>2, Zenon DEF Added
  <2>2. \A k \in DOMAIN t : t[k].id # n
    BY <1>2, Zenon DEF InThread
  <2> HIDE DEF known
  <2>3. IsEntry(r) /\ r.id = n /\ r.via = via
    BY DEF IsEntry
  <2>4. AreEntries(t)
    BY Zenon
  <2> HIDE DEF r, t
  <2>5. PICK S : t \in Seq(S) /\ \A d \in S : IsEntry(d)
    BY <2>4, Zenon DEF AreEntries
  <2>6. t \in Seq(S \cup {r}) /\ \A d \in S \cup {r} : IsEntry(d)
    BY <2>3, <2>5
  <2>7. t2 \in Seq(S \cup {r})
    BY <2>6
  <2>8. AreEntries(t2)
    BY <2>6, <2>7, Zenon DEF AreEntries
  <2>9. /\ DOMAIN t2 = DOMAIN t \cup {Len(t) + 1} /\ Len(t) + 1 \notin DOMAIN t
        /\ \A k \in DOMAIN t : t2[k] = t[k]
        /\ t2[Len(t) + 1] = r
    BY <2>6
  <2> HIDE DEF t2
  <2>10. ASSUME NEW c, NEW ms, IsThreadOf(t, c, ms),
                via # "send" => n \in DOMAIN ms /\ ms[n].conv = c
         PROVE  IsThreadOf(t2, c, ms)
    <3>1. \A k \in DOMAIN t2 : t2[k].via # "send" => t2[k].id \in DOMAIN ms /\ ms[t2[k].id].conv = c
      BY <2>3, <2>9, <2>10, Zenon DEF IsThreadOf
    <3>2. \A j, k \in DOMAIN t2 : t2[j].id = t2[k].id => j = k
      BY <2>2, <2>3, <2>9, <2>10 DEF IsThreadOf
    <3>3. QED
      BY <2>8, <3>1, <3>2, Zenon DEF IsThreadOf
  <2>11. QED
    BY <2>1, <2>8, <2>10, Zenon DEF t
<1>3. QED
  BY <1>1, <1>2, Zenon

(* A confirmation changes how an entry is marked, nothing else.            *)
LEMMA MarkedKeepsTheThread ==
  ASSUME NEW t, AreEntries(t), NEW n, NEW status
  PROVE  LET t2 == [k \in DOMAIN t |-> IF t[k].id = n THEN [t[k] EXCEPT !.status = status] ELSE t[k]]
         IN /\ AreEntries(t2)
            /\ \A c, ms : IsThreadOf(t, c, ms) => IsThreadOf(t2, c, ms)
<1> DEFINE mark(r) == IF r.id = n THEN [r EXCEPT !.status = status] ELSE r
           t2 == [k \in DOMAIN t |-> IF t[k].id = n THEN [t[k] EXCEPT !.status = status] ELSE t[k]]
<1>1. PICK S : t \in Seq(S) /\ \A d \in S : IsEntry(d)
  BY Zenon DEF AreEntries
<1>2. \A d : IsEntry(d) => IsEntry(mark(d)) /\ mark(d).id = d.id /\ mark(d).via = d.via
  BY DEF IsEntry
<1>3. t2 = [k \in DOMAIN t |-> mark(t[k])]
  OBVIOUS
<1> HIDE DEF mark
<1>4. DOMAIN t = 1..Len(t) /\ Len(t) \in Nat /\ \A k \in DOMAIN t : t[k] \in S
  BY <1>1
<1> DEFINE M == {mark(d) : d \in S}
<1>5a. \A k \in DOMAIN t : mark(t[k]) \in M
  BY <1>4, Zenon
<1> HIDE DEF t2
<1>5. t2 \in [1..Len(t) -> M]
  <2> HIDE DEF M
  <2>1. QED
    BY <1>3, <1>4, <1>5a
<1>6a. \A d \in M : IsEntry(d)
  BY <1>1, <1>2, Zenon
<1>6. t2 \in Seq(M) /\ \A d \in M : IsEntry(d)
  <2> HIDE DEF M
  <2>1. QED
    BY <1>4, <1>5, <1>6a
<1>7. AreEntries(t2)
  BY <1>6, Zenon DEF AreEntries
<1>8. DOMAIN t2 = DOMAIN t /\ \A k \in DOMAIN t : t2[k].id = t[k].id /\ t2[k].via = t[k].via
  BY <1>1, <1>2, <1>3, <1>4
<1>9. \A c, ms : IsThreadOf(t, c, ms) => IsThreadOf(t2, c, ms)
  BY <1>7, <1>8, Zenon DEF IsThreadOf
<1>10. QED
  BY <1>7, <1>9, Zenon DEF t2

(* The messages of a conversation, in the order they were written.         *)
LEMMA LoadedIsOfItsConversation ==
  ASSUME AreMessages(inboxDb.messages), NEW c
  PROVE  IsThreadOf(Loaded(c), c, inboxDb.messages)
<1> DEFINE ms == inboxDb.messages
           S == MessagesOf(c)
           order == Ordered(S)
           row(n) == [id |-> n, status |-> ms[n].status, via |-> "load"]
           t == Loaded(c)
<1>1. DOMAIN ms = 1..Len(ms) /\ Len(ms) \in Nat
  BY DEF AreMessages
<1>2. S \in SUBSET Nat /\ S \in SUBSET (1..Len(ms))
  BY <1>1 DEF MessagesOf, Messages
<1>3. IsFiniteSet(1..Len(ms))
  BY <1>1, FS_Interval
<1>4. IsFiniteSet(S)
  BY <1>2, <1>3, FS_Subset, Zenon
<1>5. \A n \in S : n \in DOMAIN ms /\ ms[n].conv = c
  BY Zenon DEF MessagesOf, Messages
<1>6. t = [k \in DOMAIN order |-> row(order[k])]
  BY DEF Loaded, Messages
<1> HIDE DEF S, t
<1>7. /\ Cardinality(S) \in Nat /\ order \in [1..Cardinality(S) -> S]
      /\ \A j, k \in 1..Cardinality(S) : order[j] = order[k] => j = k
  BY <1>2, <1>4, OrderedEnumerates
<1> HIDE DEF order
<1>8. \A n : IsEntry(row(n)) /\ row(n).id = n /\ row(n).via = "load"
  BY DEF IsEntry
<1> HIDE DEF row
<1> DEFINE R == {row(n) : n \in S}
<1>9. DOMAIN t = 1..Cardinality(S) /\ \A k \in DOMAIN t : t[k] = row(order[k]) /\ order[k] \in S
  BY <1>6, <1>7
<1>10. t \in [1..Cardinality(S) -> R]
  BY <1>6, <1>7
<1>11. t \in Seq(R) /\ \A d \in R : IsEntry(d)
  BY <1>7, <1>8, <1>10
<1>12. AreEntries(t)
  BY <1>11, Zenon DEF AreEntries
<1>13. \A k \in DOMAIN t : t[k].id = order[k] /\ t[k].via = "load"
  <2> HIDE DEF R
  <2>1. QED
    BY <1>8, <1>9, Zenon
<1>14. \A k \in DOMAIN t : t[k].id \in DOMAIN ms /\ ms[t[k].id].conv = c
  <2> HIDE DEF R
  <2>1. QED
    BY <1>5, <1>9, <1>13, Zenon
<1>15. \A j, k \in DOMAIN t : t[j].id = t[k].id => j = k
  <2> HIDE DEF R
  <2>1. QED
    BY <1>7, <1>9, <1>13
<1>16. QED
  BY <1>12, <1>14, <1>15, Zenon DEF IsThreadOf, t

LEMMA NothingIsTrue ==
  /\ AreEntries(<<>>) /\ AreMessages(<<>>)
  /\ \A ms : EventsAreTrue(<<>>, ms) /\ CallsAreTrue({}, ms)
<1> DEFINE none == {}
           empty == <<>>
<1>1. empty \in Seq(none) /\ \A r : r \notin none
  OBVIOUS
<1> HIDE DEF none, empty
<1>2. AreEntries(empty)
  BY <1>1, Zenon DEF AreEntries
<1>3. AreMessages(empty)
  BY <1>1, Zenon DEF AreMessages
<1>4. \A ms : EventsAreTrue(empty, ms) /\ CallsAreTrue(none, ms)
  BY <1>1, Zenon DEF EventsAreTrue, CallsAreTrue
<1>5. QED
  BY <1>2, <1>3, <1>4, Zenon DEF none, empty

LEMMA ThreadStays ==
  ASSUME NEW m, NEW m2, NEW ms, ThreadIsTrue(m, ms), m2.thread = m.thread,
         m2.selected = None \/ m2.loading \/ (m2.selected = m.selected /\ m2.loading = m.loading)
  PROVE  ThreadIsTrue(m2, ms)
  BY Zenon DEF ThreadIsTrue

LEMMA CallsStayTrue ==
  ASSUME NEW calls, NEW ms, CallsAreTrue(calls, ms)
  PROVE  /\ \A some \in SUBSET calls : CallsAreTrue(some, ms)
         /\ \A op, about : CallsAreTrue(Send(calls, op, about), ms)
         /\ \A call, op, about : CallsAreTrue(Chain(calls, call, op, about), ms)
<1>1. ASSUME NEW some \in SUBSET calls
      PROVE  CallsAreTrue(some, ms)
  BY <1>1, Zenon DEF CallsAreTrue
<1>2. ASSUME NEW some, CallsAreTrue(some, ms), NEW op, NEW about
      PROVE  CallsAreTrue(Send(some, op, about), ms)
  <2>1. \A c \in Send(some, op, about) : c \in some \/ (IsCall(c) /\ c.answer = Waiting)
    BY SendAddsWaiting
  <2>2. Waiting \in {Waiting, Failed}
    OBVIOUS
  <2>3. QED
    BY <1>2, <2>1, <2>2, Zenon DEF CallsAreTrue
<1>3. \A call : calls \ {call} \in SUBSET calls
  OBVIOUS
<1>4. QED
  BY <1>1, <1>2, <1>3, Zenon DEF Chain

LEMMA AnsweredStaysTrue ==
  ASSUME NEW calls, NEW ms, CallsAreTrue(calls, ms), NEW call \in calls, NEW answer,
         call.op = "open" /\ answer \notin {Waiting, Failed} => IsThreadOf(answer.result.thread, call.about, ms)
  PROVE  CallsAreTrue(Answered(calls, call, answer), ms)
<1>1. IsCall(call)
  BY Zenon DEF CallsAreTrue
<1>2. \A c \in Answered(calls, call, answer) :
        \/ c \in calls
        \/ IsCall(c) /\ c.op = call.op /\ c.about = call.about /\ c.answer = answer
  BY <1>1, AnsweredReplaces
<1>3. ASSUME NEW c, IsCall(c), c.op = call.op, c.about = call.about, c.answer = answer,
             c.op = "open", c.answer \notin {Waiting, Failed}
      PROVE  IsThreadOf(c.answer.result.thread, c.about, ms)
  <2>1. IsThreadOf(answer.result.thread, call.about, ms)
    BY <1>3, Zenon
  <2>2. QED
    BY <1>3, <2>1
<1>4. QED
  BY <1>2, <1>3, Zenon DEF CallsAreTrue

LEMMA EventsComeIn ==
  ASSUME NEW events, NEW ms, EventsAreTrue(events, ms)
  PROVE  /\ \A e : EventIsTrue(e, ms) => EventsAreTrue(Append(events, e), ms)
         /\ events # <<>> => EventIsTrue(Head(events), ms) /\ EventsAreTrue(Tail(events), ms)
         /\ EventsAreTrue(<<>>, ms)
<1>1. PICK S : events \in Seq(S) /\ \A e \in S : EventIsTrue(e, ms)
  BY Zenon DEF EventsAreTrue
<1>2. ASSUME NEW e, EventIsTrue(e, ms)
      PROVE  EventsAreTrue(Append(events, e), ms)
  <2>1. Append(events, e) \in Seq(S \cup {e}) /\ \A d \in S \cup {e} : EventIsTrue(d, ms)
    BY <1>1, <1>2
  <2>2. QED
    BY <2>1, Zenon DEF EventsAreTrue
<1>3. <<>> \in Seq(S)
  OBVIOUS
<1>4. events # <<>> => Head(events) \in S /\ Tail(events) \in Seq(S)
  BY <1>1
<1>5. QED
  BY <1>1, <1>2, <1>3, <1>4, Zenon DEF EventsAreTrue

LEMMA PushedIsTrue ==
  ASSUME IsLine(inboxLine), NEW ms, EventsAreTrue(inboxLine.events, ms), NEW type, NEW c, NEW n, NEW status,
         type = "new_message" => n \in DOMAIN ms /\ ms[n].conv = c,
         Push(type, c, n, status)
  PROVE  IsLine(inboxLine') /\ EventsAreTrue(inboxLine'.events, ms)
<1> DEFINE e == [type |-> type, conv |-> c, id |-> n, status |-> status]
           events == inboxLine.events
<1>1. e.type = type /\ e.conv = c /\ e.id = n
  OBVIOUS
<1> HIDE DEF e
<1>2. EventIsTrue(e, ms)
  BY <1>1, Zenon DEF EventIsTrue
<1>3. EventsAreTrue(Append(events, e), ms)
  BY <1>2, EventsComeIn, Zenon
<1>4. inboxLine' = IF inboxLine.open THEN [inboxLine EXCEPT !.events = Append(@, e)] ELSE inboxLine
  BY Zenon DEF Push, e
<1>5. CASE inboxLine.open
  <2>1. inboxLine' = [inboxLine EXCEPT !.events = Append(events, e)]
    BY <1>4, <1>5
  <2> DEFINE more == Append(events, e)
  <2> HIDE DEF more
  <2>2. IsLine(inboxLine') /\ inboxLine'.events = more
    BY <2>1 DEF more, IsLine
  <2>3. QED
    BY <1>3, <2>2, Zenon DEF more
<1>6. CASE ~inboxLine.open
  BY <1>4, <1>6
<1>7. QED
  BY <1>5, <1>6

LEMMA InboxInvNext ==
  ASSUME IsInbox(inbox'), IsInboxDb(inboxDb'), IsLine(inboxLine'), ThreadIsTrue(inbox', inboxDb'.messages),
         CallsAreTrue(inboxCalls', inboxDb'.messages), EventsAreTrue(inboxLine'.events, inboxDb'.messages)
  PROVE  InboxInv'
  BY Zenon DEF InboxInv

(* What the operator does: a thread stays, is left or is asked for.        *)
LEMMA ActKeepsThread ==
  ASSUME InboxInv, NEW m, IsInbox(m), inbox' = m, m.thread = inbox.thread,
         m.selected = None \/ m.loading \/ (m.selected = inbox.selected /\ m.loading = inbox.loading),
         CallsAreTrue(inboxCalls', inboxDb.messages), UNCHANGED <<inboxDb, inboxLine>>
  PROVE  InboxInv'
<1>1. ThreadIsTrue(m, inboxDb.messages)
  BY ThreadStays, Zenon DEF InboxInv
<1>2. QED
  BY <1>1, InboxInvNext, Zenon DEF InboxInv

LEMMA OperatorKeepsThread ==
  ASSUME InboxInv,
         \/ \E f \in Filters : SetFilter(f)
         \/ RefetchFires \/ BackToList
         \/ \E c \in Convs : SelectConversation(c)
         \/ \E mode \in {"message", "whisper"} : HandleSendMessage(mode)
         \/ \E verb \in {"resolve", "reopen"} : HandleStatusChange(verb)
         \/ HandleAssignToMe \/ HandleAddTag
  PROVE  InboxInv'
<1> DEFINE n == inbox.calls + 1
<1> HIDE DEF n
<1>0. /\ IsInbox(inbox) /\ CallsAreTrue(inboxCalls, inboxDb.messages)
      /\ \A op, about : CallsAreTrue(Send(inboxCalls, op, about), inboxDb.messages)
  BY CallsStayTrue, Zenon DEF InboxInv
<1>1. ASSUME NEW f \in Filters, SetFilter(f)
      PROVE  InboxInv'
  <2> DEFINE m == [inbox EXCEPT !.filter = f, !.calls = n]
  <2>1. inbox' = m
    BY <1>0, <1>1 DEF SetFilter, Counted, IsInbox, n
  <2>2. IsInbox(m) /\ m.thread = inbox.thread /\ m.selected = inbox.selected /\ m.loading = inbox.loading
    BY <1>0 DEF IsInbox
  <2> HIDE DEF m
  <2>3. inboxCalls' = Send(inboxCalls, "list", f) /\ UNCHANGED <<inboxDb, inboxLine>>
    BY <1>1, Zenon DEF SetFilter
  <2>4. QED
    BY <1>0, <2>1, <2>2, <2>3, ActKeepsThread
<1>2. CASE RefetchFires
  <2> DEFINE m == [inbox EXCEPT !.refetch = FALSE, !.calls = n]
  <2>1. inbox' = m
    BY <1>0, <1>2 DEF RefetchFires, Counted, IsInbox, n
  <2>2. IsInbox(m) /\ m.thread = inbox.thread /\ m.selected = inbox.selected /\ m.loading = inbox.loading
    BY <1>0 DEF IsInbox
  <2> HIDE DEF m
  <2>3. inboxCalls' = Send(inboxCalls, "list", inbox.filter) /\ UNCHANGED <<inboxDb, inboxLine>>
    BY <1>2, Zenon DEF RefetchFires
  <2>4. QED
    BY <1>0, <2>1, <2>2, <2>3, ActKeepsThread
<1>3. CASE BackToList
  <2> DEFINE m == [inbox EXCEPT !.selected = None]
  <2>1. inbox' = m /\ inboxCalls' = inboxCalls /\ UNCHANGED <<inboxDb, inboxLine>>
    BY <1>3, Zenon DEF BackToList
  <2>2. IsInbox(m) /\ m.thread = inbox.thread /\ m.selected = None
    BY <1>0 DEF IsInbox
  <2> HIDE DEF m
  <2>3. QED
    BY <1>0, <2>1, <2>2, ActKeepsThread
<1>4. ASSUME NEW c \in Convs, SelectConversation(c)
      PROVE  InboxInv'
  <2> DEFINE m == [inbox EXCEPT !.selected = c, !.loading = TRUE, !.details = None, !.calls = n]
  <2>1. inbox' = m
    BY <1>0, <1>4 DEF SelectConversation, Opening, Counted, IsInbox, n
  <2>2. IsInbox(m) /\ m.thread = inbox.thread /\ m.loading
    BY <1>0 DEF IsInbox
  <2> HIDE DEF m
  <2>3. inboxCalls' = Send(inboxCalls, "open", c) /\ UNCHANGED <<inboxDb, inboxLine>>
    BY <1>4, Zenon DEF SelectConversation
  <2>4. QED
    BY <1>0, <2>1, <2>2, <2>3, ActKeepsThread
<1>5. ASSUME NEW op, inbox' = Counted(inbox), inboxCalls' = Send(inboxCalls, op, inbox.selected),
             UNCHANGED <<inboxDb, inboxLine>>
      PROVE  InboxInv'
  <2> DEFINE m == [inbox EXCEPT !.calls = n]
  <2>1. inbox' = m
    BY <1>5 DEF Counted, n
  <2>2. IsInbox(m) /\ m.thread = inbox.thread /\ m.selected = inbox.selected /\ m.loading = inbox.loading
    BY <1>0 DEF IsInbox
  <2> HIDE DEF m
  <2>3. QED
    BY <1>0, <1>5, <2>1, <2>2, ActKeepsThread
<1>6. ASSUME NEW mode, HandleSendMessage(mode)
      PROVE  InboxInv'
  BY <1>5, <1>6, Zenon DEF HandleSendMessage
<1>7. ASSUME NEW verb, HandleStatusChange(verb)
      PROVE  InboxInv'
  BY <1>5, <1>7, Zenon DEF HandleStatusChange
<1>8. CASE HandleAssignToMe
  BY <1>5, <1>8, Zenon DEF HandleAssignToMe
<1>9. CASE HandleAddTag
  BY <1>5, <1>9, Zenon DEF HandleAddTag
<1>10. QED
  BY <1>1, <1>2, <1>3, <1>4, <1>6, <1>7, <1>8, <1>9, Zenon

(* What an answer does: the messages of a conversation are shown while it  *)
(* is the one open, and a message just sent joins what is shown.           *)
LEMMA AnswersKeepThread ==
  ASSUME InboxInv, NEW call \in inboxCalls,
         \/ InboxListArrives(call) \/ ThreadArrives(call) \/ MessageSent(call)
         \/ WriteAnswered(call) \/ DetailsArrive(call)
  PROVE  InboxInv'
<1> DEFINE ms == inboxDb.messages
<1>0. /\ IsInbox(inbox) /\ CallsAreTrue(inboxCalls, ms)
      /\ CallsAreTrue(inboxCalls \ {call}, ms)
      /\ \A op, about : CallsAreTrue(Chain(inboxCalls, call, op, about), ms)
  <2>1. inboxCalls \ {call} \in SUBSET inboxCalls /\ CallsAreTrue(inboxCalls, ms)
    BY Zenon DEF InboxInv
  <2>2. QED
    BY <2>1, CallsStayTrue, Zenon DEF InboxInv
<1>1. CASE InboxListArrives(call)
  <2>1. CASE call.answer = Failed
    <3>1. inbox' = inbox /\ inboxCalls' = inboxCalls \ {call} /\ UNCHANGED <<inboxDb, inboxLine>>
      BY <1>1, <2>1, Zenon DEF InboxListArrives
    <3>2. QED
      BY <1>0, <3>1, ActKeepsThread
  <2>2. CASE call.answer # Failed
    <3> DEFINE rows == call.answer.result.rows
               ui == [inbox EXCEPT !.list = rows]
    <3>1. \/ \E c \in rows : inbox' = Opening(ui, c) /\ inboxCalls' = Chain(inboxCalls, call, "open", c)
          \/ inbox' = ui /\ inboxCalls' = inboxCalls \ {call}
      BY <1>1, <2>2, Zenon DEF InboxListArrives
    <3>2. UNCHANGED <<inboxDb, inboxLine>>
      BY <1>1, Zenon DEF InboxListArrives
    <3> HIDE DEF rows
    <3>3. ASSUME NEW c, inbox' = Opening(ui, c), inboxCalls' = Chain(inboxCalls, call, "open", c)
          PROVE  InboxInv'
      <4> DEFINE m == [inbox EXCEPT !.list = rows, !.selected = c, !.loading = TRUE, !.details = None]
      <4>1. inbox' = m
        BY <1>0, <3>3 DEF Opening, IsInbox
      <4>2. IsInbox(m) /\ m.thread = inbox.thread /\ m.loading
        BY <1>0 DEF IsInbox
      <4> HIDE DEF m
      <4>3. QED
        BY <1>0, <3>2, <3>3, <4>1, <4>2, ActKeepsThread
    <3>4. CASE inbox' = ui /\ inboxCalls' = inboxCalls \ {call}
      <4>1. IsInbox(ui) /\ ui.thread = inbox.thread /\ ui.selected = inbox.selected /\ ui.loading = inbox.loading
        BY <1>0 DEF IsInbox
      <4> HIDE DEF ui
      <4>2. QED
        BY <1>0, <3>2, <3>4, <4>1, ActKeepsThread
    <3>5. QED
      BY <3>1, <3>3, <3>4, Zenon
  <2>3. QED
    BY <2>1, <2>2
<1>2. CASE DetailsArrive(call)
  <2> DEFINE ui == [inbox EXCEPT !.details = call.about]
  <2>1. (inbox' = inbox \/ inbox' = ui) /\ inboxCalls' = inboxCalls \ {call} /\ UNCHANGED <<inboxDb, inboxLine>>
    BY <1>2, Zenon DEF DetailsArrive
  <2>2. IsInbox(ui) /\ ui.thread = inbox.thread /\ ui.selected = inbox.selected /\ ui.loading = inbox.loading
    BY <1>0 DEF IsInbox
  <2> HIDE DEF ui
  <2>3. QED
    BY <1>0, <2>1, <2>2, ActKeepsThread
<1>3. CASE WriteAnswered(call)
  <2>1. /\ inboxCalls' = Chain(inboxCalls, call, "details", call.about) \/ inboxCalls' = inboxCalls \ {call}
        /\ inbox' = inbox /\ UNCHANGED <<inboxDb, inboxLine>>
    BY <1>3, Zenon DEF WriteAnswered
  <2>2. CallsAreTrue(inboxCalls', ms)
    BY <1>0, <2>1, Zenon
  <2>3. QED
    BY <1>0, <2>1, <2>2, ActKeepsThread
<1>4. ASSUME NEW t, inbox' = [inbox EXCEPT !.thread = t] \/ inbox' = [inbox EXCEPT !.thread = t, !.loading = FALSE]
                  \/ inbox' = [inbox EXCEPT !.thread = t, !.loading = FALSE, !.details = call.about],
             AreEntries(t), inbox.selected # None => \/ IsThreadOf(t, inbox.selected, ms)
                                                     \/ inbox.loading /\ inbox' = [inbox EXCEPT !.thread = t],
             inboxCalls' = inboxCalls \ {call}, UNCHANGED <<inboxDb, inboxLine>>
      PROVE  InboxInv'
  <2>1. IsInbox(inbox') /\ inbox'.thread = t /\ inbox'.selected = inbox.selected
    BY <1>0, <1>4 DEF IsInbox
  <2>2. inbox' = [inbox EXCEPT !.thread = t] => inbox'.loading = inbox.loading
    BY <1>0 DEF IsInbox
  <2>3. ThreadIsTrue(inbox', ms)
    BY <1>4, <2>1, <2>2, Zenon DEF ThreadIsTrue
  <2>4. QED
    BY <1>0, <1>4, <2>1, <2>3, InboxInvNext, Zenon DEF InboxInv
<1>5. CASE ThreadArrives(call)
  <2>0. /\ inboxCalls' = inboxCalls \ {call} /\ UNCHANGED <<inboxDb, inboxLine>>
        /\ call.op = "open" /\ call.answer # Waiting
    BY <1>5 DEF ThreadArrives, Done
  <2>1. CASE inbox.selected # call.about
    <3>1. inbox' = inbox
      BY <1>5, <2>1, Zenon DEF ThreadArrives
    <3>2. QED
      BY <1>0, <2>0, <3>1, ActKeepsThread
  <2>2. CASE inbox.selected = call.about /\ call.answer = Failed
    <3>1. inbox' = [inbox EXCEPT !.thread = <<>>, !.loading = FALSE]
      BY <1>5, <2>2 DEF ThreadArrives
    <3>2. <<>> \in Seq({}) /\ DOMAIN <<>> = {}
      OBVIOUS
    <3>3. AreEntries(<<>>)
      BY <3>2, Zenon DEF AreEntries
    <3>4. IsThreadOf(<<>>, inbox.selected, ms)
      BY <3>2, <3>3, Zenon DEF IsThreadOf
    <3>5. QED
      BY <1>4, <2>0, <3>1, <3>3, <3>4, Zenon
  <2>3. CASE inbox.selected = call.about /\ call.answer # Failed
    <3> DEFINE t == call.answer.result.thread
    <3>1. inbox' = [inbox EXCEPT !.thread = t, !.loading = FALSE, !.details = call.about]
      BY <1>5, <2>3 DEF ThreadArrives
    <3>2. call.answer \notin {Waiting, Failed}
      BY <2>0, <2>3
    <3>3. IsThreadOf(t, call.about, ms)
      BY <1>0, <2>0, <3>2, Zenon DEF CallsAreTrue
    <3>4. IsThreadOf(t, inbox.selected, ms)
      BY <2>3, <3>3
    <3>5. AreEntries(t)
      BY <3>4, Zenon DEF IsThreadOf
    <3> HIDE DEF t
    <3>6. QED
      BY <1>4, <2>0, <3>1, <3>4, <3>5, Zenon
  <2>4. QED
    BY <2>1, <2>2, <2>3
<1>6. CASE MessageSent(call)
  <2>0. inboxCalls' = inboxCalls \ {call} /\ UNCHANGED <<inboxDb, inboxLine>>
    BY <1>6, Zenon DEF MessageSent
  <2>1. CASE call.answer = Failed
    <3>1. inbox' = inbox
      BY <1>6, <2>1, Zenon DEF MessageSent
    <3>2. QED
      BY <1>0, <2>0, <3>1, ActKeepsThread
  <2>2. CASE call.answer # Failed
    <3> DEFINE t == Added(call.answer.result.id, "pending", "send")
    <3>1. inbox' = [inbox EXCEPT !.thread = t]
      BY <1>6, <2>2, Zenon DEF MessageSent
    <3>2. AreEntries(inbox.thread) /\ (inbox.selected # None /\ ~inbox.loading
                                         => IsThreadOf(inbox.thread, inbox.selected, ms))
      BY Zenon DEF InboxInv, ThreadIsTrue
    <3>3. /\ AreEntries(t)
          /\ IsThreadOf(inbox.thread, inbox.selected, ms) => IsThreadOf(t, inbox.selected, ms)
      BY <3>2, AddedKeepsTheThread, Zenon
    <3> HIDE DEF t
    <3>4. inbox.selected # None => \/ IsThreadOf(t, inbox.selected, ms)
                                   \/ inbox.loading /\ inbox' = [inbox EXCEPT !.thread = t]
      BY <3>1, <3>2, <3>3, Zenon
    <3>5. QED
      BY <1>4, <2>0, <3>1, <3>3, <3>4, Zenon
  <2>3. QED
    BY <2>1, <2>2
<1>7. QED
  BY <1>1, <1>2, <1>3, <1>5, <1>6

(* An event that tells of a message tells which conversation it is in, so  *)
(* what joins the thread belongs to the conversation that is open.         *)
LEMMA EventsKeepThread ==
  ASSUME InboxInv, EventArrives \/ SocketLost \/ SocketReopens
  PROVE  InboxInv'
<1> DEFINE ms == inboxDb.messages
           events == inboxLine.events
<1>0. IsInbox(inbox) /\ IsLine(inboxLine) /\ EventsAreTrue(events, ms) /\ EventsAreTrue(<<>>, ms)
  BY EventsComeIn, Zenon DEF InboxInv
<1>1. CASE SocketLost
  <2> DEFINE n == inboxLine.faults + 1
  <2> HIDE DEF n
  <2>1. inboxLine' = [open |-> FALSE, events |-> <<>>, faults |-> n] /\ UNCHANGED <<inbox, inboxCalls, inboxDb>>
    BY <1>1, Zenon DEF SocketLost, n
  <2>2. IsLine(inboxLine') /\ inboxLine'.events = <<>>
    BY <2>1 DEF IsLine
  <2>3. EventsAreTrue(inboxLine'.events, ms)
    BY <1>0, <2>2, Zenon
  <2>4. QED
    BY <2>1, <2>2, <2>3, InboxInvNext DEF InboxInv
<1>2. CASE SocketReopens
  <2>1. inboxLine' = [inboxLine EXCEPT !.open = TRUE] /\ UNCHANGED <<inbox, inboxCalls, inboxDb>>
    BY <1>2, Zenon DEF SocketReopens
  <2>2. IsLine(inboxLine') /\ inboxLine'.events = events
    BY <1>0, <2>1 DEF IsLine
  <2>3. QED
    BY <1>0, <2>1, <2>2, InboxInvNext DEF InboxInv
<1>3. CASE EventArrives
  <2> DEFINE e == Head(events)
             rest == Tail(events)
  <2>1. events # <<>> /\ inboxLine' = [inboxLine EXCEPT !.events = rest] /\ UNCHANGED <<inboxCalls, inboxDb>>
    BY <1>3 DEF EventArrives
  <2>2. EventIsTrue(e, ms) /\ EventsAreTrue(rest, ms)
    BY <1>0, <2>1, EventsComeIn, Zenon
  <2>3. \/ e.type = "new_message" /\ NewMessage(e)
        \/ MessageStatus(e)
        \/ inbox' = [inbox EXCEPT !.refetch = TRUE]
    BY <1>3, Zenon DEF EventArrives
  <2> HIDE DEF e, rest
  <2>4. IsLine(inboxLine') /\ inboxLine'.events = rest
    BY <1>0, <2>1 DEF IsLine
  <2>5. AreEntries(inbox.thread) /\ (inbox.selected # None /\ ~inbox.loading
                                       => IsThreadOf(inbox.thread, inbox.selected, ms))
    BY Zenon DEF InboxInv, ThreadIsTrue
  <2>6. ASSUME IsInbox(inbox'), inbox'.selected = inbox.selected, inbox'.loading = inbox.loading,
               AreEntries(inbox'.thread),
               IsThreadOf(inbox.thread, inbox.selected, ms) => IsThreadOf(inbox'.thread, inbox.selected, ms)
        PROVE  InboxInv'
    <3>1. ThreadIsTrue(inbox', ms)
      BY <2>5, <2>6, Zenon DEF ThreadIsTrue
    <3>2. CallsAreTrue(inboxCalls', ms) /\ IsInboxDb(inboxDb') /\ ms' = ms
      BY <2>1, Zenon DEF InboxInv
    <3>3. EventsAreTrue(inboxLine'.events, ms)
      BY <2>2, <2>4, Zenon
    <3>4. QED
      BY <2>4, <2>6, <3>1, <3>2, <3>3, InboxInvNext, Zenon
  <2>7. CASE e.type = "new_message" /\ NewMessage(e)
    <3> DEFINE t == IF e.conv = inbox.selected THEN Added(e.id, e.status, "event") ELSE inbox.thread
               refetch == inbox.refetch \/ e.conv \notin inbox.list
    <3>1. inbox' = [inbox EXCEPT !.thread = t, !.refetch = refetch]
      BY <2>7, Zenon DEF NewMessage
    <3>2. AreEntries(t) /\ (IsThreadOf(inbox.thread, inbox.selected, ms) => IsThreadOf(t, inbox.selected, ms))
      <4>1. CASE e.conv = inbox.selected
        <5>1. e.id \in DOMAIN ms /\ ms[e.id].conv = inbox.selected
          BY <2>2, <2>7, <4>1, Zenon DEF EventIsTrue
        <5>2. t = Added(e.id, e.status, "event")
          BY <4>1, Zenon
        <5>3. QED
          BY <2>5, <5>1, <5>2, AddedKeepsTheThread, Zenon
      <4>2. CASE e.conv # inbox.selected
        <5>1. t = inbox.thread
          BY <4>2, Zenon
        <5>2. QED
          BY <2>5, <5>1, Zenon
      <4>3. QED
        BY <4>1, <4>2
    <3> HIDE DEF t, refetch
    <3>3. IsInbox(inbox') /\ inbox'.selected = inbox.selected /\ inbox'.loading = inbox.loading /\ inbox'.thread = t
      BY <1>0, <3>1 DEF IsInbox
    <3>4. QED
      BY <2>6, <3>2, <3>3
  <2>8. CASE MessageStatus(e)
    <3>1. CASE e.conv # inbox.selected
      <4>1. inbox' = inbox
        BY <2>8, <3>1, Zenon DEF MessageStatus
      <4>2. QED
        BY <1>0, <2>5, <2>6, <4>1
    <3>2. CASE e.conv = inbox.selected
      <4> DEFINE was == inbox.thread
                 t == [k \in DOMAIN was |-> IF was[k].id = e.id THEN [was[k] EXCEPT !.status = e.status] ELSE was[k]]
                 known == inbox.statuses \cup {<<e.id, e.status>>}
      <4>1. inbox' = [inbox EXCEPT !.statuses = known, !.thread = t]
        BY <2>8, <3>2, Zenon DEF MessageStatus
      <4>2. AreEntries(t) /\ \A c : IsThreadOf(was, c, ms) => IsThreadOf(t, c, ms)
        BY <2>5, MarkedKeepsTheThread, Zenon
      <4> HIDE DEF t, known
      <4>3. IsInbox(inbox') /\ inbox'.selected = inbox.selected /\ inbox'.loading = inbox.loading /\ inbox'.thread = t
        BY <1>0, <4>1 DEF IsInbox
      <4>4. QED
        BY <2>6, <4>2, <4>3
    <3>3. QED
      BY <3>1, <3>2
  <2>9. CASE inbox' = [inbox EXCEPT !.refetch = TRUE]
    <3>1. /\ IsInbox(inbox') /\ inbox'.selected = inbox.selected /\ inbox'.loading = inbox.loading
          /\ inbox'.thread = inbox.thread
      BY <1>0, <2>9 DEF IsInbox
    <3>2. QED
      BY <2>5, <2>6, <3>1
  <2>10. QED
    BY <2>3, <2>7, <2>8, <2>9
<1>4. QED
  BY <1>1, <1>2, <1>3

(* The server: what is stored stays where it was written, and a thread is  *)
(* read as it stands.                                                      *)
LEMMA ServerKeepsThread ==
  ASSUME InboxInv,
         \/ \E call \in inboxCalls : InboxServer(call) \/ InboxCallFails(call)
         \/ \E c \in Convs : ContactWrites(c)
         \/ \E n \in 1..MaxMessages : ProviderConfirms(n)
         \/ LeaveInbox
  PROVE  InboxInv'
<1> DEFINE ms == inboxDb.messages
           ms2 == inboxDb'.messages
           events == inboxLine.events
<1>0. /\ IsInbox(inbox) /\ IsInboxDb(inboxDb) /\ AreMessages(ms) /\ IsLine(inboxLine)
      /\ ThreadIsTrue(inbox, ms) /\ CallsAreTrue(inboxCalls, ms) /\ EventsAreTrue(events, ms)
  BY Zenon DEF InboxInv, IsInboxDb
<1>1. ASSUME NEW call \in inboxCalls, ServerReads(call), call.op \in {"list", "open", "details"}
      PROVE  InboxInv'
  <2> DEFINE answer == CASE call.op = "list" -> Ok([rows |-> {c \in Convs : Matches(c, call.about)}])
                         [] call.op = "open" -> Ok([thread |-> Loaded(call.about)])
                         [] OTHER -> Ok([done |-> TRUE])
  <2>1. inboxCalls' = Answered(inboxCalls, call, answer) /\ UNCHANGED <<inbox, inboxDb, inboxLine>>
    BY <1>1, Zenon DEF ServerReads
  <2>2. ASSUME call.op = "open"
        PROVE  IsThreadOf(answer.result.thread, call.about, ms)
    <3> DEFINE result == [thread |-> Loaded(call.about)]
    <3>1. answer = Ok(result)
      BY <2>2
    <3>2. answer.result = result /\ result.thread = Loaded(call.about)
      BY <3>1, AnswersDiffer
    <3>3. QED
      BY <1>0, <3>2, LoadedIsOfItsConversation
  <2> HIDE DEF answer
  <2>3. CallsAreTrue(inboxCalls', ms)
    BY <1>0, <2>1, <2>2, AnsweredStaysTrue, Zenon
  <2>4. QED
    BY <1>0, <2>1, <2>3, InboxInvNext
<1>2. ASSUME IsInboxDb(inboxDb'), MessagesStay(ms, ms2), CallsAreTrue(inboxCalls', ms2),
             IsLine(inboxLine'), EventsAreTrue(inboxLine'.events, ms2), UNCHANGED inbox
      PROVE  InboxInv'
  <2>1. ThreadIsTrue(inbox, ms2)
    BY <1>0, <1>2, MessagesComeIn, Zenon
  <2>2. QED
    BY <1>0, <1>2, <2>1, InboxInvNext
<1>3. ASSUME NEW c, NEW from, inboxDb' = [inboxDb EXCEPT !.messages = Stored(c, from)],
             Push("new_message", c, Len(ms) + 1, "pending")
      PROVE  /\ IsInboxDb(inboxDb') /\ MessagesStay(ms, ms2)
             /\ IsLine(inboxLine') /\ EventsAreTrue(inboxLine'.events, ms2)
  <2> DEFINE r == [conv |-> c, from |-> from, status |-> "pending"]
             more == Append(ms, r)
  <2>1. IsMessage(r) /\ r.conv = c
    BY DEF IsMessage
  <2>2. inboxDb' = [inboxDb EXCEPT !.messages = more]
    BY <1>3, Zenon DEF Stored, Messages
  <2> HIDE DEF r
  <2>3. AreMessages(more) /\ MessagesStay(ms, more) /\ Len(ms) + 1 \in DOMAIN more /\ more[Len(ms) + 1] = r
    BY <1>0, <2>1, MessageStored
  <2> DEFINE n == Len(ms) + 1
  <2> HIDE DEF more
  <2>4. inboxDb' \in [messages : {inboxDb'.messages}, mine : {inboxDb'.mine}, status : {inboxDb'.status}]
        /\ ms2 = more
    BY <1>0, <2>2 DEF IsInboxDb
  <2>5. EventsAreTrue(events, more)
    BY <1>0, <2>3, MessagesComeIn, Zenon
  <2>6. n \in DOMAIN more /\ more[n].conv = c
    BY <2>1, <2>3
  <2> HIDE DEF n
  <2>7. Push("new_message", c, n, "pending")
    BY <1>3, Zenon DEF n
  <2>8. IsLine(inboxLine') /\ EventsAreTrue(inboxLine'.events, more)
    BY <1>0, <2>5, <2>6, <2>7, PushedIsTrue
  <2>9. QED
    BY <2>3, <2>4, <2>8 DEF IsInboxDb
<1>4. ASSUME NEW call \in inboxCalls, ServerSends(call), call.op = "send"
      PROVE  InboxInv'
  <2> DEFINE answer == Ok([id |-> Len(Messages) + 1])
  <2>1. /\ inboxDb' = [inboxDb EXCEPT !.messages = Stored(call.about, "user")]
        /\ inboxCalls' = Answered(inboxCalls, call, answer) /\ UNCHANGED inbox
        /\ Push("new_message", call.about, Len(ms) + 1, "pending")
    BY <1>4, Zenon DEF ServerSends, Messages
  <2>2. /\ IsInboxDb(inboxDb') /\ MessagesStay(ms, ms2)
        /\ IsLine(inboxLine') /\ EventsAreTrue(inboxLine'.events, ms2)
    BY <1>3, <2>1, Zenon
  <2> HIDE DEF answer
  <2>3. CallsAreTrue(inboxCalls, ms2)
    BY <1>0, <2>2, MessagesComeIn, Zenon
  <2>4. CallsAreTrue(inboxCalls', ms2)
    BY <1>4, <2>1, <2>3, AnsweredStaysTrue
  <2>5. QED
    BY <1>2, <2>1, <2>2, <2>4
<1>5. ASSUME NEW call \in inboxCalls, ServerUpdates(call), call.op \in {"resolve", "reopen", "assign", "tag"}
      PROVE  InboxInv'
  <2> DEFINE answer == Ok([done |-> TRUE])
             type == IF call.op = "assign" THEN "assigned_changed" ELSE "status_changed"
  <2>1. /\ inboxCalls' = Answered(inboxCalls, call, answer) /\ UNCHANGED inbox
        /\ UNCHANGED inboxLine \/ Push(type, call.about, 0, "pending")
    BY <1>5, Zenon DEF ServerUpdates
  <2>2. type # "new_message"
    OBVIOUS
  <2> HIDE DEF type, answer
  <2>3. \/ inboxDb' = [inboxDb EXCEPT !.status[call.about] = "resolved"]
        \/ inboxDb' = [inboxDb EXCEPT !.status[call.about] = "open"]
        \/ inboxDb' = [inboxDb EXCEPT !.mine[call.about] = TRUE]
        \/ inboxDb' = inboxDb
    BY <1>5, Zenon DEF ServerUpdates
  <2>4. inboxDb' \in [messages : {inboxDb'.messages}, mine : {inboxDb'.mine}, status : {inboxDb'.status}]
        /\ ms2 = ms
    BY <1>0, <2>3 DEF IsInboxDb
  <2>5. IsInboxDb(inboxDb') /\ MessagesStay(ms, ms2)
    BY <1>0, <2>4 DEF IsInboxDb, MessagesStay
  <2>6. IsLine(inboxLine') /\ EventsAreTrue(inboxLine'.events, ms2)
    <3>1. CASE UNCHANGED inboxLine
      BY <1>0, <2>4, <3>1
    <3>2. CASE Push(type, call.about, 0, "pending")
      <4>1. IsLine(inboxLine') /\ EventsAreTrue(inboxLine'.events, ms)
        BY <1>0, <2>2, <3>2, PushedIsTrue
      <4>2. QED
        BY <2>4, <4>1
    <3>3. QED
      BY <2>1, <3>1, <3>2
  <2>7. CallsAreTrue(inboxCalls', ms2)
    <3>1. call.op # "open"
      BY <1>5
    <3>2. CallsAreTrue(inboxCalls', ms)
      BY <1>0, <2>1, <3>1, AnsweredStaysTrue
    <3>3. QED
      BY <2>4, <3>2
  <2>8. QED
    BY <1>2, <2>1, <2>5, <2>6, <2>7
<1>6. ASSUME NEW call \in inboxCalls, InboxCallFails(call)
      PROVE  InboxInv'
  <2> DEFINE n == inboxLine.faults + 1
  <2> HIDE DEF n
  <2>1. /\ inboxCalls' = Answered(inboxCalls, call, Failed) /\ inboxLine' = [inboxLine EXCEPT !.faults = n]
        /\ UNCHANGED <<inbox, inboxDb>>
    BY <1>6 DEF InboxCallFails, n
  <2>2. IsLine(inboxLine') /\ inboxLine'.events = events
    BY <1>0, <2>1 DEF IsLine
  <2>3. CallsAreTrue(inboxCalls', ms)
    <3>1. Failed \in {Waiting, Failed}
      OBVIOUS
    <3>2. QED
      BY <1>0, <2>1, <3>1, AnsweredStaysTrue
  <2>4. QED
    BY <1>0, <2>1, <2>2, <2>3, InboxInvNext
<1>7. ASSUME NEW c \in Convs, ContactWrites(c)
      PROVE  InboxInv'
  <2>1. /\ inboxDb' = [inboxDb EXCEPT !.messages = Stored(c, "contact")]
        /\ Push("new_message", c, Len(ms) + 1, "pending") /\ UNCHANGED <<inbox, inboxCalls>>
    BY <1>7, Zenon DEF ContactWrites, Messages
  <2>2. /\ IsInboxDb(inboxDb') /\ MessagesStay(ms, ms2)
        /\ IsLine(inboxLine') /\ EventsAreTrue(inboxLine'.events, ms2)
    BY <1>3, <2>1, Zenon
  <2>3. CallsAreTrue(inboxCalls', ms2)
    BY <1>0, <2>1, <2>2, MessagesComeIn, Zenon
  <2>4. QED
    BY <1>2, <2>1, <2>2, <2>3
<1>8. ASSUME NEW n \in 1..MaxMessages, ProviderConfirms(n)
      PROVE  InboxInv'
  <2> DEFINE marked == [ms EXCEPT ![n].status = "sent"]
  <2>1. /\ n \in DOMAIN ms /\ inboxDb' = [inboxDb EXCEPT !.messages[n].status = "sent"]
        /\ Push("message_status", ms[n].conv, n, "sent") /\ UNCHANGED <<inbox, inboxCalls>>
    BY <1>8, Zenon DEF ProviderConfirms, Messages
  <2>2. inboxDb' = [inboxDb EXCEPT !.messages = marked]
    BY <2>1
  <2>3. AreMessages(marked) /\ MessagesStay(ms, marked)
    BY <1>0, <2>1, MessageConfirmed
  <2> HIDE DEF marked
  <2>4. inboxDb' \in [messages : {inboxDb'.messages}, mine : {inboxDb'.mine}, status : {inboxDb'.status}]
        /\ ms2 = marked
    BY <1>0, <2>2 DEF IsInboxDb
  <2>5. EventsAreTrue(events, marked) /\ CallsAreTrue(inboxCalls, marked)
    BY <1>0, <2>3, MessagesComeIn, Zenon
  <2>6. "message_status" # "new_message"
    OBVIOUS
  <2>7. IsLine(inboxLine') /\ EventsAreTrue(inboxLine'.events, marked)
    BY <1>0, <2>1, <2>5, <2>6, PushedIsTrue
  <2>8. QED
    BY <1>2, <2>1, <2>3, <2>4, <2>5, <2>7 DEF IsInboxDb
<1>9. CASE LeaveInbox
  <2> DEFINE m == [InboxStart(inbox.wide, inbox.duties) EXCEPT !.mounted = FALSE, !.calls = MaxVisits]
             some == {c \in inboxCalls : c.answer = Waiting /\ c.op = "send"}
             line == [inboxLine EXCEPT !.open = FALSE, !.events = <<>>]
  <2>1. inbox' = m /\ inboxCalls' = some /\ inboxLine' = line /\ UNCHANGED inboxDb
    BY <1>9, Zenon DEF LeaveInbox
  <2>2. IsInbox(m) /\ m.selected = None /\ m.thread = <<>>
    BY DEF InboxStart, IsInbox
  <2>3. IsLine(line) /\ line.events = <<>>
    BY <1>0 DEF IsLine
  <2>4. some \in SUBSET inboxCalls
    OBVIOUS
  <2> HIDE DEF m, some, line
  <2>5. CallsAreTrue(some, ms) /\ EventsAreTrue(<<>>, ms)
    BY <1>0, <2>4, CallsStayTrue, NothingIsTrue, Zenon
  <2>6. ThreadIsTrue(m, ms)
    BY <2>2, NothingIsTrue, Zenon DEF ThreadIsTrue
  <2>7. QED
    BY <1>0, <2>1, <2>2, <2>3, <2>5, <2>6, InboxInvNext
<1>10. \A call \in inboxCalls : InboxServer(call) => InboxInv'
  BY <1>1, <1>4, <1>5, Zenon DEF InboxServer
<1>11. QED
  BY <1>6, <1>7, <1>8, <1>9, <1>10, Zenon

LEMMA InboxStepInv ==
  ASSUME InboxInv, [InboxNext]_inboxVars
  PROVE  InboxInv'
<1>1. CASE InboxNext
  BY <1>1, OperatorKeepsThread, AnswersKeepThread, EventsKeepThread, ServerKeepsThread, Zenon DEF InboxNext
<1>2. CASE UNCHANGED inboxVars
  BY <1>2, Zenon DEF inboxVars, InboxInv
<1>3. QED
  BY <1>1, <1>2

LEMMA InboxInitInv ==
  ASSUME InboxInit \/ InboxClosed
  PROVE  InboxInv
<1>1. PICK m, wide, duties :
        /\ m = InboxStart(wide, duties) \/ m = [InboxStart(wide, duties) EXCEPT !.mounted = FALSE]
        /\ inbox = m /\ (inboxCalls = Send({}, "list", "mine") \/ inboxCalls = {})
  BY Zenon DEF InboxInit, InboxClosed
<1>2. PICK mine, status : inboxDb = [messages |-> <<>>, mine |-> mine, status |-> status]
  BY Zenon DEF InboxInit, InboxClosed
<1>3. PICK open : inboxLine = [open |-> open, events |-> <<>>, faults |-> 0]
  BY Zenon DEF InboxInit, InboxClosed
<1>4. IsInbox(m) /\ m.selected = None /\ m.thread = <<>>
  BY <1>1 DEF InboxStart, IsInbox
<1>5. IsInboxDb(inboxDb) /\ inboxDb.messages = <<>>
  BY <1>2, NothingIsTrue DEF IsInboxDb
<1>6. IsLine(inboxLine) /\ inboxLine.events = <<>>
  BY <1>3 DEF IsLine
<1>7. CallsAreTrue(inboxCalls, <<>>)
  BY <1>1, NothingIsTrue, CallsStayTrue, Zenon
<1>8. ThreadIsTrue(m, <<>>)
  BY <1>4, NothingIsTrue, Zenon DEF ThreadIsTrue
<1>9. QED
  BY <1>1, <1>4, <1>5, <1>6, <1>7, <1>8, NothingIsTrue DEF InboxInv

-----------------------------------------------------------------------------
(* Forms of a page, for the two pages that have several in one dialog *)

(* A call that belongs to a form is the only one, and its form is the one  *)
(* that is open and being submitted.                                       *)
Held(page, calls) ==
  /\ \A c \in calls : IsCall(c)
  /\ page.mounted => \A c \in calls : c.about.form # None =>
       /\ page.submitting /\ page.modal = c.about.form
       /\ \A d \in calls : d.about.form # None => d = c

SameForm(page, page2) ==
  page2.mounted => page.mounted /\ page2.submitting = page.submitting /\ page2.modal = page.modal

LEMMA NoFormIsOut ==
  ASSUME NEW page, NEW calls, Held(page, calls), page.mounted, ~page.submitting \/ page.modal = None
  PROVE  \A c \in calls : c.about.form = None
  BY DEF Held

LEMMA OneFormIsOut ==
  ASSUME NEW page, NEW calls, Held(page, calls), page.mounted, NEW call \in calls, call.about.form # None
  PROVE  \A c \in calls \ {call} : c.about.form = None
  BY DEF Held

LEMMA HeldWithoutForms ==
  ASSUME NEW page, NEW calls, \A c \in calls : IsCall(c) /\ c.about.form = None
  PROVE  Held(page, calls)
  BY DEF Held

LEMMA HeldByFewer ==
  ASSUME NEW page, NEW calls, Held(page, calls), NEW page2, SameForm(page, page2), NEW calls2 \in SUBSET calls
  PROVE  Held(page2, calls2)
  BY DEF Held, SameForm

LEMMA HeldAfterSend ==
  ASSUME NEW page, NEW calls, Held(page, calls), NEW page2, SameForm(page, page2),
         NEW op, NEW about, about.form = None
  PROVE  Held(page2, Send(calls, op, about))
<1>1. \A c \in Send(calls, op, about) : c \in calls \/ (IsCall(c) /\ c.about.form = None)
  BY SendAdds
<1>2. QED
  BY <1>1 DEF Held, SameForm

LEMMA HeldByNext ==
  ASSUME NEW page, NEW calls, Held(page, calls), NEW page2, SameForm(page, page2),
         NEW call \in calls, NEW new, IsCall(new), new.about.form = call.about.form
  PROVE  Held(page2, (calls \ {call}) \cup {new})
  BY DEF Held, SameForm

LEMMA HeldAfterChain ==
  ASSUME NEW page, NEW calls, Held(page, calls), NEW page2, SameForm(page, page2),
         NEW call \in calls, NEW op, NEW about, about.form = call.about.form
  PROVE  Held(page2, Chain(calls, call, op, about))
<1> DEFINE new == [slot |-> FreeSlot(calls \ {call}), op |-> op, about |-> about, answer |-> Waiting]
<1>1. IsCall(new) /\ new.about = about
  BY DEF IsCall
<1>2. Chain(calls, call, op, about) = (calls \ {call}) \cup {new}
  BY Zenon DEF Chain, Send
<1>3. QED
  <2> HIDE DEF new
  <2>1. QED
    BY <1>1, <1>2, HeldByNext

LEMMA HeldAfterAnswer ==
  ASSUME NEW page, NEW calls, Held(page, calls), NEW page2, SameForm(page, page2),
         NEW call \in calls, NEW answer
  PROVE  Held(page2, Answered(calls, call, answer))
<1> DEFINE new == [slot |-> call.slot, op |-> call.op, about |-> call.about, answer |-> answer]
<1>1. IsCall(call)
  BY DEF Held
<1>2. [call EXCEPT !.answer = answer] = new
  BY <1>1, AnswerKeepsCall
<1>3. IsCall(new) /\ new.about = call.about
  BY DEF IsCall
<1>4. Answered(calls, call, answer) = (calls \ {call}) \cup {new}
  BY <1>2, Zenon DEF Answered
<1>5. QED
  <2> HIDE DEF new
  <2>1. QED
    BY <1>3, <1>4, HeldByNext

LEMMA HeldAfterSubmit ==
  ASSUME NEW page, NEW calls, Held(page, calls), page.mounted, ~page.submitting,
         NEW op, NEW about, NEW page2, page2.submitting, page2.modal = about.form
  PROVE  Held(page2, Send(calls, op, about))
<1> DEFINE new == [slot |-> FreeSlot(calls), op |-> op, about |-> about, answer |-> Waiting]
<1>1. IsCall(new) /\ new.about = about
  BY DEF IsCall
<1>2. \A c \in calls : IsCall(c) /\ c.about.form = None
  BY NoFormIsOut DEF Held
<1>3. Send(calls, op, about) = calls \cup {new}
  BY Zenon DEF Send
<1>4. QED
  <2> HIDE DEF new
  <2>1. QED
    BY <1>1, <1>2, <1>3 DEF Held

-----------------------------------------------------------------------------
(* The page of deals *)

IsCrm(m) ==
  m \in [mounted : {m.mounted}, loading : {m.loading}, pipelines : {m.pipelines}, pipeline : {m.pipeline},
         stages : {m.stages}, cards : {m.cards}, fields : {m.fields}, modal : {m.modal}, card : {m.card},
         submitting : {m.submitting}, acts : {m.acts}, muddled : {m.muddled}]

CrmInv == IsCrm(crm) /\ Held(crm, crmCalls)

(* An answer that ends a form leaves none in flight; any other leaves the  *)
(* form as it is.                                                          *)
LEMMA EndsKeepsCrm ==
  ASSUME CrmInv, crm.mounted, NEW call \in crmCalls, NEW page, IsCrm(page), SameForm(crm, page),
         crm' = Ends(page, call.about.form), crmCalls' = crmCalls \ {call}
  PROVE  CrmInv'
<1>1. CASE call.about.form = None
  <2>1. crm' = page
    BY <1>1 DEF Ends
  <2>2. QED
    BY <2>1, HeldByFewer DEF CrmInv
<1>2. CASE call.about.form # None
  <2> DEFINE form == call.about.form
             modal == IF form = "fields" THEN page.modal ELSE None
  <2>1. crm' = [page EXCEPT !.submitting = FALSE, !.modal = modal]
    BY <1>2 DEF Ends
  <2>2. IsCrm(crm')
    <3> HIDE DEF modal
    <3>1. QED
      BY <2>1 DEF IsCrm
  <2>3. \A c \in crmCalls' : IsCall(c) /\ c.about.form = None
    BY <1>2, OneFormIsOut DEF CrmInv, Held
  <2>4. QED
    BY <2>2, <2>3, HeldWithoutForms DEF CrmInv
<1>3. QED
  BY <1>1, <1>2

LEMMA CrmActKeeps ==
  ASSUME NEW page, IsCrm(page)
  PROVE  /\ IsCrm(CrmAct(page)) /\ CrmAct(page).mounted = page.mounted
         /\ CrmAct(page).submitting = page.submitting /\ CrmAct(page).modal = page.modal
  BY DEF CrmAct, IsCrm

LEMMA CrmReadsKeepForms ==
  ASSUME CrmInv, NEW call \in crmCalls, PipelinesArrive(call) \/ BoardArrives(call)
  PROVE  CrmInv'
<1>1. IsCrm(crm) /\ crm.mounted
  BY DEF CrmInv, PipelinesArrive, BoardArrives
<1>2. CASE PipelinesArrive(call)
  <2> DEFINE form == call.about.form
             found == call.answer.result.pipelines
             next == IF call.about.select # 0 THEN call.about.select
                     ELSE IF found = {} THEN 0 ELSE CHOOSE p \in found : \A q \in found : p <= q
             page == [crm EXCEPT !.pipelines = found, !.pipeline = next]
             failed == [crm EXCEPT !.loading = FALSE]
             empty == [page EXCEPT !.loading = FALSE, !.stages = {}, !.cards = <<>>]
  <2>1. /\ IsCrm(page) /\ SameForm(crm, page)
        /\ IsCrm(failed) /\ SameForm(crm, failed)
    <3> HIDE DEF found, next
    <3>1. QED
      BY <1>1 DEF IsCrm, SameForm
  <2>2. IsCrm(empty) /\ SameForm(crm, empty)
    <3> HIDE DEF page
    <3>1. QED
      BY <2>1 DEF IsCrm, SameForm
  <2>3. CASE call.answer = Failed
    <3>1. crm' = Ends(failed, form) /\ crmCalls' = crmCalls \ {call}
      BY <1>2, <2>3, Zenon DEF PipelinesArrive
    <3>2. QED
      BY <1>1, <2>1, <3>1, EndsKeepsCrm, Zenon
  <2>4. CASE call.answer # Failed /\ next # 0
    <3>1. crm' = page /\ crmCalls' = Chain(crmCalls, call, "board", [pipeline |-> next, form |-> form])
      BY <1>2, <2>4, Zenon DEF PipelinesArrive
    <3>2. [pipeline |-> next, form |-> form].form = form
      OBVIOUS
    <3>3. QED
      <4> HIDE DEF next, page
      <4>1. QED
        BY <2>1, <3>1, <3>2, HeldAfterChain, Zenon DEF CrmInv
  <2>5. CASE call.answer # Failed /\ ~(next # 0)
    <3>1. crm' = Ends(empty, form) /\ crmCalls' = crmCalls \ {call}
      BY <1>2, <2>5, Zenon DEF PipelinesArrive
    <3>2. QED
      BY <1>1, <2>2, <3>1, EndsKeepsCrm, Zenon
  <2>6. QED
    BY <2>3, <2>4, <2>5, Zenon
<1>3. CASE BoardArrives(call)
  <2> DEFINE board == call.answer.result
             page == [crm EXCEPT !.loading = FALSE]
             full == [page EXCEPT !.stages = board.stages, !.cards = board.cards, !.fields = board.fields]
  <2>1. IsCrm(page) /\ SameForm(crm, page)
    BY <1>1 DEF IsCrm, SameForm
  <2>2. IsCrm(full) /\ SameForm(crm, full)
    <3> HIDE DEF page, board
    <3>1. QED
      BY <2>1 DEF IsCrm, SameForm
  <2>3. PICK shown : /\ shown = page \/ shown = full
                     /\ crm' = Ends(shown, call.about.form)
    BY <1>3, Zenon DEF BoardArrives
  <2>4. crmCalls' = crmCalls \ {call}
    BY <1>3 DEF BoardArrives
  <2>5. QED
    BY <1>1, <2>1, <2>2, <2>3, <2>4, EndsKeepsCrm, Zenon
<1>4. QED
  BY <1>2, <1>3

LEMMA CrmWritesKeepForms ==
  ASSUME CrmInv, NEW call \in crmCalls, CrmWriteAnswered(call)
  PROVE  CrmInv'
<1>1. IsCrm(crm) /\ crm.mounted /\ (\A c \in crmCalls : IsCall(c))
  BY DEF CrmInv, CrmWriteAnswered, Held
<1>2. CASE call.answer = Failed
  <2> DEFINE form == call.about.form
             busy == crm.submitting /\ form = None
  <2>1. /\ crm' = [crm EXCEPT !.submitting = busy, !.muddled = TRUE, !.card.behind = TRUE]
        /\ crmCalls' = crmCalls \ {call}
    BY <1>2, Zenon DEF CrmWriteAnswered
  <2>2. IsCrm(crm') /\ crm'.mounted = crm.mounted /\ crm'.modal = crm.modal /\ crm'.submitting = busy
    <3> HIDE DEF busy
    <3>1. QED
      BY <1>1, <2>1 DEF IsCrm
  <2>3. CASE form # None
    <3>1. \A c \in crmCalls' : IsCall(c) /\ c.about.form = None
      BY <1>1, <2>1, <2>3, OneFormIsOut, Zenon DEF CrmInv
    <3>2. QED
      BY <2>2, <3>1, HeldWithoutForms DEF CrmInv
  <2>4. CASE form = None
    <3>1. \A c \in crmCalls' : IsCall(c) /\ (c.about.form # None =>
                /\ crm'.submitting /\ crm'.modal = c.about.form
                /\ \A d \in crmCalls' : d.about.form # None => d = c)
      BY <1>1, <2>1, <2>2, <2>4 DEF CrmInv, Held
    <3>2. QED
      BY <2>2, <3>1, Zenon DEF CrmInv, Held
  <2>5. QED
    BY <2>3, <2>4
<1>3. CASE call.answer # Failed
  <2>1. crm' = Moved(call)
    BY <1>3 DEF CrmWriteAnswered
  <2>2. IsCrm(crm') /\ SameForm(crm, crm')
    BY <1>1, <2>1 DEF Moved, IsCrm, SameForm
  <2>3. CASE call.op = "pipeline"
    <3> DEFINE about == [select |-> call.answer.result.pipeline, form |-> call.about.form]
    <3>1. crmCalls' = Chain(crmCalls, call, "pipelines", about) /\ about.form = call.about.form
      BY <1>3, <2>3 DEF CrmWriteAnswered
    <3>2. QED
      <4> HIDE DEF about
      <4>1. QED
        BY <2>2, <3>1, HeldAfterChain DEF CrmInv
  <2>4. CASE call.op # "pipeline"
    <3> DEFINE about == [pipeline |-> call.about.pipeline, form |-> call.about.form]
    <3>1. crmCalls' = Chain(crmCalls, call, "board", about) /\ about.form = call.about.form
      BY <1>3, <2>4 DEF CrmWriteAnswered
    <3>2. QED
      <4> HIDE DEF about
      <4>1. QED
        BY <2>2, <3>1, HeldAfterChain DEF CrmInv
  <2>5. QED
    BY <2>3, <2>4
<1>4. QED
  BY <1>2, <1>3

(* Nothing of a form is in flight while no dialog is open.                 *)
LEMMA CrmDialogsKeepForms ==
  ASSUME CrmInv, CloseForm \/ LeaveCrm \/ (\E form : OpenForm(form)) \/ (\E c : OpenCard(c))
  PROVE  CrmInv'
<1>1. IsCrm(crm) /\ crm.mounted
  BY DEF CrmInv, CloseForm, LeaveCrm, OpenForm, OpenCard, OnBoard
<1>2. CASE LeaveCrm
  <2>1. IsCrm(crm') /\ SameForm(crm, crm')
    BY <1>1, <1>2 DEF LeaveCrm, IsCrm, SameForm
  <2>2. crmCalls' \in SUBSET crmCalls
    BY <1>2 DEF LeaveCrm
  <2>3. QED
    BY <2>1, <2>2, HeldByFewer DEF CrmInv
<1>3. CASE CloseForm \/ (\E form : OpenForm(form)) \/ (\E c : OpenCard(c))
  <2>1. crmCalls' = crmCalls /\ (~crm.submitting \/ crm.modal = None)
    BY <1>3, Zenon DEF CloseForm, OpenForm, OpenCard, OnBoard
  <2>2. \A c \in crmCalls' : IsCall(c) /\ c.about.form = None
    BY <1>1, <2>1, NoFormIsOut DEF CrmInv, Held
  <2>3. IsCrm(crm')
    <3>1. CASE CloseForm
      BY <1>1, <3>1 DEF CloseForm, IsCrm
    <3>2. ASSUME NEW form, OpenForm(form)
          PROVE  IsCrm(crm')
      BY <1>1, <3>2 DEF OpenForm, IsCrm
    <3>3. ASSUME NEW c, OpenCard(c)
          PROVE  IsCrm(crm')
      BY <1>1, <3>3 DEF OpenCard, IsCrm
    <3>4. QED
      BY <1>3, <3>1, <3>2, <3>3
  <2>4. QED
    BY <2>2, <2>3, HeldWithoutForms DEF CrmInv
<1>4. QED
  BY <1>2, <1>3

LEMMA SubmitKeepsForms ==
  ASSUME CrmInv, NEW op, NEW about, Submits(op, about), about.form = crm.modal
  PROVE  CrmInv'
<1> DEFINE page == [crm EXCEPT !.submitting = TRUE]
<1>1. IsCrm(page) /\ page.submitting /\ page.modal = crm.modal
  BY DEF CrmInv, IsCrm
<1>2. crm' = CrmAct(page) /\ crmCalls' = Send(crmCalls, op, about) /\ crm.mounted /\ ~crm.submitting
  BY DEF Submits, ActsOnCrm
<1>3. IsCrm(crm') /\ crm'.submitting /\ crm'.modal = about.form
  <2> HIDE DEF page
  <2>1. QED
    BY <1>1, <1>2, CrmActKeeps
<1>4. QED
  BY <1>2, <1>3, HeldAfterSubmit DEF CrmInv

(* What is sent without a form leaves the forms alone.                     *)
LEMMA CrmSendKeepsForms ==
  ASSUME CrmInv, NEW page, IsCrm(page), SameForm(crm, page), crm' = CrmAct(page),
         NEW op, NEW about, about.form = None, crmCalls' = Send(crmCalls, op, about)
  PROVE  CrmInv'
<1>1. IsCrm(crm') /\ SameForm(crm, crm')
  BY CrmActKeeps DEF SameForm
<1>2. QED
  BY <1>1, HeldAfterSend DEF CrmInv

LEMMA CrmOperatorKeepsForms ==
  ASSUME CrmInv,
         \/ CreatePipeline \/ CreateStage \/ CreateField \/ SaveCardFields
         \/ \E stage : CreateDeal(stage)
         \/ \E p : SelectPipeline(p)
         \/ \E field : DeleteField(field)
         \/ \E c, stage, status : MoveCard(c, stage, status)
  PROVE  CrmInv'
<1>1. IsCrm(crm) /\ SameForm(crm, crm)
  BY DEF CrmInv, SameForm
<1>2. CASE CreatePipeline
  BY <1>2, SubmitKeepsForms DEF CreatePipeline
<1>3. CASE CreateStage
  BY <1>3, SubmitKeepsForms DEF CreateStage
<1>4. CASE CreateField
  BY <1>4, SubmitKeepsForms DEF CreateField
<1>5. CASE SaveCardFields
  BY <1>5, SubmitKeepsForms DEF SaveCardFields
<1>6. ASSUME NEW stage, CreateDeal(stage)
      PROVE  CrmInv'
  BY <1>6, SubmitKeepsForms DEF CreateDeal
<1>7. ASSUME NEW p, SelectPipeline(p)
      PROVE  CrmInv'
  <2> DEFINE page == [crm EXCEPT !.pipeline = p]
             about == [pipeline |-> p, form |-> None]
  <2>1. IsCrm(page) /\ SameForm(crm, page) /\ about.form = None
    BY <1>1 DEF IsCrm, SameForm
  <2>2. crm' = CrmAct(page) /\ crmCalls' = Send(crmCalls, "board", about)
    BY <1>7 DEF SelectPipeline
  <2>3. QED
    <3> HIDE DEF page, about
    <3>1. QED
      BY <2>1, <2>2, CrmSendKeepsForms
<1>8. ASSUME NEW field, DeleteField(field)
      PROVE  CrmInv'
  <2> DEFINE about == [field |-> field, pipeline |-> crm.pipeline, form |-> None]
  <2>1. crm' = CrmAct(crm) /\ crmCalls' = Send(crmCalls, "deleteField", about) /\ about.form = None
    BY <1>8 DEF DeleteField
  <2>2. QED
    <3> HIDE DEF about
    <3>1. QED
      BY <1>1, <2>1, CrmSendKeepsForms
<1>9. ASSUME NEW c, NEW stage, NEW status, MoveCard(c, stage, status)
      PROVE  CrmInv'
  <2> DEFINE about == [card |-> c, stage |-> stage, status |-> status, shown |-> crm.card.id = c,
                       pipeline |-> crm.pipeline, form |-> None]
  <2>1. crm' = CrmAct(crm) /\ crmCalls' = Send(crmCalls, "move", about) /\ about.form = None
    BY <1>9 DEF MoveCard
  <2>2. QED
    <3> HIDE DEF about
    <3>1. QED
      BY <1>1, <2>1, CrmSendKeepsForms
<1>10. QED
  BY <1>2, <1>3, <1>4, <1>5, <1>6, <1>7, <1>8, <1>9

LEMMA CrmServerKeepsForms ==
  ASSUME CrmInv, NEW call \in crmCalls, CrmServer(call) \/ CrmCallFails(call)
  PROVE  CrmInv'
<1>1. PICK answer : crmCalls' = Answered(crmCalls, call, answer)
  BY Zenon DEF CrmServer, CrmCallFails
<1>2. crm' = crm \/ crm' = [crm EXCEPT !.muddled = TRUE, !.card.behind = TRUE]
  BY Zenon DEF CrmServer, CrmCallFails
<1>3. IsCrm(crm') /\ SameForm(crm, crm')
  BY <1>2 DEF CrmInv, IsCrm, SameForm
<1>4. QED
  BY <1>1, <1>3, HeldAfterAnswer DEF CrmInv

LEMMA CrmStepInv ==
  ASSUME CrmInv, [CrmNext]_crmVars
  PROVE  CrmInv'
<1>1. CASE UNCHANGED crmVars
  BY <1>1 DEF crmVars, CrmInv
<1>2. CASE CrmNext
  BY <1>2, CrmDialogsKeepForms, CrmOperatorKeepsForms, CrmReadsKeepForms, CrmWritesKeepForms,
     CrmServerKeepsForms, Zenon DEF CrmNext
<1>3. QED
  BY <1>1, <1>2

LEMMA CrmInitInv ==
  ASSUME CrmInit \/ CrmClosed
  PROVE  CrmInv
<1>1. CASE CrmInit
  <2> DEFINE about == [select |-> 0, form |-> None]
  <2>1. IsCrm(crm)
    BY <1>1 DEF CrmInit, CrmOpened, IsCrm
  <2>2. crmCalls = Send({}, "pipelines", about) /\ about.form = None
    BY <1>1 DEF CrmInit
  <2>3. Held(crm, {}) /\ SameForm(crm, crm)
    BY DEF Held, SameForm
  <2>4. QED
    <3> HIDE DEF about
    <3>1. QED
      BY <2>1, <2>2, <2>3, HeldAfterSend DEF CrmInv
<1>2. CASE CrmClosed
  BY <1>2 DEF CrmClosed, CrmOpened, CrmInv, IsCrm, Held
<1>3. QED
  BY <1>1, <1>2

LEMMA CrmForms == CrmInv => CrmFormsHeld
  BY DEF CrmInv, Held, CrmFormsHeld

-----------------------------------------------------------------------------
(* The page of contacts *)

IsPeople(m) ==
  m \in [mounted : {m.mounted}, view : {m.view}, input : {m.input}, typed : {m.typed}, search : {m.search},
         page : {m.page}, pages : {m.pages}, list : {m.list}, fields : {m.fields}, modal : {m.modal},
         submitting : {m.submitting}, acts : {m.acts}, muddled : {m.muddled}]

PeopleInv == IsPeople(people) /\ Held(people, peopleCalls)

LEMMA ContactActKeeps ==
  ASSUME NEW page, IsPeople(page), NEW reads
  PROVE  /\ IsPeople(ContactAct(page, reads)) /\ ContactAct(page, reads).mounted = page.mounted
         /\ ContactAct(page, reads).submitting = page.submitting /\ ContactAct(page, reads).modal = page.modal
<1> DEFINE muddled == peopleCalls # {} \/ (page.muddled /\ ~reads)
<1>1. ContactAct(page, reads) = [page EXCEPT !.acts = @ + 1, !.muddled = muddled]
  BY Zenon DEF ContactAct
<1>2. QED
  <2> HIDE DEF muddled
  <2>1. QED
    BY <1>1 DEF IsPeople

LEMMA FinishesKeepsPeople ==
  ASSUME PeopleInv, people.mounted, NEW call \in peopleCalls, NEW page, IsPeople(page), SameForm(people, page),
         people' = Finishes(page, call.about.form), peopleCalls' = peopleCalls \ {call}
  PROVE  PeopleInv'
<1>1. CASE call.about.form = None
  <2>1. people' = page
    BY <1>1 DEF Finishes
  <2>2. QED
    BY <2>1, HeldByFewer DEF PeopleInv
<1>2. CASE call.about.form # None
  <2>1. IsPeople(people')
    BY <1>2 DEF Finishes, IsPeople
  <2>2. \A c \in peopleCalls' : IsCall(c) /\ c.about.form = None
    BY <1>2, OneFormIsOut DEF PeopleInv, Held
  <2>3. QED
    BY <2>1, <2>2, HeldWithoutForms DEF PeopleInv
<1>3. QED
  BY <1>1, <1>2

LEMMA PeopleReadsKeepForms ==
  ASSUME PeopleInv, NEW call \in peopleCalls, ContactsArrive(call) \/ FieldsArrive(call)
  PROVE  PeopleInv'
<1> DEFINE result == call.answer.result
           listed == [people EXCEPT !.list = result.list, !.pages = result.pages]
           known == [people EXCEPT !.fields = result.fields]
<1>1. people.mounted /\ peopleCalls' = peopleCalls \ {call}
  BY DEF ContactsArrive, FieldsArrive
<1>2. /\ IsPeople(people) /\ SameForm(people, people)
      /\ IsPeople(listed) /\ SameForm(people, listed)
      /\ IsPeople(known) /\ SameForm(people, known)
  <2> HIDE DEF result
  <2>1. QED
    BY DEF PeopleInv, IsPeople, SameForm
<1>3. PICK page \in {people, listed, known} : people' = Finishes(page, call.about.form)
  <2>1. CASE ContactsArrive(call)
    BY <2>1, Zenon DEF ContactsArrive
  <2>2. CASE FieldsArrive(call)
    BY <2>2, Zenon DEF FieldsArrive
  <2>3. QED
    BY <2>1, <2>2, Zenon
<1>4. IsPeople(page) /\ SameForm(people, page)
  BY <1>2, <1>3, Zenon
<1>5. QED
  BY <1>1, <1>3, <1>4, FinishesKeepsPeople, Zenon

LEMMA PeopleWritesKeepForms ==
  ASSUME PeopleInv, NEW call \in peopleCalls, DialogAnswered(call) \/ FieldDeleted(call)
  PROVE  PeopleInv'
<1>1. IsPeople(people) /\ people.mounted /\ SameForm(people, people)
  BY DEF PeopleInv, DialogAnswered, FieldDeleted, SameForm
<1>2. CASE DialogAnswered(call) /\ call.answer = Failed
  <2> DEFINE form == call.about.form
             busy == people.submitting /\ form = None
  <2>1. people' = [people EXCEPT !.submitting = busy] /\ peopleCalls' = peopleCalls \ {call}
    BY <1>2, Zenon DEF DialogAnswered
  <2>2. /\ IsPeople(people') /\ people'.mounted = people.mounted
        /\ people'.modal = people.modal /\ people'.submitting = busy
    <3> HIDE DEF busy
    <3>1. QED
      BY <1>1, <2>1 DEF IsPeople
  <2>3. CASE form # None
    <3>1. \A c \in peopleCalls' : IsCall(c) /\ c.about.form = None
      BY <1>1, <2>1, <2>3, OneFormIsOut DEF PeopleInv, Held
    <3>2. QED
      BY <2>2, <3>1, HeldWithoutForms DEF PeopleInv
  <2>4. CASE form = None
    <3>1. \A c \in peopleCalls' : IsCall(c) /\ (c.about.form # None =>
                /\ people'.submitting /\ people'.modal = c.about.form
                /\ \A d \in peopleCalls' : d.about.form # None => d = c)
      BY <1>1, <2>1, <2>2, <2>4 DEF PeopleInv, Held
    <3>2. QED
      BY <2>2, <3>1, Zenon DEF PeopleInv, Held
  <2>5. QED
    BY <2>3, <2>4
<1>3. CASE DialogAnswered(call) /\ call.answer # Failed
  <2>1. people' = people
    BY <1>3 DEF DialogAnswered
  <2>2. PICK op, about : about.form = call.about.form /\ peopleCalls' = Chain(peopleCalls, call, op, about)
    <3>1. CASE call.about.form = "field"
      <4>1. [form |-> "field"].form = call.about.form
        BY <3>1
      <4>2. peopleCalls' = Chain(peopleCalls, call, "fields", [form |-> "field"])
        BY <1>3, <3>1 DEF DialogAnswered
      <4>3. QED
        BY <4>1, <4>2, Zenon
    <3>2. CASE call.about.form # "field"
      <4>1. peopleCalls' = Chain(peopleCalls, call, "list", call.about)
        BY <1>3, <3>2 DEF DialogAnswered
      <4>2. QED
        BY <4>1, Zenon
    <3>3. QED
      BY <3>1, <3>2
  <2>3. QED
    BY <1>1, <2>1, <2>2, HeldAfterChain DEF PeopleInv
<1>4. CASE FieldDeleted(call)
  <2>1. people' = people
    BY <1>4 DEF FieldDeleted
  <2>2. CASE peopleCalls' = peopleCalls \ {call}
    BY <1>1, <2>1, <2>2, HeldByFewer DEF PeopleInv
  <2>3. CASE peopleCalls' = Chain(peopleCalls, call, "fields", call.about)
    BY <1>1, <2>1, <2>3, HeldAfterChain DEF PeopleInv
  <2>4. QED
    BY <1>4, <2>2, <2>3, Zenon DEF FieldDeleted
<1>5. QED
  BY <1>2, <1>3, <1>4

LEMMA PeopleDialogsKeepForms ==
  ASSUME PeopleInv, CloseDialog \/ LeaveContacts \/ (\E form : OpenDialog(form)) \/ (\E view : ChooseView(view))
  PROVE  PeopleInv'
<1>1. IsPeople(people) /\ people.mounted
  BY DEF PeopleInv, CloseDialog, LeaveContacts, OpenDialog, ChooseView, OnView
<1>2. CASE LeaveContacts
  <2>1. IsPeople(people') /\ SameForm(people, people')
    BY <1>1, <1>2 DEF LeaveContacts, IsPeople, SameForm
  <2>2. peopleCalls' \in SUBSET peopleCalls
    BY <1>2 DEF LeaveContacts
  <2>3. QED
    BY <2>1, <2>2, HeldByFewer DEF PeopleInv
<1>3. CASE CloseDialog \/ (\E form : OpenDialog(form)) \/ (\E view : ChooseView(view))
  <2>1. peopleCalls' = peopleCalls /\ (~people.submitting \/ people.modal = None)
    BY <1>3, Zenon DEF CloseDialog, OpenDialog, ChooseView, OnView
  <2>2. \A c \in peopleCalls' : IsCall(c) /\ c.about.form = None
    BY <1>1, <2>1, NoFormIsOut DEF PeopleInv, Held
  <2>3. IsPeople(people')
    <3>1. CASE CloseDialog
      BY <1>1, <3>1 DEF CloseDialog, IsPeople
    <3>2. ASSUME NEW form, OpenDialog(form)
          PROVE  IsPeople(people')
      BY <1>1, <3>2 DEF OpenDialog, IsPeople
    <3>3. ASSUME NEW view, ChooseView(view)
          PROVE  IsPeople(people')
      BY <1>1, <3>3 DEF ChooseView, IsPeople
    <3>4. QED
      BY <1>3, <3>1, <3>2, <3>3
  <2>4. QED
    BY <2>2, <2>3, HeldWithoutForms DEF PeopleInv
<1>4. QED
  BY <1>2, <1>3

(* A read of the list without a form.                                      *)
LEMMA ReadKeepsForms ==
  ASSUME PeopleInv, IsPeople(people'), SameForm(people, people'), NEW op, NEW about, about.form = None,
         peopleCalls' = Send(peopleCalls, op, about)
  PROVE  PeopleInv'
  BY HeldAfterSend DEF PeopleInv

LEMMA PeopleOperatorKeepsForms ==
  ASSUME PeopleInv,
         \/ Debounce \/ SaveDialog \/ DeleteContactField
         \/ \E input : TypeSearch(input)
         \/ \E page : TurnPage(page)
  PROVE  PeopleInv'
<1>1. IsPeople(people) /\ (\A page : Reading(page, None).form = None)
  BY DEF PeopleInv, Reading
<1>2. CASE Debounce
  <2> DEFINE next == [people EXCEPT !.typed = FALSE, !.search = people.input, !.page = 1]
             muddled == peopleCalls # {}
             reads == [next EXCEPT !.muddled = muddled]
  <2>1. IsPeople(next) /\ SameForm(people, next)
    BY <1>1 DEF IsPeople, SameForm
  <2>2. IsPeople(reads) /\ SameForm(people, reads)
    <3> HIDE DEF next, muddled
    <3>1. QED
      BY <2>1 DEF IsPeople, SameForm
  <2>3. \/ people' = next /\ peopleCalls' = peopleCalls
        \/ people' = reads /\ peopleCalls' = Send(peopleCalls, "list", Reading(next, None))
    BY <1>2, Zenon DEF Debounce
  <2>4. CASE people' = next /\ peopleCalls' = peopleCalls
    <3> HIDE DEF next
    <3>1. QED
      BY <2>1, <2>4, HeldByFewer DEF PeopleInv
  <2>5. CASE people' = reads /\ peopleCalls' = Send(peopleCalls, "list", Reading(next, None))
    <3> HIDE DEF next, reads
    <3>1. QED
      BY <1>1, <2>2, <2>5, ReadKeepsForms
  <2>6. QED
    BY <2>3, <2>4, <2>5, Zenon
<1>3. CASE SaveDialog
  <2> DEFINE page == [people EXCEPT !.submitting = TRUE]
             about == Reading(people, people.modal)
  <2>1. IsPeople(page) /\ page.submitting /\ page.modal = people.modal
    BY <1>1 DEF IsPeople
  <2>2. /\ people' = ContactAct(page, people.modal # "field") /\ peopleCalls' = Send(peopleCalls, "save", about)
        /\ people.mounted /\ ~people.submitting
    BY <1>3, Zenon DEF SaveDialog, ActsOnContacts
  <2>3. IsPeople(people') /\ people'.submitting /\ people'.modal = people.modal
    <3> HIDE DEF page
    <3>1. QED
      BY <2>1, <2>2, ContactActKeeps
  <2>4. about.form = people.modal
    BY DEF Reading
  <2>5. QED
    <3> HIDE DEF about
    <3>1. QED
      BY <2>2, <2>3, <2>4, HeldAfterSubmit DEF PeopleInv
<1>4. CASE DeleteContactField
  <2> DEFINE about == [form |-> None]
  <2>1. people' = ContactAct(people, FALSE) /\ peopleCalls' = Send(peopleCalls, "deleteField", about)
    BY <1>4, Zenon DEF DeleteContactField
  <2>2. IsPeople(people') /\ SameForm(people, people')
    <3>1. people' = ContactAct(people, FALSE)
      BY <2>1
    <3>2. \A reads : LET page == ContactAct(people, reads)
                    IN IsPeople(page) /\ SameForm(people, page)
      BY <1>1, ContactActKeeps DEF SameForm
    <3>3. QED
      BY <3>1, <3>2, Zenon
  <2>3. about.form = None
    OBVIOUS
  <2>4. QED
    <3> HIDE DEF about
    <3>1. QED
      BY <2>1, <2>2, <2>3, ReadKeepsForms
<1>5. ASSUME NEW input, TypeSearch(input)
      PROVE  PeopleInv'
  <2>1. IsPeople(people') /\ SameForm(people, people')
    BY <1>1, <1>5 DEF TypeSearch, IsPeople, SameForm
  <2>2. peopleCalls' = peopleCalls
    BY <1>5 DEF TypeSearch
  <2>3. QED
    BY <2>1, <2>2, HeldByFewer DEF PeopleInv
<1>6. ASSUME NEW page, TurnPage(page)
      PROVE  PeopleInv'
  <2> DEFINE turned == [people EXCEPT !.page = page]
  <2>1. IsPeople(turned) /\ SameForm(people, turned)
    BY <1>1 DEF IsPeople, SameForm
  <2>2. people' = ContactAct(turned, TRUE) /\ peopleCalls' = Send(peopleCalls, "list", Reading(people', None))
    BY <1>6, Zenon DEF TurnPage
  <2>3. IsPeople(people') /\ SameForm(people, people')
    <3> HIDE DEF turned
    <3>1. QED
      BY <2>1, <2>2, ContactActKeeps DEF SameForm
  <2>4. QED
    BY <1>1, <2>2, <2>3, ReadKeepsForms
<1>7. QED
  BY <1>2, <1>3, <1>4, <1>5, <1>6

LEMMA PeopleServerKeepsForms ==
  ASSUME PeopleInv, NEW call \in peopleCalls, ContactServer(call) \/ ContactCallFails(call)
  PROVE  PeopleInv'
<1>1. PICK answer : peopleCalls' = Answered(peopleCalls, call, answer)
  BY Zenon DEF ContactServer, ContactCallFails
<1>2. people' = people \/ people' = [people EXCEPT !.muddled = TRUE]
  BY Zenon DEF ContactServer, ContactCallFails
<1>3. IsPeople(people') /\ SameForm(people, people')
  BY <1>2 DEF PeopleInv, IsPeople, SameForm
<1>4. QED
  BY <1>1, <1>3, HeldAfterAnswer DEF PeopleInv

LEMMA PeopleStepInv ==
  ASSUME PeopleInv, [ContactsNext]_peopleVars
  PROVE  PeopleInv'
<1>1. CASE UNCHANGED peopleVars
  BY <1>1 DEF peopleVars, PeopleInv
<1>2. CASE ContactsNext
  BY <1>2, PeopleDialogsKeepForms, PeopleOperatorKeepsForms, PeopleReadsKeepForms, PeopleWritesKeepForms,
     PeopleServerKeepsForms, Zenon DEF ContactsNext
<1>3. QED
  BY <1>1, <1>2

LEMMA PeopleInitInv ==
  ASSUME ContactsInit \/ ContactsClosed
  PROVE  PeopleInv
<1>1. CASE ContactsInit
  <2> DEFINE first == Send({}, "list", Reading(people, None))
             about == [form |-> None]
  <2>1. IsPeople(people) /\ Reading(people, None).form = None /\ about.form = None
    BY <1>1 DEF ContactsInit, ContactsOpened, IsPeople, Reading
  <2>2. peopleCalls = Send(first, "fields", about)
    BY <1>1, Zenon DEF ContactsInit
  <2>3. Held(people, {}) /\ SameForm(people, people)
    BY DEF Held, SameForm
  <2>4. Held(people, first)
    BY <2>1, <2>3, HeldAfterSend
  <2>5. QED
    <3> HIDE DEF first, about
    <3>1. QED
      BY <2>1, <2>2, <2>3, <2>4, HeldAfterSend DEF PeopleInv
<1>2. CASE ContactsClosed
  BY <1>2 DEF ContactsClosed, ContactsOpened, PeopleInv, IsPeople, Held
<1>3. QED
  BY <1>1, <1>2

LEMMA PeopleForms == PeopleInv => ContactFormsHeld
  BY DEF PeopleInv, Held, ContactFormsHeld

-----------------------------------------------------------------------------
(* The panel *)

FormInv == SignupInv /\ CrmInv /\ PeopleInv

(* A step of the panel is, for every part, a step of that part or none.    *)
LEMMA PartsStep ==
  ASSUME [Next]_webVars
  PROVE  /\ [SessionNext]_sessionVars /\ [SignupNext]_signupVars /\ [InboxNext]_inboxVars
         /\ [EditorNext]_editorVars /\ [CampaignsNext]_campaignVars /\ [TemplatesNext]_templateVars
         /\ [ChannelsNext]_channelVars /\ [CrmNext]_crmVars /\ [ContactsNext]_peopleVars
<1>1. CASE Next
  BY <1>1, Zenon DEF Next, OthersStandStill
<1>2. CASE UNCHANGED webVars
  BY <1>2, Zenon DEF webVars
<1>3. QED
  BY <1>1, <1>2

(* After a logout the panel is not shown again until somebody signs in     *)
(* with a form that opened since (or a form submitted before that logout   *)
(* is answered), whatever refreshes and session checks are in flight.      *)
THEOREM LogoutIsHeld == Spec => []LogoutHolds
<1>1. Init => SessionInv
  BY SessionInitInv, Zenon DEF Init, SignedOut
<1>2. SessionInv /\ [Next]_webVars => SessionInv'
  BY PartsStep, SessionStepInv, Zenon
<1>3. SessionInv => LogoutHolds
  BY DEF SessionInv
<1>4. QED
  BY <1>1, <1>2, <1>3, PTL DEF Spec

(* An answer ends the form it belongs to and no other, on the page of      *)
(* deals and on that of contacts, and of the attempts to connect a channel *)
(* only the one in progress has not ended, and none posts twice.           *)
THEOREM FormsAreHeld == Spec => []FormsKeepTheirAnswers
<1>1. Init => FormInv
  BY SignupInitInv, CrmInitInv, PeopleInitInv, Zenon DEF Init, FormInv
<1>2. FormInv /\ [Next]_webVars => FormInv'
  BY PartsStep, SignupStepInv, CrmStepInv, PeopleStepInv, Zenon DEF FormInv
<1>3. FormInv => FormsKeepTheirAnswers
  BY OneSignup, CrmForms, PeopleForms, Zenon DEF FormInv, FormsKeepTheirAnswers
<1>4. QED
  BY <1>1, <1>2, <1>3, PTL DEF Spec

(* The thread on the screen is of the conversation that is open.           *)
THEOREM ThreadIsOfItsConversation == Spec => []ThreadShowsItsConversation
<1>1. Init => InboxInv
  BY InboxInitInv, Zenon DEF Init
<1>2. InboxInv /\ [Next]_webVars => InboxInv'
  BY PartsStep, InboxStepInv, Zenon
<1>3. InboxInv => ThreadShowsItsConversation
  BY Zenon DEF InboxInv, ThreadIsTrue, IsThreadOf, ThreadShowsItsConversation, Messages
<1>4. QED
  BY <1>1, <1>2, <1>3, PTL DEF Spec

-----------------------------------------------------------------------------
(* The pages: what they show and what they send *)

(* What a call that is new among the calls of a page may be.               *)
LEMMA ChainAdds ==
  ASSUME NEW calls, NEW call, NEW op, NEW about, NEW c \in Chain(calls, call, op, about)
  PROVE  c \in calls \ {call} \/ (IsCall(c) /\ c.op = op /\ c.about = about /\ c.answer = Waiting)
  BY DEF Chain, Send, IsCall

-----------------------------------------------------------------------------
(* The page of templates *)

IsForm(f) ==
  f \in [name : 0..MaxActs, header : HeaderKinds, sample : MediaKinds \cup {None}, behind : BOOLEAN]

IsBuilder(w) ==
  w \in [mounted : BOOLEAN, shown : SUBSET (0..MaxActs), channels : SUBSET MetaChannels,
         channel : MetaChannels \cup {None}, syncing : BOOLEAN, open : BOOLEAN, form : {w.form},
         uploading : BOOLEAN, notice : {w.notice}, acts : 0..MaxActs]

IsTemplateDb(db) ==
  db \in [channels : SUBSET MetaChannels, rows : {db.rows}, synced : BOOLEAN, lost : 0..MaxLost]

Lists(result) == result.rows \subseteq 0..MaxActs /\ result.channels \subseteq MetaChannels

TemplateCall(c) ==
  /\ IsCall(c)
  /\ c.op \in {"load", "sync"} /\ IsDone(c) => Lists(c.answer.result)
  /\ c.op = "upload" => c.about.kind \in MediaKinds
  /\ c.op = "create" => IsForm(c.about.form)

(* A form that Meta can be sent, as far as its header goes; one that is    *)
(* being filled in may still lack its sample.                              *)
Sampled(f) == f.header \in MediaKinds => f.sample # None /\ (f.sample = f.header \/ f.behind)
MayBeSampled(f) == f.sample # None => Sampled(f)

(* A file on its way is for the header that is shown, or the form is       *)
(* marked; what is on its way to Meta, or there, is sampled.               *)
CallIsSampled(f, c) ==
  /\ c.op = "upload" => f.behind \/ c.about.kind = f.header
  /\ c.op = "create" => Sampled(c.about.form)

SampleInv ==
  /\ IsBuilder(builder) /\ IsForm(builder.form) /\ IsTemplateDb(templateDb)
  /\ MayBeSampled(builder.form)
  /\ \A c \in templateCalls : TemplateCall(c) /\ CallIsSampled(builder.form, c)
  /\ \A r \in templateDb.rows : IsForm(r) /\ Sampled(r)

(* What leaves the form alone, and sends nothing that is not sampled.      *)
LEMMA SampleKept ==
  ASSUME SampleInv, IsBuilder(builder'), builder'.form = builder.form, UNCHANGED templateDb,
         \A c \in templateCalls' : c \in templateCalls \/ (TemplateCall(c) /\ CallIsSampled(builder.form, c))
  PROVE  SampleInv'
<1>1. \A c \in templateCalls' : TemplateCall(c) /\ CallIsSampled(builder.form, c)
  BY Zenon DEF SampleInv
<1>2. QED
  BY <1>1, Zenon DEF SampleInv

(* What writes the form, and sends nothing.                                *)
LEMMA SampleWritten ==
  ASSUME SampleInv, IsBuilder(builder'), IsForm(builder'.form), MayBeSampled(builder'.form),
         UNCHANGED templateDb, templateCalls' \subseteq templateCalls,
         \A c \in templateCalls' : c.op = "upload" => builder'.form.behind \/ c.about.kind = builder'.form.header
  PROVE  SampleInv'
<1>1. \A c \in templateCalls' : TemplateCall(c) /\ CallIsSampled(builder'.form, c)
  BY DEF SampleInv, CallIsSampled
<1>2. QED
  BY <1>1, Zenon DEF SampleInv

LEMMA TemplateActKeeps ==
  ASSUME IsTemplateDb(templateDb), NEW w, IsBuilder(w), Room(w.acts, templateDb.lost)
  PROVE  IsBuilder(TemplateAct(w)) /\ TemplateAct(w).form = w.form
<1> DEFINE acts == w.acts + 1
<1>1. acts \in 0..MaxActs
  BY PanelCallsAssumption DEF IsBuilder, IsTemplateDb, Room
<1>2. TemplateAct(w) = [w EXCEPT !.acts = acts]
  BY Zenon DEF TemplateAct
<1>3. QED
  <2> HIDE DEF acts
  <2>1. QED
    BY <1>1, <1>2 DEF IsBuilder

(* A call that is sent awaits its answer.                                  *)
LEMMA TemplateCallSent ==
  ASSUME NEW c, IsCall(c), c.answer = Waiting,
         c.op = "upload" => c.about.kind \in MediaKinds, c.op = "create" => IsForm(c.about.form)
  PROVE  TemplateCall(c)
  BY DEF TemplateCall, IsDone

LEMMA TemplateReadsKeepSample ==
  ASSUME SampleInv, NEW call \in templateCalls, LoadArrives(call) \/ SyncArrives(call) \/ DeleteAnswered(call)
  PROVE  SampleInv'
<1>1. IsBuilder(builder) /\ TemplateCall(call)
  BY DEF SampleInv
<1>2. CASE LoadArrives(call)
  <2> DEFINE syncing == builder.syncing /\ call.about.why # "sync"
             notice == IF call.about.why = "sync" THEN "synced" ELSE builder.notice
             synced == [builder EXCEPT !.syncing = syncing, !.notice = notice]
             found == call.answer.result.channels
             page == [synced EXCEPT !.shown = call.answer.result.rows, !.channels = found]
             first == CHOOSE c \in found : TRUE
  <2>1. IsBuilder(synced) /\ synced.form = builder.form
    <3>1. syncing \in BOOLEAN
      BY <1>1 DEF IsBuilder
    <3>2. QED
      <4> HIDE DEF syncing, notice
      <4>1. QED
        BY <1>1, <3>1 DEF IsBuilder
  <2>2. \/ builder' = synced
        \/ Lists(call.answer.result) /\ builder' = page
        \/ Lists(call.answer.result) /\ found # {} /\ builder' = [page EXCEPT !.channel = first]
    <3>1. call.answer # Failed => Lists(call.answer.result)
      BY <1>1, <1>2 DEF TemplateCall, IsDone, LoadArrives, Done
    <3>2. QED
      BY <1>2, <3>1, Zenon DEF LoadArrives
  <2>3. ASSUME Lists(call.answer.result) PROVE IsBuilder(page) /\ page.form = builder.form
    <3> DEFINE rows == call.answer.result.rows
    <3>1. rows \subseteq 0..MaxActs /\ found \subseteq MetaChannels
      BY <2>3, Zenon DEF Lists
    <3>2. QED
      <4> HIDE DEF synced, found, rows
      <4>1. /\ IsBuilder([synced EXCEPT !.shown = rows, !.channels = found])
            /\ [synced EXCEPT !.shown = rows, !.channels = found].form = builder.form
        BY <2>1, <3>1 DEF IsBuilder
      <4>2. QED
        BY <4>1, Zenon DEF rows
  <2>4. ASSUME Lists(call.answer.result), found # {}
        PROVE  IsBuilder([page EXCEPT !.channel = first]) /\ [page EXCEPT !.channel = first].form = builder.form
    <3>1. first \in MetaChannels
      <4>1. found \subseteq MetaChannels
        BY <2>4, Zenon DEF Lists
      <4>2. first \in found
        BY <2>4, Zenon
      <4>3. QED
        BY <4>1, <4>2
    <3>2. IsBuilder(page) /\ page.form = builder.form
      BY <2>3, <2>4
    <3> HIDE DEF page, first
    <3>3. QED
      BY <3>1, <3>2 DEF IsBuilder
  <2>5. IsBuilder(builder') /\ builder'.form = builder.form
    <3> HIDE DEF synced, page, first, found
    <3>1. QED
      BY <2>1, <2>2, <2>3, <2>4, Zenon
  <2>6. templateCalls' = templateCalls \ {call} /\ UNCHANGED templateDb
    BY <1>2, Zenon DEF LoadArrives
  <2>7. QED
    BY <2>5, <2>6, SampleKept, Zenon
<1>3. CASE SyncArrives(call)
  <2> DEFINE rows == call.answer.result.rows
             about == [why |-> "sync"]
             synced == "synced"
  <2>1. \/ builder' = builder
        \/ builder' = [builder EXCEPT !.syncing = FALSE]
        \/ rows \subseteq 0..MaxActs /\ builder' = [builder EXCEPT !.syncing = FALSE, !.shown = rows, !.notice = synced]
    <3>1. call.answer # Failed => rows \subseteq 0..MaxActs
      BY <1>1, <1>3 DEF TemplateCall, IsDone, SyncArrives, Done, Lists
    <3>2. QED
      BY <1>3, <3>1, Zenon DEF SyncArrives
  <2>2. IsBuilder(builder') /\ builder'.form = builder.form
    <3> HIDE DEF rows, synced
    <3>1. /\ IsBuilder([builder EXCEPT !.syncing = FALSE])
          /\ [builder EXCEPT !.syncing = FALSE].form = builder.form
      BY <1>1 DEF IsBuilder
    <3>2. ASSUME rows \subseteq 0..MaxActs
          PROVE  /\ IsBuilder([builder EXCEPT !.syncing = FALSE, !.shown = rows, !.notice = synced])
                 /\ [builder EXCEPT !.syncing = FALSE, !.shown = rows, !.notice = synced].form = builder.form
      BY <1>1, <3>2 DEF IsBuilder
    <3>3. QED
      BY <1>1, <2>1, <3>1, <3>2, Zenon
  <2>3. /\ templateCalls' = templateCalls \ {call} \/ templateCalls' = Chain(templateCalls, call, "load", about)
        /\ UNCHANGED templateDb
    BY <1>3, Zenon DEF SyncArrives
  <2>4. \A c \in templateCalls' : c \in templateCalls \/ (IsCall(c) /\ c.op = "load" /\ c.answer = Waiting)
    <3> HIDE DEF about
    <3>1. QED
      BY <2>3, ChainAdds
  <2>5. \A c \in templateCalls' : c \in templateCalls \/ (TemplateCall(c) /\ CallIsSampled(builder.form, c))
    BY <2>4, TemplateCallSent DEF CallIsSampled
  <2>6. QED
    BY <2>2, <2>3, <2>5, SampleKept, Zenon
<1>4. CASE DeleteAnswered(call)
  <2> DEFINE shown == builder.shown \ {call.about.name}
  <2>1. builder' = builder \/ builder' = [builder EXCEPT !.shown = shown]
    BY <1>4, Zenon DEF DeleteAnswered
  <2>2. IsBuilder(builder') /\ builder'.form = builder.form
    <3> HIDE DEF shown
    <3>1. shown \subseteq 0..MaxActs
      BY <1>1 DEF shown, IsBuilder
    <3>2. IsBuilder([builder EXCEPT !.shown = shown]) /\ [builder EXCEPT !.shown = shown].form = builder.form
      BY <1>1, <3>1 DEF IsBuilder
    <3>3. QED
      BY <1>1, <2>1, <3>2, Zenon
  <2>3. templateCalls' = templateCalls \ {call} /\ UNCHANGED templateDb
    BY <1>4, Zenon DEF DeleteAnswered
  <2>4. QED
    BY <2>2, <2>3, SampleKept, Zenon
<1>5. QED
  BY <1>2, <1>3, <1>4, Zenon

(* What the operator sends is for the header that is shown.                *)
LEMMA TemplateSendsKeepSample ==
  ASSUME SampleInv,
         HandleSyncMetaTemplates \/ HandleHeaderMediaUpload \/ HandleCreateTemplate
         \/ (\E name : HandleDeleteTemplate(name))
  PROVE  SampleInv'
<1>1. /\ IsBuilder(builder) /\ IsForm(builder.form) /\ MayBeSampled(builder.form) /\ IsTemplateDb(templateDb)
      /\ Room(builder.acts, templateDb.lost)
  BY DEF SampleInv, HandleSyncMetaTemplates, HandleHeaderMediaUpload, HandleCreateTemplate, HandleDeleteTemplate,
         ActsOnTemplates
<1>2. ASSUME NEW op, NEW about, NEW page, IsBuilder(page), page.form = builder.form, page.acts = builder.acts,
             builder' = TemplateAct(page),
             templateCalls' = Send(templateCalls, op, about), UNCHANGED templateDb,
             op = "upload" => about.kind = builder.form.header /\ about.kind \in MediaKinds,
             op = "create" => IsForm(about.form) /\ Sampled(about.form)
      PROVE  SampleInv'
  <2>1. IsBuilder(builder') /\ builder'.form = builder.form
    BY <1>1, <1>2, TemplateActKeeps, Zenon
  <2>2. \A c \in templateCalls' :
          c \in templateCalls \/ (IsCall(c) /\ c.op = op /\ c.about = about /\ c.answer = Waiting)
    <3>1. templateCalls' = Send(templateCalls, op, about)
      BY <1>2, Zenon
    <3>2. QED
      BY <3>1, SendAddsWaiting
  <2>3. \A c \in templateCalls' : c \in templateCalls \/ (TemplateCall(c) /\ CallIsSampled(builder.form, c))
    <3>1. ASSUME NEW c, IsCall(c), c.op = op, c.about = about, c.answer = Waiting
          PROVE  TemplateCall(c) /\ CallIsSampled(builder.form, c)
      BY <1>2, <3>1, TemplateCallSent, Zenon DEF CallIsSampled
    <3>2. QED
      BY <2>2, <3>1, Zenon
  <2>4. QED
    BY <1>2, <2>1, <2>3, SampleKept, Zenon
<1>3. CASE HandleSyncMetaTemplates
  <2> DEFINE notice == ""
             page == [builder EXCEPT !.syncing = TRUE, !.notice = notice]
             about == [channel |-> builder.channel]
  <2>1. IsBuilder(page) /\ page.form = builder.form /\ page.acts = builder.acts
    <3> HIDE DEF notice
    <3>1. QED
      BY <1>1 DEF IsBuilder
  <2>2. /\ builder' = TemplateAct(page) /\ templateCalls' = Send(templateCalls, "sync", about)
        /\ UNCHANGED templateDb
    BY <1>3, Zenon DEF HandleSyncMetaTemplates
  <2>3. QED
    <3> HIDE DEF page, about
    <3>1. "sync" # "upload" /\ "sync" # "create"
      OBVIOUS
    <3>2. QED
      BY <1>2, <2>1, <2>2, <3>1, Zenon
<1>4. CASE HandleHeaderMediaUpload
  <2> DEFINE page == [builder EXCEPT !.uploading = TRUE]
             about == [kind |-> builder.form.header]
  <2>1. IsBuilder(page) /\ page.form = builder.form /\ page.acts = builder.acts
    BY <1>1 DEF IsBuilder
  <2>2. /\ builder' = TemplateAct(page) /\ templateCalls' = Send(templateCalls, "upload", about)
        /\ UNCHANGED templateDb
    BY <1>4, Zenon DEF HandleHeaderMediaUpload
  <2>3. about.kind = builder.form.header /\ about.kind \in MediaKinds
    BY <1>4 DEF HandleHeaderMediaUpload
  <2>4. QED
    <3> HIDE DEF page, about
    <3>1. "upload" # "create"
      OBVIOUS
    <3>2. QED
      BY <1>2, <2>1, <2>2, <2>3, <3>1, Zenon
<1>5. CASE HandleCreateTemplate
  <2> DEFINE about == [form |-> builder.form]
  <2>1. /\ builder' = TemplateAct(builder) /\ templateCalls' = Send(templateCalls, "create", about)
        /\ UNCHANGED templateDb /\ ~HeaderErrors
    BY <1>5, Zenon DEF HandleCreateTemplate
  <2>2. Sampled(builder.form)
    BY <1>1, <2>1, Zenon DEF HeaderErrors, MayBeSampled, Sampled
  <2>3. about.form = builder.form
    OBVIOUS
  <2>4. QED
    <3> HIDE DEF about
    <3>1. "upload" # "create"
      OBVIOUS
    <3>2. IsForm(about.form) /\ Sampled(about.form)
      BY <1>1, <2>2, <2>3, Zenon
    <3>3. QED
      BY <1>1, <1>2, <2>1, <3>1, <3>2, Zenon
<1>6. ASSUME NEW name, HandleDeleteTemplate(name)
      PROVE  SampleInv'
  <2> DEFINE about == [name |-> name]
  <2>1. /\ builder' = TemplateAct(builder) /\ templateCalls' = Send(templateCalls, "delete", about)
        /\ UNCHANGED templateDb
    BY <1>6, Zenon DEF HandleDeleteTemplate
  <2>2. QED
    <3> HIDE DEF about
    <3>1. "delete" # "upload" /\ "delete" # "create"
      OBVIOUS
    <3>2. QED
      BY <1>1, <1>2, <2>1, <3>1, Zenon
<1>7. QED
  BY <1>3, <1>4, <1>5, <1>6, Zenon


LEMMA WriteForm ==
  ASSUME NEW f, IsForm(f), NEW v \in MediaKinds \cup {None}, NEW n \in 0..MaxActs
  PROVE  /\ IsForm([f EXCEPT !.sample = v]) /\ [f EXCEPT !.sample = v].header = f.header
         /\ [f EXCEPT !.sample = v].behind = f.behind /\ [f EXCEPT !.sample = v].sample = v
         /\ IsForm([f EXCEPT !.name = n]) /\ [f EXCEPT !.name = n].header = f.header
         /\ [f EXCEPT !.name = n].behind = f.behind /\ [f EXCEPT !.name = n].sample = f.sample
  BY DEF IsForm

(* Filling in the builder: a header that is changed loses its sample, and  *)
(* a file that was chosen for another one marks the form.                  *)
LEMMA BuilderKeepsSample ==
  ASSUME SampleInv,
         OpenBuilder \/ CloseBuilder \/ FillName \/ (\E channel : SelectMetaChannel(channel))
         \/ (\E header \in HeaderKinds : ChangeHeader(header))
  PROVE  SampleInv'
<1>1. IsBuilder(builder) /\ IsForm(builder.form) /\ MayBeSampled(builder.form) /\ IsTemplateDb(templateDb)
  BY DEF SampleInv
<1>2. CASE OpenBuilder
  <2> DEFINE page == [builder EXCEPT !.open = TRUE]
  <2>1. IsBuilder(page) /\ page.form = builder.form /\ page.acts = builder.acts
    BY <1>1 DEF IsBuilder
  <2>2. /\ builder' = TemplateAct(page) /\ UNCHANGED <<templateCalls, templateDb>>
        /\ Room(builder.acts, templateDb.lost)
    BY <1>2, Zenon DEF OpenBuilder
  <2>3. IsBuilder(builder') /\ builder'.form = builder.form
    <3> HIDE DEF page
    <3>1. QED
      BY <1>1, <2>1, <2>2, TemplateActKeeps, Zenon
  <2>4. QED
    BY <2>2, <2>3, SampleKept, Zenon
<1>3. CASE CloseBuilder
  <2>1. builder' = [builder EXCEPT !.open = FALSE] /\ UNCHANGED <<templateCalls, templateDb>>
    BY <1>3, Zenon DEF CloseBuilder
  <2>2. IsBuilder(builder') /\ builder'.form = builder.form
    BY <1>1, <2>1 DEF IsBuilder
  <2>3. QED
    BY <2>1, <2>2, SampleKept, Zenon
<1>4. ASSUME NEW channel, SelectMetaChannel(channel)
      PROVE  SampleInv'
  <2> DEFINE page == [builder EXCEPT !.channel = channel]
  <2>1. IsBuilder(page) /\ page.form = builder.form /\ page.acts = builder.acts
    <3>1. channel \in MetaChannels
      BY <1>1, <1>4 DEF SelectMetaChannel, IsBuilder
    <3>2. QED
      BY <1>1, <3>1 DEF IsBuilder
  <2>2. /\ builder' = TemplateAct(page) /\ UNCHANGED <<templateCalls, templateDb>>
        /\ Room(builder.acts, templateDb.lost)
    BY <1>4, Zenon DEF SelectMetaChannel
  <2>3. IsBuilder(builder') /\ builder'.form = builder.form
    <3> HIDE DEF page
    <3>1. QED
      BY <1>1, <2>1, <2>2, TemplateActKeeps, Zenon
  <2>4. QED
    BY <2>2, <2>3, SampleKept, Zenon
<1>5. CASE FillName
  <2> DEFINE form == [builder.form EXCEPT !.name = builder.acts]
  <2>1. builder' = [builder EXCEPT !.form = form] /\ UNCHANGED <<templateCalls, templateDb>>
    BY <1>5, Zenon DEF FillName
  <2>2. /\ IsForm(form) /\ form.header = builder.form.header
        /\ form.behind = builder.form.behind /\ form.sample = builder.form.sample
    <3>1. builder.acts \in 0..MaxActs /\ None \in MediaKinds \cup {None}
      BY <1>1 DEF IsBuilder
    <3>2. QED
      BY <1>1, <3>1, WriteForm, Zenon
  <2>3. IsBuilder(builder') /\ builder'.form = form
    <3> HIDE DEF form
    <3>1. QED
      BY <1>1, <2>1 DEF IsBuilder
  <2>4. MayBeSampled(builder'.form)
    BY <1>1, <2>2, <2>3, Zenon DEF MayBeSampled, Sampled
  <2>5. \A c \in templateCalls' : c.op = "upload" => builder'.form.behind \/ c.about.kind = builder'.form.header
    BY <2>1, <2>2, <2>3, Zenon DEF SampleInv, CallIsSampled
  <2>6. QED
    <3> HIDE DEF form
    <3>1. templateCalls' \subseteq templateCalls
      BY <2>1, Zenon
    <3>2. QED
      BY <2>1, <2>2, <2>3, <2>4, <2>5, <3>1, SampleWritten, Zenon
<1>6. ASSUME NEW header \in HeaderKinds, ChangeHeader(header)
      PROVE  SampleInv'
  <2> DEFINE behind == Uploads # {}
             form == [builder.form EXCEPT !.header = header, !.sample = None, !.behind = behind]
  <2>1. builder' = [builder EXCEPT !.form = form] /\ UNCHANGED <<templateCalls, templateDb>>
    BY <1>6, Zenon DEF ChangeHeader
  <2>2. IsForm(form) /\ form.sample = None /\ form.behind = behind
    <3>1. behind \in BOOLEAN
      OBVIOUS
    <3> HIDE DEF behind
    <3>2. QED
      BY <1>1, <1>6, <3>1 DEF IsForm
  <2>3. IsBuilder(builder') /\ builder'.form = form
    <3> HIDE DEF form
    <3>1. QED
      BY <1>1, <2>1 DEF IsBuilder
  <2>4. \A c \in templateCalls' : c.op = "upload" => behind
    BY <2>1 DEF Uploads
  <2>5. MayBeSampled(builder'.form) /\ templateCalls' \subseteq templateCalls
    BY <2>1, <2>2, <2>3, Zenon DEF MayBeSampled
  <2>6. QED
    <3> HIDE DEF form, behind
    <3>1. QED
      BY <2>1, <2>2, <2>3, <2>4, <2>5, SampleWritten, Zenon
<1>7. QED
  BY <1>2, <1>3, <1>4, <1>5, <1>6, Zenon

LEMMA OpenedBuilder ==
  ASSUME NEW acts \in 0..MaxActs
  PROVE  IsBuilder(TemplatesOpened(acts)) /\ TemplatesOpened(acts).form = EmptyForm
<1> DEFINE notice == ""
           opened == TemplatesOpened(acts)
<1>1. opened = [mounted |-> TRUE, shown |-> {}, channels |-> {}, channel |-> None, syncing |-> FALSE,
                open |-> FALSE, form |-> EmptyForm, uploading |-> FALSE, notice |-> notice, acts |-> acts]
  BY Zenon DEF TemplatesOpened
<1>2. QED
  <2> HIDE DEF opened, notice
  <2>1. IsBuilder(opened) /\ opened.form = EmptyForm
    BY <1>1 DEF IsBuilder
  <2>2. QED
    BY <2>1, Zenon DEF opened

(* The answers that write the form, and leaving the page.                  *)
LEMMA TemplateAnswersKeepSample ==
  ASSUME SampleInv, LeaveTemplates \/ (\E call \in templateCalls : UploadArrives(call) \/ CreateAnswered(call))
  PROVE  SampleInv'
<1>1. /\ IsBuilder(builder) /\ IsForm(builder.form) /\ MayBeSampled(builder.form)
      /\ \A c \in templateCalls : TemplateCall(c) /\ CallIsSampled(builder.form, c)
  BY DEF SampleInv
<1>2. IsForm(EmptyForm) /\ EmptyForm.sample = None /\ MaxActs \in 0..MaxActs
  BY PanelCallsAssumption DEF EmptyForm, IsForm, HeaderKinds
<1>3. ASSUME NEW call \in templateCalls, UploadArrives(call)
      PROVE  SampleInv'
  <2> DEFINE sample == IF call.answer = Failed THEN None ELSE call.about.kind
             form == [builder.form EXCEPT !.sample = sample]
  <2>1. /\ builder' = [builder EXCEPT !.uploading = FALSE, !.form = form]
        /\ templateCalls' = templateCalls \ {call} /\ UNCHANGED templateDb /\ call.op = "upload"
    <3>1. builder' = [builder EXCEPT !.uploading = FALSE, !.form.sample = sample]
      BY <1>3, Zenon DEF UploadArrives
    <3>2. templateCalls' = templateCalls \ {call} /\ UNCHANGED templateDb
      BY <1>3, Zenon DEF UploadArrives
    <3>3. call.op = "upload"
      BY <1>3, Zenon DEF UploadArrives, Done
    <3>4. [builder EXCEPT !.uploading = FALSE, !.form.sample = sample]
            = [builder EXCEPT !.uploading = FALSE, !.form = form]
      <4> HIDE DEF sample
      <4>1. QED
        BY <1>1 DEF IsBuilder
    <3>5. QED
      BY <3>1, <3>2, <3>3, <3>4, Zenon
  <2>2. /\ IsForm(form) /\ form.header = builder.form.header
        /\ form.behind = builder.form.behind /\ form.sample = sample
    <3>1. sample \in MediaKinds \cup {None} /\ 0 \in 0..MaxActs
      BY <1>1, <2>1, PanelCallsAssumption DEF TemplateCall
    <3> HIDE DEF sample
    <3>2. QED
      BY <1>1, <3>1, WriteForm, Zenon
  <2>3. IsBuilder(builder') /\ builder'.form = form
    <3> HIDE DEF form
    <3>1. QED
      BY <1>1, <2>1 DEF IsBuilder
  <2>4. sample # None => builder.form.behind \/ sample = builder.form.header
    BY <1>1, <2>1, Zenon DEF CallIsSampled
  <2>5. MayBeSampled(builder'.form)
    <3> HIDE DEF form, sample
    <3>1. QED
      BY <2>2, <2>3, <2>4, Zenon DEF MayBeSampled, Sampled
  <2>6. /\ templateCalls' \subseteq templateCalls
        /\ \A c \in templateCalls' : c.op = "upload" => builder'.form.behind \/ c.about.kind = builder'.form.header
    <3> HIDE DEF form, sample
    <3>1. QED
      BY <1>1, <2>1, <2>2, <2>3 DEF CallIsSampled
  <2>7. QED
    <3> HIDE DEF form
    <3>1. QED
      BY <2>1, <2>2, <2>3, <2>5, <2>6, SampleWritten, Zenon
<1>4. ASSUME NEW call \in templateCalls, CreateAnswered(call)
      PROVE  SampleInv'
  <2> DEFINE behind == Uploads # {}
             form == [EmptyForm EXCEPT !.behind = behind]
             shown == builder.shown \cup {call.about.form.name}
             created == "created"
             page == [builder EXCEPT !.shown = shown, !.open = FALSE, !.notice = created, !.form = form]
  <2>1. /\ builder' = builder \/ builder' = page
        /\ templateCalls' = templateCalls \ {call} /\ UNCHANGED templateDb
    BY <1>4, Zenon DEF CreateAnswered
  <2>2. CASE builder' = builder
    BY <1>1, <2>1, <2>2, SampleKept, Zenon
  <2>3. CASE builder' = page
    <3>1. IsForm(form) /\ form.sample = None /\ form.behind = behind
      <4>1. behind \in BOOLEAN
        OBVIOUS
      <4> HIDE DEF behind
      <4>2. QED
        BY <1>2, <4>1 DEF IsForm
    <3>2. IsBuilder(builder') /\ builder'.form = form
      <4>1. shown \subseteq 0..MaxActs
        <5>1. call.op = "create"
          BY <1>4, Zenon DEF CreateAnswered, Done
        <5>2. call.about.form.name \in 0..MaxActs
          BY <1>1, <5>1 DEF TemplateCall, IsForm
        <5>3. QED
          BY <1>1, <5>2 DEF IsBuilder
      <4> HIDE DEF form, shown, created
      <4>2. IsBuilder(builder)
        BY <1>1, Zenon
      <4>3. IsBuilder(page) /\ page.form = form
        BY <4>1, <4>2 DEF IsBuilder
      <4>4. QED
        BY <2>3, <4>3, Zenon
    <3>3. \A c \in templateCalls' : c.op = "upload" => behind
      BY <2>1 DEF Uploads
    <3>4. MayBeSampled(builder'.form)
      BY <3>1, <3>2, Zenon DEF MayBeSampled
    <3>5. templateCalls' \subseteq templateCalls
      BY <2>1
    <3>6. QED
      <4> HIDE DEF form, behind, page
      <4>1. QED
        BY <2>1, <3>1, <3>2, <3>3, <3>4, <3>5, SampleWritten, Zenon
  <2>4. QED
    BY <2>1, <2>2, <2>3, Zenon
<1>5. CASE LeaveTemplates
  <2> DEFINE empty == TemplatesOpened(MaxActs)
  <2>1. IsBuilder(empty) /\ empty.form = EmptyForm
    BY <1>2, OpenedBuilder
  <2>2. builder' = [empty EXCEPT !.mounted = FALSE] /\ UNCHANGED templateDb
    BY <1>5, Zenon DEF LeaveTemplates
  <2>3. IsBuilder(builder') /\ builder'.form = EmptyForm
    <3> HIDE DEF empty
    <3>1. QED
      BY <2>1, <2>2 DEF IsBuilder
  <2>4. /\ templateCalls' \subseteq templateCalls
        /\ \A c \in templateCalls' : c.op # "upload"
    BY <1>5 DEF LeaveTemplates
  <2>5. MayBeSampled(builder'.form)
    BY <1>2, <2>3, Zenon DEF MayBeSampled
  <2>6. QED
    BY <1>2, <2>2, <2>3, <2>4, <2>5, SampleWritten, Zenon
<1>6. QED
  BY <1>3, <1>4, <1>5, Zenon

(* What the server answers to a reader of the list.                        *)
LEMMA ReadsAreLists ==
  ASSUME NEW db, IsTemplateDb(db), \A r \in db.rows : IsForm(r)
  PROVE  Lists(Reads(db).result)
<1> DEFINE rows == {r.name : r \in db.rows} \cup (IF db.synced THEN {0} ELSE {})
<1>1. Reads(db).result = [rows |-> rows, channels |-> db.channels]
  BY Zenon DEF Reads, Ok
<1>2. rows \subseteq 0..MaxActs
  <2>1. 0 \in 0..MaxActs /\ \A r \in db.rows : r.name \in 0..MaxActs
    BY PanelCallsAssumption DEF IsForm
  <2>2. QED
    BY <2>1
<1>3. db.channels \subseteq MetaChannels
  BY DEF IsTemplateDb
<1>4. QED
  <2> HIDE DEF rows
  <2>1. Reads(db).result.rows = rows /\ Reads(db).result.channels = db.channels
    BY <1>1
  <2>2. QED
    BY <1>2, <1>3, <2>1 DEF Lists

(* What reaches Meta is what was sent.                                     *)
LEMMA TemplateServerKeepsSample ==
  ASSUME SampleInv, NEW call \in templateCalls, TemplateServer(call) \/ TemplateCallFails(call)
  PROVE  SampleInv'
<1> DEFINE db == templateDb
           name == call.about.name
           form == call.about.form
           synced == [db EXCEPT !.synced = TRUE]
           kept == {r \in db.rows : r.name # name}
           known == db.synced /\ name # 0
           lost == db.lost + 1
           Answers(answer) == /\ templateCalls' = Answered(templateCalls, call, answer)
                              /\ call.op \in {"load", "sync"} /\ answer # Failed => Lists(answer.result)
<1>1. /\ IsTemplateDb(db) /\ TemplateCall(call) /\ IsCall(call)
      /\ \A c \in templateCalls : TemplateCall(c) /\ CallIsSampled(builder.form, c)
      /\ \A r \in db.rows : IsForm(r) /\ Sampled(r)
  BY DEF SampleInv, TemplateCall
<1>2. IsTemplateDb(synced) /\ synced.rows = db.rows
  BY <1>1 DEF IsTemplateDb
<1>3. UNCHANGED builder /\ \E answer : Answers(answer)
  <2>1. UNCHANGED builder
    BY Zenon DEF TemplateServer, TemplateCallFails
  <2>2. Lists(Reads(db).result) /\ Lists(Reads(synced).result)
    <3> HIDE DEF synced
    <3>1. QED
      BY <1>1, <1>2, ReadsAreLists
  <2>3. CASE call.op \in {"load", "sync"} /\ TemplateServer(call)
    <3>1. \/ templateCalls' = Answered(templateCalls, call, Reads(db))
          \/ templateCalls' = Answered(templateCalls, call, Reads(synced))
      BY <2>3 DEF TemplateServer
    <3>2. Answers(Reads(db)) \/ Answers(Reads(synced))
      <4> HIDE DEF synced
      <4>1. QED
        BY <2>2, <3>1, Zenon
    <3> HIDE DEF Answers
    <3>3. QED
      BY <2>1, <3>2, Zenon
  <2>4. CASE call.op \notin {"load", "sync"} /\ TemplateServer(call)
    <3>1. \E answer : templateCalls' = Answered(templateCalls, call, answer)
      BY <2>4, Zenon DEF TemplateServer
    <3>2. PICK answer : templateCalls' = Answered(templateCalls, call, answer)
      BY <3>1
    <3>3. Answers(answer)
      BY <2>4, <3>2, Zenon
    <3> HIDE DEF Answers
    <3>4. QED
      BY <2>1, <3>3, Zenon
  <2>5. CASE TemplateCallFails(call)
    <3>1. Answers(Failed)
      BY <2>5, Zenon DEF TemplateCallFails
    <3> HIDE DEF Answers
    <3>2. QED
      BY <2>1, <3>1, Zenon
  <2>6. QED
    BY <2>1, <2>3, <2>4, <2>5, Zenon
<1>4. \A c \in templateCalls' : TemplateCall(c) /\ CallIsSampled(builder.form, c)
  <2>1. PICK answer : Answers(answer)
    BY <1>3, Zenon
  <2>2. \A c \in templateCalls' : \/ c \in templateCalls \ {call}
                                  \/ IsCall(c) /\ c.op = call.op /\ c.about = call.about /\ c.answer = answer
    BY <1>1, <2>1, AnsweredReplaces
  <2>3. QED
    BY <1>1, <2>1, <2>2 DEF CallIsSampled, TemplateCall, IsDone
<1>5. \/ templateDb' = db
      \/ templateDb' = synced
      \/ templateDb' = [db EXCEPT !.rows = kept, !.synced = known]
      \/ templateDb' = [db EXCEPT !.rows = @ \cup {form}] /\ call.op = "create"
      \/ templateDb' = [db EXCEPT !.lost = lost] /\ db.lost < MaxLost
  BY Zenon DEF TemplateServer, TemplateCallFails, MayFail
<1>6. IsTemplateDb(templateDb') /\ \A r \in templateDb'.rows : r \in db.rows \/ (r = form /\ call.op = "create")
  <2>1. known \in BOOLEAN /\ (db.lost < MaxLost => lost \in 0..MaxLost)
    BY <1>1, PanelCallsAssumption DEF IsTemplateDb
  <2> HIDE DEF form, lost, known
  <2>2. /\ IsTemplateDb([db EXCEPT !.rows = kept, !.synced = known])
        /\ [db EXCEPT !.rows = kept, !.synced = known].rows = kept
    <3> HIDE DEF kept
    <3>1. QED
      BY <1>1, <2>1 DEF IsTemplateDb
  <2>3. /\ IsTemplateDb([db EXCEPT !.rows = @ \cup {form}])
        /\ [db EXCEPT !.rows = @ \cup {form}].rows = db.rows \cup {form}
    BY <1>1 DEF IsTemplateDb
  <2>4. db.lost < MaxLost => IsTemplateDb([db EXCEPT !.lost = lost]) /\ [db EXCEPT !.lost = lost].rows = db.rows
    BY <1>1, <2>1 DEF IsTemplateDb
  <2>5. kept \subseteq db.rows
    OBVIOUS
  <2>6. CASE templateDb' = db
    BY <1>1, <2>6, Zenon
  <2>7. CASE templateDb' = synced
    <3> HIDE DEF synced
    <3>1. QED
      BY <1>2, <2>7, Zenon
  <2>8. CASE templateDb' = [db EXCEPT !.rows = kept, !.synced = known]
    <3> HIDE DEF kept
    <3>1. IsTemplateDb(templateDb') /\ templateDb'.rows = kept
      BY <2>2, <2>8, Zenon
    <3>2. QED
      BY <2>5, <3>1
  <2>9. CASE templateDb' = [db EXCEPT !.rows = @ \cup {form}] /\ call.op = "create"
    <3>1. IsTemplateDb(templateDb') /\ templateDb'.rows = db.rows \cup {form}
      BY <2>3, <2>9, Zenon
    <3>2. QED
      BY <2>9, <3>1
  <2>10. CASE templateDb' = [db EXCEPT !.lost = lost] /\ db.lost < MaxLost
    BY <2>4, <2>10, Zenon
  <2>11. QED
    BY <1>5, <2>6, <2>7, <2>8, <2>9, <2>10, Zenon
<1>7. \A r \in templateDb'.rows : IsForm(r) /\ Sampled(r)
  BY <1>1, <1>6, Zenon DEF CallIsSampled, TemplateCall
<1>8. QED
  BY <1>3, <1>4, <1>6, <1>7, Zenon DEF SampleInv

LEMMA SampleStepInv ==
  ASSUME SampleInv, [TemplatesNext]_templateVars
  PROVE  SampleInv'
<1>1. CASE UNCHANGED templateVars
  BY <1>1, Zenon DEF templateVars, SampleInv
<1>2. CASE TemplatesNext
  BY <1>2, TemplateReadsKeepSample, TemplateSendsKeepSample, BuilderKeepsSample, TemplateAnswersKeepSample,
     TemplateServerKeepsSample, Zenon DEF TemplatesNext
<1>3. QED
  BY <1>1, <1>2

LEMMA SampleInitInv ==
  ASSUME TemplatesInit \/ TemplatesClosed
  PROVE  SampleInv
<1> DEFINE opened == TemplatesOpened(0)
           about == [why |-> "open"]
<1>1. IsBuilder(opened) /\ opened.form = EmptyForm
  <2>1. 0 \in 0..MaxActs
    BY PanelCallsAssumption
  <2>2. QED
    BY <2>1, OpenedBuilder
<1>2. IsForm(EmptyForm) /\ MayBeSampled(EmptyForm)
  BY PanelCallsAssumption DEF EmptyForm, IsForm, MayBeSampled, HeaderKinds
<1>3. builder = opened \/ builder = [opened EXCEPT !.mounted = FALSE]
  BY Zenon DEF TemplatesInit, TemplatesClosed
<1>4. IsBuilder(builder) /\ builder.form = EmptyForm
  <2> HIDE DEF opened
  <2>1. QED
    BY <1>1, <1>3 DEF IsBuilder
<1>5. IsTemplateDb(templateDb) /\ templateDb.rows = {}
  <2>1. \E channels \in SUBSET MetaChannels : templateDb = [channels |-> channels, rows |-> {}, synced |-> FALSE, lost |-> 0]
    <3>1. CASE TemplatesInit
      BY <3>1 DEF TemplatesInit
    <3>2. CASE TemplatesClosed
      BY <3>2, Zenon DEF TemplatesClosed
    <3>3. QED
      BY <3>1, <3>2
  <2>2. QED
    BY <2>1, PanelCallsAssumption DEF IsTemplateDb
<1>6. \A c \in templateCalls : IsCall(c) /\ c.op = "load" /\ c.answer = Waiting
  <2>1. templateCalls = {} \/ templateCalls = Send({}, "load", about)
    BY Zenon DEF TemplatesInit, TemplatesClosed
  <2>2. QED
    <3> HIDE DEF about
    <3>1. QED
      BY <2>1, SendAddsWaiting
<1>7. \A c \in templateCalls : TemplateCall(c) /\ CallIsSampled(builder.form, c)
  BY <1>6, TemplateCallSent DEF CallIsSampled
<1>8. QED
  BY <1>2, <1>4, <1>5, <1>7 DEF SampleInv

LEMMA SentIsSampled == SampleInv => SampleIsOfTheHeader
  BY DEF SampleInv, Sampled, SampleIsOfTheHeader

LEMMA TemplateTypes == SampleInv => TemplatesTypeOK
  BY DEF SampleInv, IsBuilder, IsForm, IsTemplateDb, TemplatesTypeOK

-----------------------------------------------------------------------------
(* The page of channels *)

IsConnect(w) ==
  w \in [mounted : BOOLEAN, shown : SUBSET (Sessions \cup Others), modal : BOOLEAN, type : ChannelTypes,
         scanning : BOOLEAN, scan : Sessions \cup {None}, qr : Sessions \cup {None},
         poller : Sessions \cup {None}, crossed : BOOLEAN, acts : {w.acts}]

IsChannelDb(db) ==
  db \in [sessions : SUBSET Sessions, states : [Sessions -> SessionStates], others : SUBSET Others, lost : 0..MaxLost]

ChannelCall(c) ==
  /\ IsCall(c)
  /\ c.op = "list" /\ IsDone(c) => c.answer.result.channels \subseteq Sessions \cup Others
  /\ c.op \notin {"list", "webchat"} => c.about.of \in Sessions

(* While the scanner is shown and was not started across another one, what *)
(* is asked for, and what has been shown, is the session of the scan.      *)
ScansOne(w, calls) ==
  w.scanning /\ ~w.crossed =>
    /\ w.qr \in {None, w.scan} /\ w.poller = w.scan
    /\ \A c \in calls : c.op = "poll" => c.about.of = w.scan

ScanInv ==
  /\ IsConnect(connect) /\ IsChannelDb(channelDb)
  /\ \A c \in channelCalls : ChannelCall(c)
  /\ ScansOne(connect, channelCalls)

(* The same scan, or none, and no other session asked for.                 *)
LEMMA ScanKept ==
  ASSUME ScanInv, IsConnect(connect'), IsChannelDb(channelDb'),
         connect'.scanning => /\ connect.scanning /\ connect'.crossed = connect.crossed
                              /\ connect'.scan = connect.scan /\ connect'.poller = connect.poller
                              /\ connect'.qr \in {connect.qr, connect.scan} \/ connect.crossed,
         \A c \in channelCalls' :
            c \in channelCalls \/ (ChannelCall(c) /\ (c.op = "poll" => c.about.of = connect.poller))
  PROVE  ScanInv'
<1>1. \A c \in channelCalls' : ChannelCall(c)
  BY DEF ScanInv
<1>2. ScansOne(connect', channelCalls')
  BY DEF ScanInv, ScansOne
<1>3. QED
  BY <1>1, <1>2, Zenon DEF ScanInv

(* A call that is sent awaits its answer.                                  *)
LEMMA ChannelCallSent ==
  ASSUME NEW c, IsCall(c), c.answer = Waiting, c.op \notin {"list", "webchat"} => c.about.of \in Sessions
  PROVE  ChannelCall(c)
  BY DEF ChannelCall, IsDone

LEMMA StartKeepsScan ==
  ASSUME NEW page, IsConnect(page), NEW s \in Sessions, NEW calls, StartScanner(page, s, calls),
         \A c \in calls : ChannelCall(c), IsChannelDb(channelDb')
  PROVE  ScanInv'
<1> DEFINE crossed == \E c \in calls : c.op = "poll" /\ c.about.of # s
           scanning == page.mounted
           about == [of |-> s]
<1>1. /\ connect' = [page EXCEPT !.scanning = scanning, !.scan = s, !.qr = None, !.poller = s, !.crossed = crossed]
      /\ channelCalls' = Send(calls, "poll", about)
  BY Zenon DEF StartScanner
<1>2. /\ IsConnect(connect') /\ connect'.scan = s /\ connect'.qr = None /\ connect'.poller = s
      /\ connect'.crossed = crossed
  <2>1. crossed \in BOOLEAN /\ scanning \in BOOLEAN
    BY DEF IsConnect
  <2> HIDE DEF crossed, scanning
  <2>2. QED
    BY <1>1, <2>1 DEF IsConnect
<1>3. \A c \in channelCalls' : c \in calls \/ (IsCall(c) /\ c.about = about /\ c.answer = Waiting)
  <2> HIDE DEF about
  <2>1. QED
    BY <1>1, SendAddsWaiting
<1>4. about.of = s
  OBVIOUS
<1>5. \A c \in channelCalls' : ChannelCall(c)
  <2> HIDE DEF about
  <2>1. QED
    BY <1>3, <1>4, ChannelCallSent
<1>6. ScansOne(connect', channelCalls')
  <2> HIDE DEF about
  <2>1. QED
    BY <1>2, <1>3, <1>4 DEF ScansOne
<1>7. QED
  BY <1>2, <1>5, <1>6, Zenon DEF ScanInv

LEMMA ChannelActKeeps ==
  ASSUME NEW w, IsConnect(w)
  PROVE  /\ IsConnect(ChannelAct(w)) /\ ChannelAct(w).scanning = w.scanning /\ ChannelAct(w).scan = w.scan
         /\ ChannelAct(w).qr = w.qr /\ ChannelAct(w).poller = w.poller /\ ChannelAct(w).crossed = w.crossed
<1> DEFINE acts == w.acts + 1
<1>1. ChannelAct(w) = [w EXCEPT !.acts = acts]
  BY Zenon DEF ChannelAct
<1>2. QED
  <2> HIDE DEF acts
  <2>1. QED
    BY <1>1 DEF IsConnect

(* The scan of the page is left as it is.                                  *)
SameScan(w, w2) ==
  /\ IsConnect(w2) /\ w2.scanning = w.scanning /\ w2.scan = w.scan
  /\ w2.qr = w.qr /\ w2.poller = w.poller /\ w2.crossed = w.crossed

LEMMA SameScanKept ==
  ASSUME ScanInv, SameScan(connect, connect'), IsChannelDb(channelDb'),
         \A c \in channelCalls' :
            c \in channelCalls \/ (ChannelCall(c) /\ (c.op = "poll" => c.about.of = connect.poller))
  PROVE  ScanInv'
  BY ScanKept, Zenon DEF SameScan

(* What the operator sends, and what a read of the list sends, is no poll. *)
LEMMA OtherSendKeepsScan ==
  ASSUME ScanInv, SameScan(connect, connect'), IsChannelDb(channelDb'), NEW calls \in SUBSET channelCalls,
         NEW op, op # "poll", NEW about, op \notin {"list", "webchat"} => about.of \in Sessions,
         channelCalls' = Send(calls, op, about)
  PROVE  ScanInv'
<1>1. \A c \in channelCalls' : c \in calls \/ (ChannelCall(c) /\ c.op = op)
  BY SendAddsWaiting, ChannelCallSent
<1>2. \A c \in channelCalls' : c \in channelCalls \/ (ChannelCall(c) /\ (c.op = "poll" => c.about.of = connect.poller))
  BY <1>1
<1>3. QED
  BY <1>2, SameScanKept, Zenon

LEMMA FetchKeepsScan ==
  ASSUME ScanInv, SameScan(connect, connect'), IsChannelDb(channelDb'), NEW calls \in SUBSET channelCalls,
         channelCalls' = FetchChannels(calls)
  PROVE  ScanInv'
<1> DEFINE about == [of |-> None]
<1>1. channelCalls' = Send(calls, "list", about) /\ "list" # "poll"
  BY DEF FetchChannels
<1>2. QED
  <2> HIDE DEF about
  <2>1. QED
    BY <1>1, OtherSendKeepsScan

LEMMA FewerKeepScan ==
  ASSUME ScanInv, SameScan(connect, connect'), IsChannelDb(channelDb'), channelCalls' \subseteq channelCalls
  PROVE  ScanInv'
<1>1. \A c \in channelCalls' : c \in channelCalls \/ (ChannelCall(c) /\ (c.op = "poll" => c.about.of = connect.poller))
  OBVIOUS
<1>2. QED
  BY <1>1, SameScanKept, Zenon

LEMMA ScanStaysItself ==
  ASSUME ScanInv
  PROVE  SameScan(connect, connect) /\ SameScan(connect, ChannelAct(connect))
<1>1. IsConnect(connect)
  BY DEF ScanInv
<1>2. QED
  BY <1>1, ChannelActKeeps, Zenon DEF SameScan

(* The dialog: what is opened, turned or closed ends the scanner.          *)
LEMMA ConnectDialogKeepsScan ==
  ASSUME ScanInv, OpenConnect \/ CloseConnect \/ LeaveChannels \/ (\E type \in ChannelTypes : ChooseType(type))
  PROVE  ScanInv'
<1>1. IsConnect(connect) /\ IsChannelDb(channelDb')
  BY Zenon DEF ScanInv, OpenConnect, CloseConnect, LeaveChannels, ChooseType
<1>2. IsConnect(connect') /\ ~connect'.scanning
  <2>1. CASE OpenConnect
    <3> DEFINE page == [connect EXCEPT !.modal = TRUE, !.scanning = FALSE]
    <3>1. IsConnect(page) /\ ~page.scanning
      BY <1>1 DEF IsConnect
    <3>2. connect' = ChannelAct(page)
      BY <2>1, Zenon DEF OpenConnect
    <3> HIDE DEF page
    <3>3. QED
      BY <3>1, <3>2, ChannelActKeeps, Zenon
  <2>2. CASE CloseConnect
    BY <1>1, <2>2 DEF CloseConnect, IsConnect
  <2>3. CASE LeaveChannels
    BY <1>1, <2>3 DEF LeaveChannels, IsConnect
  <2>4. ASSUME NEW type \in ChannelTypes, ChooseType(type)
        PROVE  IsConnect(connect') /\ ~connect'.scanning
    <3>1. connect' = [connect EXCEPT !.type = type, !.scanning = FALSE]
      BY <2>4, Zenon DEF ChooseType
    <3>2. IsConnect(connect)
      BY <1>1, Zenon
    <3>3. QED
      BY <2>4, <3>1, <3>2 DEF IsConnect
  <2>5. QED
    BY <2>1, <2>2, <2>3, <2>4, Zenon
<1>3. channelCalls' \subseteq channelCalls
  <2>1. channelCalls' = channelCalls \/ LeaveChannels
    BY Zenon DEF OpenConnect, CloseConnect, ChooseType
  <2>2. QED
    BY <2>1 DEF LeaveChannels
<1>4. \A c \in channelCalls' : c \in channelCalls \/ (ChannelCall(c) /\ (c.op = "poll" => c.about.of = connect.poller))
  BY <1>3
<1>5. QED
  BY <1>1, <1>2, <1>4, ScanKept, Zenon

LEMMA ChannelSendsKeepScan ==
  ASSUME ScanInv,
         PollTick \/ SignupSucceeds
         \/ (\E s \in Sessions : HandleCreateChannel(s) \/ HandleLogoutWaha(s) \/ HandleRestartWaha(s))
  PROVE  ScanInv'
<1>1. IsConnect(connect) /\ IsChannelDb(channelDb)
  BY DEF ScanInv
<1>2. CASE PollTick
  <2> DEFINE about == [of |-> connect.poller]
  <2>1. connect' = connect /\ channelDb' = channelDb /\ channelCalls' = Send(channelCalls, "poll", about)
    BY <1>2, Zenon DEF PollTick
  <2>2. about.of = connect.poller /\ about.of \in Sessions
    BY <1>1, <1>2 DEF PollTick, IsConnect
  <2>3. \A c \in channelCalls' : c \in channelCalls \/ (ChannelCall(c) /\ (c.op = "poll" => c.about.of = connect.poller))
    <3> HIDE DEF about
    <3>1. QED
      BY <2>1, <2>2, SendAddsWaiting, ChannelCallSent
  <2>4. QED
    BY <1>1, <2>1, <2>3, ScanStaysItself, SameScanKept, Zenon
<1>3. CASE SignupSucceeds
  <2> DEFINE shown == connect.shown \cup {"whatsapp_meta"}
             page == [connect EXCEPT !.modal = FALSE, !.shown = shown]
  <2>1. connect' = ChannelAct(page) /\ channelCalls' = FetchChannels(channelCalls)
    BY <1>3, Zenon DEF SignupSucceeds
  <2>2. SameScan(connect, page)
    <3>1. shown \subseteq Sessions \cup Others
      BY <1>1 DEF IsConnect, Others
    <3> HIDE DEF shown
    <3>2. QED
      BY <1>1, <3>1 DEF SameScan, IsConnect
  <2>3. SameScan(connect, connect')
    <3> HIDE DEF page
    <3>1. QED
      BY <2>1, <2>2, ChannelActKeeps, Zenon DEF SameScan
  <2>4. IsChannelDb(channelDb')
    <3> DEFINE others == channelDb.others \cup {"whatsapp_meta"}
    <3>1. channelDb' = [channelDb EXCEPT !.others = others]
      BY <1>3, Zenon DEF SignupSucceeds
    <3>2. others \subseteq Others
      BY <1>1 DEF IsChannelDb, Others
    <3> HIDE DEF others
    <3>3. QED
      BY <1>1, <3>1, <3>2 DEF IsChannelDb
  <2>5. QED
    BY <2>1, <2>3, <2>4, FetchKeepsScan
<1>4. ASSUME NEW s \in Sessions, HandleCreateChannel(s) \/ HandleLogoutWaha(s) \/ HandleRestartWaha(s)
      PROVE  ScanInv'
  <2>1. connect' = ChannelAct(connect) /\ channelDb' = channelDb
    BY <1>4, Zenon DEF HandleCreateChannel, HandleLogoutWaha, HandleRestartWaha
  <2>2. SameScan(connect, connect')
    BY <2>1, ScanStaysItself, Zenon
  <2> DEFINE about == [of |-> s]
             nobody == [of |-> None]
  <2>3. /\ about.of \in Sessions
        /\ \/ channelCalls' = Send(channelCalls, "webchat", nobody)
           \/ \E op \in {"start", "logout", "restart"} : channelCalls' = Send(channelCalls, op, about)
    <3>1. about.of \in Sessions
      OBVIOUS
    <3> HIDE DEF about, nobody
    <3>2. QED
      BY <1>4, <3>1 DEF HandleCreateChannel, HandleLogoutWaha, HandleRestartWaha, about, nobody
  <2> HIDE DEF about, nobody
  <2>4. PICK op, of : /\ op # "poll" /\ (op \notin {"list", "webchat"} => of.of \in Sessions)
                      /\ channelCalls' = Send(channelCalls, op, of)
    BY <2>3
  <2>5. QED
    BY <1>1, <2>1, <2>2, <2>4, OtherSendKeepsScan
<1>5. QED
  BY <1>2, <1>3, <1>4, Zenon

ChannelAnswer(call, answer) ==
  /\ channelCalls' = Answered(channelCalls, call, answer)
  /\ call.op = "list" /\ answer # Failed => answer.result.channels \subseteq Sessions \cup Others

(* What the server knows of sessions.                                      *)
LEMMA ChannelDbWritten ==
  ASSUME NEW db, IsChannelDb(db), NEW of \in Sessions, NEW state \in SessionStates, NEW other \in Others,
         NEW lost \in 0..MaxLost
  PROVE  /\ IsChannelDb([db EXCEPT !.states[of] = state])
         /\ IsChannelDb([db EXCEPT !.states[of] = state, !.sessions = @ \cup {of}])
         /\ IsChannelDb([db EXCEPT !.others = @ \cup {other}])
         /\ IsChannelDb([db EXCEPT !.lost = lost])
<1> DEFINE states == [db.states EXCEPT ![of] = state]
           sessions == db.sessions \cup {of}
           others == db.others \cup {other}
<1>1. states \in [Sessions -> SessionStates] /\ sessions \subseteq Sessions /\ others \subseteq Others
  BY DEF IsChannelDb
<1>2. /\ [db EXCEPT !.states[of] = state] = [db EXCEPT !.states = states]
      /\ [db EXCEPT !.states[of] = state, !.sessions = @ \cup {of}]
           = [db EXCEPT !.states = states, !.sessions = sessions]
      /\ [db EXCEPT !.others = @ \cup {other}] = [db EXCEPT !.others = others]
  BY DEF IsChannelDb
<1>3. QED
  <2> HIDE DEF states, sessions, others
  <2>1. /\ IsChannelDb([db EXCEPT !.states = states])
        /\ IsChannelDb([db EXCEPT !.states = states, !.sessions = sessions])
        /\ IsChannelDb([db EXCEPT !.others = others])
        /\ IsChannelDb([db EXCEPT !.lost = lost])
    BY <1>1 DEF IsChannelDb
  <2>2. QED
    BY <1>2, <2>1

LEMMA ChannelServerAnswers ==
  ASSUME IsChannelDb(channelDb), NEW call, ChannelCall(call), ChannelServer(call) \/ ChannelCallFails(call)
  PROVE  connect' = connect /\ IsChannelDb(channelDb') /\ \E answer : ChannelAnswer(call, answer)
<1> DEFINE of == call.about.of
           done == Ok([done |-> TRUE])
           Turns(state) == [channelDb EXCEPT !.states[of] = state, !.sessions = @ \cup {of}]
<1>1. connect' = connect /\ {"SCAN_QR_CODE", "STOPPED"} \subseteq SessionStates /\ "webchat" \in Others
  BY DEF ChannelServer, ChannelCallFails, SessionStates, Others
<1>2. CASE ChannelServer(call) /\ call.op = "list"
  <2> DEFINE shown == channelDb.sessions \cup channelDb.others
             answer == Ok([channels |-> shown])
  <2>1. channelDb' = channelDb /\ channelCalls' = Answered(channelCalls, call, answer)
    BY <1>2 DEF ChannelServer
  <2>2. answer.result.channels = shown
    BY DEF Ok
  <2>3. shown \subseteq Sessions \cup Others
    BY DEF IsChannelDb
  <2>4. ChannelAnswer(call, answer)
    BY <2>1, <2>2, <2>3, Zenon DEF ChannelAnswer
  <2>5. QED
    <3> HIDE DEF answer
    <3>1. QED
      BY <1>1, <2>1, <2>4, Zenon
<1>3. CASE ChannelServer(call) /\ call.op # "list"
  <2>1. \E answer : ChannelAnswer(call, answer)
    <3>1. \E answer : channelCalls' = Answered(channelCalls, call, answer)
      BY <1>3, Zenon DEF ChannelServer
    <3>2. QED
      BY <1>3, <3>1, Zenon DEF ChannelAnswer
  <2>2. \/ channelDb' = channelDb
        \/ call.op \in {"start", "restart"} /\ channelDb' = Turns("SCAN_QR_CODE")
        \/ call.op = "logout" /\ channelDb' = Turns("STOPPED")
        \/ channelDb' = [channelDb EXCEPT !.others = @ \cup {"webchat"}]
    BY <1>3, Zenon DEF ChannelServer
  <2>3. IsChannelDb([channelDb EXCEPT !.others = @ \cup {"webchat"}])
    <3> DEFINE others == channelDb.others \cup {"webchat"}
    <3>1. others \subseteq Others
      BY <1>1 DEF IsChannelDb
    <3> HIDE DEF others
    <3>2. IsChannelDb([channelDb EXCEPT !.others = others])
      BY <3>1 DEF IsChannelDb
    <3>3. QED
      BY <3>2, Zenon DEF others
  <2>4. ASSUME call.op \in {"start", "restart", "logout"}, NEW state \in SessionStates
        PROVE  IsChannelDb(Turns(state))
    <3>1. of \in Sessions
      BY <2>4 DEF ChannelCall
    <3>2. 0 \in 0..MaxLost
      BY PanelCallsAssumption
    <3> HIDE DEF of
    <3>3. QED
      BY <1>1, <2>4, <3>1, <3>2, ChannelDbWritten, Zenon
  <2>5. IsChannelDb(channelDb')
    <3> HIDE DEF Turns
    <3>1. QED
      BY <1>1, <2>2, <2>3, <2>4
  <2>6. QED
    BY <1>1, <2>1, <2>5, Zenon
<1>4. CASE ChannelCallFails(call)
  <2> DEFINE lost == channelDb.lost + 1
  <2>1. /\ ChannelAnswer(call, Failed) /\ channelDb' = [channelDb EXCEPT !.lost = lost]
        /\ channelDb.lost < MaxLost
    BY <1>4, Zenon DEF ChannelCallFails, ChannelAnswer, MayFail
  <2>2. lost \in 0..MaxLost
    BY <2>1, PanelCallsAssumption DEF IsChannelDb
  <2>3. IsChannelDb(channelDb')
    <3> HIDE DEF lost
    <3>1. QED
      BY <2>1, <2>2 DEF IsChannelDb
  <2>4. QED
    BY <1>1, <2>1, <2>3, Zenon
<1>5. QED
  BY <1>2, <1>3, <1>4, Zenon

(* A code that arrives is that of the session it was asked for.            *)
LEMMA ChannelAnswersKeepScan ==
  ASSUME ScanInv, NEW call \in channelCalls,
         \/ ListArrives(call) \/ PollArrives(call) \/ WebchatAnswered(call) \/ LogoutAnswered(call)
         \/ SessionAnswered(call) \/ ChannelServer(call) \/ ChannelCallFails(call)
  PROVE  ScanInv'
<1>1. /\ IsConnect(connect) /\ IsChannelDb(channelDb) /\ channelCalls \ {call} \in SUBSET channelCalls
      /\ ChannelCall(call) /\ \A c \in channelCalls : ChannelCall(c)
  BY DEF ScanInv
<1>2. CASE ListArrives(call)
  <2> DEFINE shown == IF call.answer = Failed THEN {} ELSE call.answer.result.channels
  <2>1. /\ connect' = [connect EXCEPT !.shown = shown] /\ channelCalls' = channelCalls \ {call}
        /\ channelDb' = channelDb
    BY <1>2, Zenon DEF ListArrives
  <2>2. SameScan(connect, connect')
    <3>1. shown \subseteq Sessions \cup Others
      <4>1. call.op = "list" /\ call.answer # Waiting
        BY <1>2, Zenon DEF ListArrives, Done
      <4>2. QED
        BY <1>1, <4>1 DEF ChannelCall, IsDone
    <3> HIDE DEF shown
    <3>2. QED
      BY <1>1, <2>1, <3>1 DEF SameScan, IsConnect
  <2>3. QED
    BY <1>1, <2>1, <2>2, FewerKeepScan, Zenon
<1>3. CASE PollArrives(call)
  <2> DEFINE state == IF call.answer = Failed THEN "UNKNOWN" ELSE call.answer.result.state
             working == state = "WORKING"
             qr == IF state = "SCAN_QR_CODE" /\ connect.mounted THEN call.about.of ELSE connect.qr
             poller == IF working THEN None ELSE connect.poller
             scanning == connect.scanning /\ ~working
  <2>1. connect' = [connect EXCEPT !.qr = qr, !.poller = poller, !.scanning = scanning] /\ channelDb' = channelDb
    BY <1>3, Zenon DEF PollArrives
  <2>2. /\ IsConnect(connect') /\ connect'.qr = qr /\ connect'.poller = poller /\ connect'.scanning = scanning
        /\ connect'.crossed = connect.crossed /\ connect'.scan = connect.scan
    <3>1. call.about.of \in Sessions
      <4>1. call.op = "poll"
        BY <1>3, Zenon DEF PollArrives, Done
      <4>2. QED
        BY <1>1, <4>1 DEF ChannelCall
    <3>2. {qr, poller} \subseteq Sessions \cup {None} /\ scanning \in BOOLEAN
      <4> HIDE DEF state
      <4>1. QED
        BY <1>1, <3>1 DEF IsConnect
    <3> HIDE DEF qr, poller, scanning
    <3>3. QED
      BY <1>1, <2>1, <3>2 DEF IsConnect
  <2>3. call.op = "poll"
    BY <1>3, Zenon DEF PollArrives, Done
  <2>4. connect.scanning /\ ~connect.crossed => call.about.of = connect.scan
    BY <2>3, Zenon DEF ScanInv, ScansOne
  <2>5. /\ qr \in {connect.qr, call.about.of} /\ (scanning => connect.scanning /\ poller = connect.poller)
    <3> HIDE DEF state
    <3>1. QED
      BY Zenon
  <2>6. connect'.scanning => /\ connect.scanning /\ connect'.crossed = connect.crossed
                             /\ connect'.scan = connect.scan /\ connect'.poller = connect.poller
                             /\ connect'.qr \in {connect.qr, connect.scan} \/ connect.crossed
    <3> HIDE DEF qr, poller, scanning, working, state
    <3>1. QED
      BY <2>2, <2>4, <2>5
  <2>7. channelCalls' = FetchChannels(channelCalls \ {call}) \/ channelCalls' = channelCalls \ {call}
    BY <1>3, Zenon DEF PollArrives
  <2>8. \A c \in channelCalls' : c \in channelCalls \/ (ChannelCall(c) /\ c.op = "list")
    <3> DEFINE about == [of |-> None]
    <3>1. channelCalls' = Send(channelCalls \ {call}, "list", about) \/ channelCalls' = channelCalls \ {call}
      BY <2>7, Zenon DEF FetchChannels
    <3>2. QED
      <4> HIDE DEF about
      <4>1. QED
        BY <3>1, SendAddsWaiting, ChannelCallSent
  <2>9. \A c \in channelCalls' : c \in channelCalls \/ (ChannelCall(c) /\ (c.op = "poll" => c.about.of = connect.poller))
    BY <2>8
  <2>10. QED
    BY <1>1, <2>1, <2>2, <2>6, <2>9, ScanKept, Zenon
<1>4. CASE WebchatAnswered(call) \/ LogoutAnswered(call)
  <2>1. /\ connect' = connect \/ connect' = [connect EXCEPT !.modal = FALSE]
        /\ channelDb' = channelDb
        /\ channelCalls' = FetchChannels(channelCalls \ {call}) \/ channelCalls' = channelCalls \ {call}
    BY <1>4, Zenon DEF WebchatAnswered, LogoutAnswered
  <2>2. SameScan(connect, connect')
    BY <1>1, <2>1 DEF SameScan, IsConnect
  <2>3. QED
    BY <1>1, <2>1, <2>2, FetchKeepsScan, FewerKeepScan, Zenon
<1>5. CASE SessionAnswered(call)
  <2> DEFINE rest == channelCalls \ {call}
             about == [of |-> None]
             listed == [connect EXCEPT !.shown = @ \cup {call.about.of}]
  <2>1. /\ channelDb' = channelDb
        /\ \/ connect' = connect /\ channelCalls' = rest
           \/ StartScanner(listed, call.about.of, FetchChannels(rest))
           \/ StartScanner(connect, call.about.of, rest)
    BY <1>5, Zenon DEF SessionAnswered
  <2>2. \A c \in FetchChannels(rest) : ChannelCall(c)
    <3>1. FetchChannels(rest) = Send(rest, "list", about)
      BY Zenon DEF FetchChannels
    <3>2. QED
      <4> HIDE DEF about
      <4>1. QED
        BY <1>1, <3>1, SendAddsWaiting, ChannelCallSent
  <2>3. (\A c \in rest : ChannelCall(c)) /\ call.about.of \in Sessions
    <3>1. call.op \in {"start", "restart"}
      BY <1>5 DEF SessionAnswered, Done
    <3>2. QED
      BY <1>1, <3>1 DEF ChannelCall
  <2>4. IsConnect(listed)
    <3> DEFINE shown == connect.shown \cup {call.about.of}
    <3>1. shown \subseteq Sessions \cup Others
      BY <1>1, <2>3 DEF IsConnect
    <3>2. listed = [connect EXCEPT !.shown = shown]
      BY Zenon
    <3> HIDE DEF shown, listed
    <3>3. QED
      BY <1>1, <3>1, <3>2 DEF IsConnect
  <2>5. QED
    <3> HIDE DEF rest, listed
    <3>1. CASE connect' = connect /\ channelCalls' = rest
      BY <1>1, <2>1, <3>1, ScanStaysItself, FewerKeepScan DEF rest
    <3>2. QED
      BY <1>1, <2>1, <2>2, <2>3, <2>4, <3>1, StartKeepsScan, Zenon
<1>6. CASE ChannelServer(call) \/ ChannelCallFails(call)
  <2>1. connect' = connect /\ IsChannelDb(channelDb') /\ \E answer : ChannelAnswer(call, answer)
    BY <1>1, <1>6, ChannelServerAnswers, Zenon
  <2>2. PICK answer : ChannelAnswer(call, answer)
    BY <2>1
  <2>3. \A c \in channelCalls' : \/ c \in channelCalls \ {call}
                                 \/ IsCall(c) /\ c.op = call.op /\ c.about = call.about /\ c.answer = answer
    BY <1>1, <2>2, AnsweredReplaces DEF ChannelAnswer, ChannelCall
  <2>4. ScansOne(connect', channelCalls')
    BY <2>1, <2>3 DEF ScanInv, ScansOne
  <2>5. \A c \in channelCalls' : ChannelCall(c)
    BY <1>1, <2>2, <2>3 DEF ChannelCall, ChannelAnswer, IsDone
  <2>6. QED
    BY <1>1, <2>1, <2>4, <2>5, Zenon DEF ScanInv
<1>7. QED
  BY <1>2, <1>3, <1>4, <1>5, <1>6, Zenon

LEMMA ScanStepInv ==
  ASSUME ScanInv, [ChannelsNext]_channelVars
  PROVE  ScanInv'
<1>1. CASE UNCHANGED channelVars
  BY <1>1, Zenon DEF channelVars, ScanInv
<1>2. ASSUME NEW s \in Sessions, PhoneReads(s)
      PROVE  ScanInv'
  <2>1. channelDb' = [channelDb EXCEPT !.states[s] = "WORKING"] /\ UNCHANGED <<connect, channelCalls>>
    BY <1>2, Zenon DEF PhoneReads
  <2>2. IsChannelDb(channelDb')
    <3>1. "WORKING" \in SessionStates /\ 0 \in 0..MaxLost /\ "webchat" \in Others
      BY PanelCallsAssumption DEF SessionStates, Others
    <3>2. IsChannelDb(channelDb)
      BY DEF ScanInv
    <3>3. QED
      BY <2>1, <3>1, <3>2, ChannelDbWritten, Zenon
  <2>3. QED
    BY <2>1, <2>2, Zenon DEF ScanInv
<1>3. CASE ChannelsNext
  BY <1>2, <1>3, ConnectDialogKeepsScan, ChannelSendsKeepScan, ChannelAnswersKeepScan, Zenon DEF ChannelsNext
<1>4. QED
  BY <1>1, <1>3

LEMMA ScanInitInv ==
  ASSUME ChannelsInit \/ ChannelsClosed
  PROVE  ScanInv
<1> DEFINE about == [of |-> None]
<1>1. IsConnect(connect) /\ ~connect.scanning
  <2>1. IsConnect(ChannelsOpened) /\ ~ChannelsOpened.scanning
    BY DEF ChannelsOpened, IsConnect, ChannelTypes
  <2>2. connect = ChannelsOpened \/ connect = [ChannelsOpened EXCEPT !.mounted = FALSE]
    BY Zenon DEF ChannelsInit, ChannelsClosed
  <2> HIDE DEF ChannelsOpened
  <2>3. QED
    BY <2>1, <2>2 DEF IsConnect
<1>2. channelCalls = {} \/ channelCalls = Send({}, "list", about)
  BY Zenon DEF ChannelsInit, ChannelsClosed
<1>3. \A c \in channelCalls : ChannelCall(c)
  <2> HIDE DEF about
  <2>1. QED
    BY <1>2, SendAddsWaiting, ChannelCallSent
<1>4. IsChannelDb(channelDb)
  <2> DEFINE stopped == [s \in Sessions |-> "STOPPED"]
  <2>1. stopped \in [Sessions -> SessionStates] /\ 0 \in 0..MaxLost
    BY PanelCallsAssumption DEF SessionStates
  <2>2. \E sessions \in SUBSET Sessions :
          channelDb = [sessions |-> sessions, states |-> stopped, others |-> {}, lost |-> 0]
    <3> HIDE DEF stopped
    <3>1. CASE ChannelsInit
      BY <3>1 DEF ChannelsInit, stopped
    <3>2. CASE ChannelsClosed
      BY <3>2 DEF ChannelsClosed, stopped
    <3>3. QED
      BY <3>1, <3>2
  <2>3. QED
    <3> HIDE DEF stopped
    <3>1. QED
      BY <2>1, <2>2 DEF IsChannelDb
<1>5. QED
  BY <1>1, <1>3, <1>4 DEF ScanInv, ScansOne

LEMMA ScanIsShown == ScanInv => QrIsOfTheScan
  BY DEF ScanInv, ScansOne, QrIsOfTheScan

LEMMA ChannelTypesHold == ScanInv => ChannelsTypeOK
  BY DEF ScanInv, IsConnect, IsChannelDb, ChannelsTypeOK

-----------------------------------------------------------------------------
(* The page of contacts *)

IsPeopleDb(db) == db \in [changes : {db.changes}, fields : {db.fields}, lost : {db.lost}]

(* A call the list depends on: a read of it, or a form after which it is   *)
(* read again.                                                             *)
ForList(c) == c.op = "list" \/ (c.op = "save" /\ c.about.form # "field")

Asked(m, db) == [search |-> m.search, page |-> m.page, changes |-> db.changes]

(* Unless it is muddled, one such call at most is in flight, for what is   *)
(* shown now, and with none the list is the one asked for.                 *)
ListIsComing(m, calls, db) ==
  m.mounted /\ ~m.muddled =>
    /\ \A c, d \in calls : ForList(c) /\ ForList(d) => c = d
    /\ \A c \in calls : ForList(c) =>
         c.about.search = m.search /\ c.about.page = m.page /\ c.answer # Failed
    /\ \A c \in calls : c.op = "list" /\ c.answer # Waiting => c.answer.result.list = Asked(m, db)
    /\ (\A c \in calls : ~ForList(c)) => m.list = Asked(m, db)

ListInv == PeopleInv /\ IsPeopleDb(peopleDb) /\ ListIsComing(people, peopleCalls, peopleDb)

(* Pages that show the same list, by the same search.                      *)
SameList(m, m2) ==
  m2.mounted /\ ~m2.muddled =>
    m.mounted /\ ~m.muddled /\ m2.search = m.search /\ m2.page = m.page /\ m2.list = m.list

(* What takes part in no list may come and go.                             *)
LEMMA ListKept ==
  ASSUME NEW m, NEW calls, NEW db, ListIsComing(m, calls, db), NEW m2, SameList(m, m2),
         NEW db2, db2.changes = db.changes, NEW calls2,
         \A c \in calls2 : c \in calls \/ ~ForList(c),
         \A c \in calls : c \in calls2 \/ ~ForList(c)
  PROVE  ListIsComing(m2, calls2, db2)
<1>1. SUFFICES ASSUME m2.mounted, ~m2.muddled
               PROVE  ListIsComing(m2, calls2, db2)
  BY Zenon DEF ListIsComing
<1>2. m.mounted /\ ~m.muddled /\ m2.search = m.search /\ m2.page = m.page /\ m2.list = m.list
  BY <1>1, Zenon DEF SameList
<1>3. Asked(m2, db2) = Asked(m, db)
  BY <1>2, Zenon DEF Asked
<1>4. /\ \A c, d \in calls2 : ForList(c) /\ ForList(d) => c = d
      /\ \A c \in calls2 : ForList(c) =>
           c.about.search = m2.search /\ c.about.page = m2.page /\ c.answer # Failed
  BY <1>2, Zenon DEF ListIsComing
<1>5. \A c \in calls2 : c.op = "list" /\ c.answer # Waiting => c.answer.result.list = Asked(m2, db2)
  BY <1>2, <1>3, Zenon DEF ListIsComing, ForList
<1>6. (\A c \in calls2 : ~ForList(c)) => m2.list = Asked(m2, db2)
  BY <1>2, <1>3, Zenon DEF ListIsComing
<1>7. QED
  BY <1>4, <1>5, <1>6, Zenon DEF ListIsComing

(* A call of the list that is on its way alone.                            *)
LEMMA ListAsked ==
  ASSUME NEW m, NEW calls, NEW db, NEW new \in calls, ForList(new),
         \A c \in calls : ForList(c) => c = new,
         new.about.search = m.search, new.about.page = m.page, new.answer # Failed,
         new.op = "list" /\ new.answer # Waiting => new.answer.result.list = Asked(m, db)
  PROVE  ListIsComing(m, calls, db)
  BY Zenon DEF ListIsComing, ForList

(* Something the operator does with nothing in flight starts afresh;       *)
(* otherwise it muddles the list.                                          *)
LEMMA ListAskedAlone ==
  ASSUME NEW m, NEW calls, NEW db, NEW op, NEW about, ForList([op |-> op, about |-> about]),
         ~m.muddled => calls = {}, about.search = m.search, about.page = m.page
  PROVE  ListIsComing(m, Send(calls, op, about), db)
<1> DEFINE new == [slot |-> FreeSlot(calls), op |-> op, about |-> about, answer |-> Waiting]
           sent == Send(calls, op, about)
<1>1. CASE m.muddled
  BY <1>1, Zenon DEF ListIsComing
<1>2. CASE ~m.muddled
  <2>1. sent = {new}
    BY <1>2 DEF Send
  <2>2. new.op = op /\ new.about = about /\ new.answer = Waiting
    OBVIOUS
  <2>3. ForList(new)
    <3>1. [op |-> op, about |-> about].op = op /\ [op |-> op, about |-> about].about = about
      OBVIOUS
    <3>2. QED
      BY <2>2, <3>1, Zenon DEF ForList
  <2>4. new \in sent /\ (\A c \in sent : c = new)
    BY <2>1
  <2>5. QED
    <3> HIDE DEF new, sent
    <3>1. ListIsComing(m, sent, db)
      BY <2>2, <2>3, <2>4, AnswersDiffer, ListAsked, Zenon
    <3>2. QED
      BY <3>1, Zenon DEF sent
<1>3. QED
  BY <1>1, <1>2

(* A read that belongs to a form ends it, and shows the same list.         *)
LEMMA FinishesKeepsList ==
  ASSUME NEW page, IsPeople(page), NEW form
  PROVE  /\ IsPeople(Finishes(page, form)) /\ Finishes(page, form).mounted = page.mounted
         /\ Finishes(page, form).muddled = page.muddled /\ Finishes(page, form).search = page.search
         /\ Finishes(page, form).page = page.page /\ Finishes(page, form).list = page.list
<1>1. CASE form = None
  <2>1. Finishes(page, form) = page
    BY <1>1, Zenon DEF Finishes
  <2>2. QED
    BY <2>1, Zenon
<1>2. CASE form # None
  <2>1. Finishes(page, form) = [page EXCEPT !.modal = None, !.submitting = FALSE]
    BY <1>2, Zenon DEF Finishes
  <2>2. QED
    BY <2>1 DEF IsPeople
<1>3. QED
  BY <1>1, <1>2

LEMMA ContactReadsKeepList ==
  ASSUME ListInv, NEW call \in peopleCalls, ContactsArrive(call) \/ FieldsArrive(call)
  PROVE  ListIsComing(people', peopleCalls', peopleDb')
<1> DEFINE result == call.answer.result
           form == call.about.form
<1>1. /\ IsPeople(people) /\ people.mounted /\ peopleCalls' = peopleCalls \ {call} /\ peopleDb' = peopleDb
      /\ ListIsComing(people, peopleCalls, peopleDb)
  BY Zenon DEF ListInv, PeopleInv, ContactsArrive, FieldsArrive
<1>2. CASE FieldsArrive(call)
  <2> DEFINE known == [people EXCEPT !.fields = result.fields]
  <2>1. PICK page \in {people, known} : people' = Finishes(page, form)
    BY <1>2, Zenon DEF FieldsArrive
  <2>2. IsPeople(page) /\ page.muddled = people.muddled /\ page.search = people.search
        /\ page.page = people.page /\ page.list = people.list
    <3>1. /\ IsPeople(known) /\ known.muddled = people.muddled /\ known.search = people.search
          /\ known.page = people.page /\ known.list = people.list
      <4> HIDE DEF result
      <4>1. QED
        BY <1>1 DEF IsPeople
    <3>2. QED
      <4> HIDE DEF known
      <4>1. QED
        BY <1>1, <2>1, <3>1, Zenon
  <2>3. SameList(people, people')
    BY <1>1, <2>1, <2>2, FinishesKeepsList, Zenon DEF SameList
  <2>4. ~ForList(call)
    BY <1>2 DEF FieldsArrive, Done, ForList
  <2>5. QED
    <3>1. \A c \in peopleCalls : c \in peopleCalls' \/ ~ForList(c)
      BY <1>1, <2>4
    <3>2. \A c \in peopleCalls' : c \in peopleCalls \/ ~ForList(c)
      BY <1>1
    <3>3. QED
      BY <1>1, <2>3, <3>1, <3>2, ListKept, Zenon
<1>3. CASE ContactsArrive(call)
  <2> DEFINE listed == [people EXCEPT !.list = result.list, !.pages = result.pages]
             page == IF call.answer = Failed THEN people ELSE listed
  <2>1. people' = Finishes(page, form)
    BY <1>3, Zenon DEF ContactsArrive
  <2>2. call.op = "list" /\ call.answer # Waiting
    BY <1>3 DEF ContactsArrive, Done
  <2>3. /\ IsPeople(listed) /\ listed.muddled = people.muddled /\ listed.search = people.search
        /\ listed.page = people.page /\ listed.list = result.list
    <3> HIDE DEF result
    <3>1. QED
      BY <1>1 DEF IsPeople
  <2>4. SUFFICES ASSUME ~people'.muddled
                 PROVE  ListIsComing(people', peopleCalls', peopleDb')
    BY Zenon DEF ListIsComing
  <2>5. /\ IsPeople(page) /\ page.muddled = people.muddled /\ page.search = people.search
        /\ page.page = people.page
    <3> HIDE DEF listed
    <3>1. QED
      BY <1>1, <2>3, Zenon
  <2>6. /\ people'.muddled = people.muddled /\ people'.search = people.search
        /\ people'.page = people.page /\ people'.list = page.list
    <3> HIDE DEF page
    <3>1. QED
      BY <2>1, <2>5, FinishesKeepsList, Zenon
  <2>7. call.answer # Failed /\ result.list = Asked(people, peopleDb)
    BY <1>1, <2>2, <2>4, <2>6, Zenon DEF ListIsComing, ForList
  <2>8. people'.list = Asked(people', peopleDb')
    <3>1. page.list = result.list
      <4> HIDE DEF listed
      <4>1. QED
        BY <2>3, <2>7, Zenon
    <3>2. QED
      BY <1>1, <2>6, <2>7, <3>1, Zenon DEF Asked
  <2>9. \A c \in peopleCalls' : ~ForList(c)
    <3>1. ForList(call)
      BY <2>2, Zenon DEF ForList
    <3>2. \A c \in peopleCalls : ForList(c) => c = call
      BY <1>1, <2>4, <2>6, <3>1, Zenon DEF ListIsComing
    <3>3. QED
      BY <1>1, <3>2
  <2>10. QED
    BY <2>8, <2>9, Zenon DEF ListIsComing, ForList
<1>4. QED
  BY <1>2, <1>3

(* A form that was saved is followed by a read for what it was saved       *)
(* under; the forms of the fields have no part in it.                      *)
LEMMA ContactWritesKeepList ==
  ASSUME ListInv, NEW call \in peopleCalls, DialogAnswered(call) \/ FieldDeleted(call)
  PROVE  ListIsComing(people', peopleCalls', peopleDb')
<1>1. /\ IsPeople(people) /\ people.mounted /\ peopleDb' = peopleDb
      /\ ListIsComing(people, peopleCalls, peopleDb)
  BY Zenon DEF ListInv, PeopleInv, DialogAnswered, FieldDeleted
<1>2. /\ IsPeople(people') /\ people'.muddled = people.muddled /\ people'.search = people.search
      /\ people'.page = people.page /\ people'.list = people.list
  <2> DEFINE busy == people.submitting /\ call.about.form = None
  <2>1. people' = people \/ people' = [people EXCEPT !.submitting = busy]
    BY Zenon DEF DialogAnswered, FieldDeleted
  <2>2. QED
    <3> HIDE DEF busy
    <3>1. QED
      BY <1>1, <2>1 DEF IsPeople
<1>3. SUFFICES ASSUME ~people'.muddled
               PROVE  ListIsComing(people', peopleCalls', peopleDb')
  BY Zenon DEF ListIsComing
<1>4. SameList(people, people')
  BY <1>1, <1>2, <1>3, Zenon DEF SameList
<1>5. CASE ~ForList(call) /\ peopleCalls' = peopleCalls \ {call}
  <2>1. \A c \in peopleCalls : c \in peopleCalls' \/ ~ForList(c)
    BY <1>5
  <2>2. \A c \in peopleCalls' : c \in peopleCalls \/ ~ForList(c)
    BY <1>5
  <2>3. QED
    BY <1>1, <1>4, <2>1, <2>2, ListKept, Zenon
<1>6. ASSUME ~ForList(call), NEW about, peopleCalls' = Chain(peopleCalls, call, "fields", about)
      PROVE  ListIsComing(people', peopleCalls', peopleDb')
  <2>1. \A c \in peopleCalls : c \in peopleCalls' \/ ~ForList(c)
    BY <1>6 DEF Chain, Send
  <2>2. \A c \in peopleCalls' : c \in peopleCalls \/ c.op = "fields"
    BY <1>6, ChainAdds
  <2>3. \A c \in peopleCalls' : c \in peopleCalls \/ ~ForList(c)
    BY <2>2 DEF ForList
  <2>4. QED
    BY <1>1, <1>4, <2>1, <2>3, ListKept, Zenon
<1>7. CASE FieldDeleted(call)
  <2>1. ~ForList(call)
    BY <1>7 DEF FieldDeleted, Done, ForList
  <2>2. peopleCalls' = peopleCalls \ {call} \/ peopleCalls' = Chain(peopleCalls, call, "fields", call.about)
    BY <1>7, Zenon DEF FieldDeleted
  <2>3. QED
    BY <1>5, <1>6, <2>1, <2>2, Zenon
<1>8. CASE DialogAnswered(call) /\ ForList(call)
  <2> DEFINE new == [slot |-> FreeSlot(peopleCalls \ {call}), op |-> "list", about |-> call.about, answer |-> Waiting]
  <2>1. /\ \A c \in peopleCalls : ForList(c) => c = call
        /\ call.about.search = people.search /\ call.about.page = people.page /\ call.answer # Failed
    BY <1>1, <1>2, <1>3, <1>8, Zenon DEF ListIsComing
  <2>2. call.op = "save"
    BY <1>8 DEF DialogAnswered, Done
  <2>3. call.about.form # "field"
    BY <1>8, <2>2 DEF ForList
  <2>4. peopleCalls' = Chain(peopleCalls, call, "list", call.about)
    BY <1>8, <2>1, <2>3, Zenon DEF DialogAnswered
  <2>5. peopleCalls' = (peopleCalls \ {call}) \cup {new}
    BY <2>4, Zenon DEF Chain, Send
  <2>6. new.op = "list" /\ new.about = call.about /\ new.answer = Waiting
    OBVIOUS
  <2>7. new \in peopleCalls' /\ ForList(new) /\ (\A c \in peopleCalls' : ForList(c) => c = new)
    <3> HIDE DEF new
    <3>1. ForList(new)
      BY <2>6, Zenon DEF ForList
    <3>2. QED
      BY <2>1, <2>5, <3>1
  <2>8. QED
    <3> HIDE DEF new
    <3>1. new.about.search = people'.search /\ new.about.page = people'.page /\ new.answer # Failed
      BY <1>2, <2>1, <2>6, AnswersDiffer, Zenon
    <3>2. QED
      BY <2>6, <2>7, <3>1, ListAsked, Zenon
<1>9. CASE DialogAnswered(call) /\ ~ForList(call)
  <2> DEFINE about == [form |-> "field"]
  <2>1. call.op = "save"
    BY <1>9 DEF DialogAnswered, Done
  <2>2. call.about.form = "field"
    BY <1>9, <2>1 DEF ForList
  <2>3. peopleCalls' = peopleCalls \ {call} \/ peopleCalls' = Chain(peopleCalls, call, "fields", about)
    BY <1>9, <2>2, Zenon DEF DialogAnswered
  <2>4. QED
    <3> HIDE DEF about
    <3>1. QED
      BY <1>5, <1>6, <1>9, <2>3, Zenon
<1>10. QED
  BY <1>7, <1>8, <1>9, Zenon

LEMMA ContactActDoes ==
  ASSUME NEW page, IsPeople(page), NEW reads
  PROVE  /\ ContactAct(page, reads).muddled = (peopleCalls # {} \/ (page.muddled /\ ~reads))
         /\ ContactAct(page, reads).search = page.search /\ ContactAct(page, reads).page = page.page
         /\ ContactAct(page, reads).list = page.list /\ ContactAct(page, reads).mounted = page.mounted
<1> DEFINE muddled == peopleCalls # {} \/ (page.muddled /\ ~reads)
<1>1. ContactAct(page, reads) = [page EXCEPT !.acts = @ + 1, !.muddled = muddled]
  BY Zenon DEF ContactAct
<1>2. QED
  <2> HIDE DEF muddled
  <2>1. /\ ContactAct(page, reads).muddled = muddled
        /\ ContactAct(page, reads).search = page.search /\ ContactAct(page, reads).page = page.page
        /\ ContactAct(page, reads).list = page.list /\ ContactAct(page, reads).mounted = page.mounted
    BY <1>1 DEF IsPeople
  <2>2. QED
    BY <2>1, Zenon DEF muddled

(* Searching, turning the page and saving a contact ask for the list; with *)
(* something in flight the page is muddled.                                *)
LEMMA ContactActsKeepList ==
  ASSUME ListInv,
         \/ Debounce \/ SaveDialog \/ DeleteContactField
         \/ \E page : TurnPage(page)
  PROVE  ListIsComing(people', peopleCalls', peopleDb')
<1>1. IsPeople(people) /\ ListIsComing(people, peopleCalls, peopleDb) /\ peopleDb' = peopleDb
  BY Zenon DEF ListInv, PeopleInv, Debounce, SaveDialog, DeleteContactField, TurnPage
<1>2. \A m, form : /\ Reading(m, form).search = m.search /\ Reading(m, form).page = m.page
                   /\ Reading(m, form).form = form
  BY DEF Reading
<1>3. \A about : /\ ForList([op |-> "list", about |-> about])
                 /\ about.form # "field" => ForList([op |-> "save", about |-> about])
  BY DEF ForList
<1>4. CASE Debounce
  <2> DEFINE next == [people EXCEPT !.typed = FALSE, !.search = people.input, !.page = 1]
             muddled == peopleCalls # {}
             reads == [next EXCEPT !.muddled = muddled]
             about == Reading(next, None)
  <2>1. /\ IsPeople(next) /\ next.search = people.input /\ next.page = 1 /\ next.list = people.list
        /\ next.mounted = people.mounted /\ next.muddled = people.muddled
    BY <1>1 DEF IsPeople
  <2>2. reads.muddled = muddled /\ reads.search = next.search /\ reads.page = next.page
    <3> HIDE DEF next, muddled
    <3>1. QED
      BY <2>1 DEF IsPeople
  <2>3. \/ people' = next /\ peopleCalls' = peopleCalls /\ next.search = people.search /\ next.page = people.page
        \/ people' = reads /\ peopleCalls' = Send(peopleCalls, "list", about)
    BY <1>4, Zenon DEF Debounce
  <2>4. CASE /\ people' = next /\ peopleCalls' = peopleCalls
             /\ next.search = people.search /\ next.page = people.page
    <3> HIDE DEF next
    <3>1. SameList(people, people')
      BY <2>1, <2>4, Zenon DEF SameList
    <3>2. \A c \in peopleCalls : c \in peopleCalls' \/ ~ForList(c)
      BY <2>4, Zenon
    <3>3. \A c \in peopleCalls' : c \in peopleCalls \/ ~ForList(c)
      BY <2>4, Zenon
    <3>4. QED
      BY <1>1, <3>1, <3>2, <3>3, ListKept, Zenon
  <2>5. CASE people' = reads /\ peopleCalls' = Send(peopleCalls, "list", about)
    <3>1. about.search = next.search /\ about.page = next.page
      <4> HIDE DEF next
      <4>1. QED
        BY <1>2, Zenon
    <3>2. ForList([op |-> "list", about |-> about]) /\ (~people'.muddled => peopleCalls = {})
      <4> HIDE DEF about, reads
      <4>1. QED
        BY <1>3, <2>2, <2>5, Zenon
    <3>3. about.search = people'.search /\ about.page = people'.page
      <4> HIDE DEF about, reads, next
      <4>1. QED
        BY <2>2, <2>5, <3>1, Zenon
    <3>4. QED
      <4> HIDE DEF about, reads
      <4>1. ListIsComing(people', Send(peopleCalls, "list", about), peopleDb')
        BY <3>2, <3>3, ListAskedAlone, Zenon
      <4>2. QED
        BY <2>5, <4>1, Zenon
  <2>6. QED
    BY <2>3, <2>4, <2>5, Zenon
<1>5. ASSUME NEW page, TurnPage(page)
      PROVE  ListIsComing(people', peopleCalls', peopleDb')
  <2> DEFINE turned == [people EXCEPT !.page = page]
             about == Reading(people', None)
  <2>1. people' = ContactAct(turned, TRUE) /\ peopleCalls' = Send(peopleCalls, "list", about)
    BY <1>5, Zenon DEF TurnPage
  <2>2. IsPeople(turned)
    BY <1>1 DEF IsPeople
  <2>3. ~people'.muddled => peopleCalls = {}
    <3> HIDE DEF turned
    <3>1. QED
      BY <2>1, <2>2, ContactActDoes, Zenon
  <2>4. about.search = people'.search /\ about.page = people'.page
    BY <1>2, Zenon
  <2>5. ForList([op |-> "list", about |-> about])
    BY <1>3, Zenon
  <2>6. QED
    <3> HIDE DEF about, turned
    <3>1. ListIsComing(people', Send(peopleCalls, "list", about), peopleDb')
      BY <2>3, <2>4, <2>5, ListAskedAlone, Zenon
    <3>2. QED
      BY <2>1, <3>1, Zenon
<1>6. ASSUME NEW m, IsPeople(m), m.search = people.search, m.page = people.page, m.list = people.list,
             m.mounted = people.mounted, m.muddled = people.muddled, NEW op, NEW about,
             people' = ContactAct(m, FALSE), peopleCalls' = Send(peopleCalls, op, about),
             op \notin {"list", "save"} \/ (op = "save" /\ about.form = "field")
      PROVE  ListIsComing(people', peopleCalls', peopleDb')
  <2>1. SameList(people, people')
    BY <1>6, ContactActDoes, Zenon DEF SameList
  <2>2. \A c \in peopleCalls' : c \in peopleCalls \/ (c.op = op /\ c.about = about)
    <3>1. peopleCalls' = Send(peopleCalls, op, about)
      BY <1>6
    <3>2. QED
      BY <3>1, SendAdds
  <2>3. \A c \in peopleCalls' : c \in peopleCalls \/ ~ForList(c)
    BY <1>6, <2>2 DEF ForList
  <2>4. \A c \in peopleCalls : c \in peopleCalls' \/ ~ForList(c)
    BY <1>6 DEF Send
  <2>5. QED
    BY <1>1, <2>1, <2>3, <2>4, ListKept, Zenon
<1>7. CASE DeleteContactField
  <2> DEFINE about == [form |-> None]
  <2>1. people' = ContactAct(people, FALSE) /\ peopleCalls' = Send(peopleCalls, "deleteField", about)
    BY <1>7, Zenon DEF DeleteContactField
  <2>2. "deleteField" \notin {"list", "save"}
    OBVIOUS
  <2>3. QED
    <3> HIDE DEF about
    <3>1. QED
      BY <1>1, <1>6, <2>1, <2>2, Zenon
<1>8. CASE SaveDialog
  <2> DEFINE page == [people EXCEPT !.submitting = TRUE]
             about == Reading(people, people.modal)
  <2>1. /\ people' = ContactAct(page, people.modal # "field") /\ peopleCalls' = Send(peopleCalls, "save", about)
    BY <1>8, Zenon DEF SaveDialog
  <2>2. /\ IsPeople(page) /\ page.search = people.search /\ page.page = people.page /\ page.list = people.list
        /\ page.mounted = people.mounted /\ page.muddled = people.muddled
    BY <1>1 DEF IsPeople
  <2>3. about.search = people.search /\ about.page = people.page /\ about.form = people.modal
    BY <1>2, Zenon
  <2>4. CASE people.modal = "field"
    <3>1. people' = ContactAct(page, FALSE)
      <4> HIDE DEF page
      <4>1. (people.modal # "field") = FALSE
        BY <2>4
      <4>2. QED
        BY <2>1, <4>1
    <3>2. QED
      <4> HIDE DEF page, about
      <4>1. QED
        BY <1>6, <2>1, <2>2, <2>3, <2>4, <3>1, Zenon
  <2>5. CASE people.modal # "field"
    <3>1. /\ ~people'.muddled => peopleCalls = {}
          /\ people'.search = people.search /\ people'.page = people.page
      <4> HIDE DEF page
      <4>1. QED
        BY <2>1, <2>2, <2>5, ContactActDoes, Zenon
    <3>2. ForList([op |-> "save", about |-> about])
      <4> HIDE DEF about
      <4>1. QED
        BY <1>3, <2>3, <2>5, Zenon
    <3>3. QED
      <4> HIDE DEF about, page
      <4>1. about.search = people'.search /\ about.page = people'.page
        BY <2>3, <3>1, Zenon
      <4>2. ListIsComing(people', Send(peopleCalls, "save", about), peopleDb')
        BY <3>1, <3>2, <4>1, ListAskedAlone, Zenon
      <4>3. QED
        BY <2>1, <4>2, Zenon
  <2>6. QED
    BY <2>4, <2>5
<1>9. QED
  BY <1>4, <1>5, <1>7, <1>8, Zenon

LEMMA ContactDialogsKeepList ==
  ASSUME ListInv,
         \/ CloseDialog \/ LeaveContacts \/ (\E form : OpenDialog(form)) \/ (\E view : ChooseView(view))
         \/ (\E input : TypeSearch(input))
  PROVE  ListIsComing(people', peopleCalls', peopleDb')
<1>1. IsPeople(people) /\ ListIsComing(people, peopleCalls, peopleDb) /\ peopleDb' = peopleDb
  BY Zenon DEF ListInv, PeopleInv, CloseDialog, LeaveContacts, OpenDialog, ChooseView, TypeSearch
<1>2. CASE LeaveContacts
  <2>1. ~people'.mounted
    BY <1>1, <1>2 DEF LeaveContacts, IsPeople
  <2>2. QED
    BY <2>1, Zenon DEF ListIsComing
<1>3. CASE ~LeaveContacts
  <2>1. peopleCalls' = peopleCalls
    BY <1>3, Zenon DEF CloseDialog, OpenDialog, ChooseView, TypeSearch
  <2> DEFINE Same == /\ people'.mounted = people.mounted /\ people'.muddled = people.muddled
                     /\ people'.search = people.search /\ people'.page = people.page
                     /\ people'.list = people.list
  <2>2. Same
    <3>1. CASE CloseDialog
      BY <1>1, <3>1 DEF CloseDialog, IsPeople
    <3>2. ASSUME NEW form, OpenDialog(form)
          PROVE  Same
      BY <1>1, <3>2 DEF OpenDialog, IsPeople
    <3>3. ASSUME NEW view, ChooseView(view)
          PROVE  Same
      BY <1>1, <3>3 DEF ChooseView, IsPeople
    <3>4. ASSUME NEW input, TypeSearch(input)
          PROVE  Same
      BY <1>1, <3>4 DEF TypeSearch, IsPeople
    <3>5. QED
      BY <1>3, <3>1, <3>2, <3>3, <3>4, Zenon
  <2>3. SameList(people, people')
    BY <2>2, Zenon DEF SameList
  <2>4. \A c : c \in peopleCalls <=> c \in peopleCalls'
    BY <2>1, Zenon
  <2>5. QED
    BY <1>1, <2>3, <2>4, ListKept, Zenon
<1>4. QED
  BY <1>2, <1>3

(* The server answers a read with the list as it is; the one save that is  *)
(* in flight is the only one to change it.                                 *)
LEMMA ContactServerKeepsList ==
  ASSUME ListInv, NEW call \in peopleCalls, ContactServer(call)
  PROVE  ListIsComing(people', peopleCalls', peopleDb')
<1>1. /\ IsPeople(people) /\ IsPeopleDb(peopleDb) /\ IsCall(call) /\ people' = people
      /\ ListIsComing(people, peopleCalls, peopleDb)
  BY Zenon DEF ListInv, PeopleInv, Held, ContactServer
<1>2. SUFFICES ASSUME people.mounted, ~people.muddled
               PROVE  ListIsComing(people', peopleCalls', peopleDb')
  BY <1>1, Zenon DEF ListIsComing
<1>3. ASSUME ~ForList(call), NEW answer, peopleCalls' = Answered(peopleCalls, call, answer),
             peopleDb'.changes = peopleDb.changes
      PROVE  ListIsComing(people', peopleCalls', peopleDb')
  <2>1. \A c \in peopleCalls' : \/ c \in peopleCalls \ {call}
                                \/ IsCall(c) /\ c.op = call.op /\ c.about = call.about /\ c.answer = answer
    BY <1>1, <1>3, AnsweredReplaces
  <2>2. \A c \in peopleCalls' : c \in peopleCalls \/ ~ForList(c)
    BY <1>3, <2>1, Zenon DEF ForList
  <2>3. \A c \in peopleCalls : c \in peopleCalls' \/ ~ForList(c)
    BY <1>3 DEF Answered
  <2>4. SameList(people, people')
    BY <1>1, <1>2, Zenon DEF SameList
  <2>5. QED
    BY <1>1, <1>3, <2>2, <2>3, <2>4, ListKept, Zenon
<1>4. ASSUME ForList(call), NEW answer, answer # Failed, peopleCalls' = Answered(peopleCalls, call, answer),
             call.op = "list" => answer.result.list = Asked(people, peopleDb')
      PROVE  ListIsComing(people', peopleCalls', peopleDb')
  <2> DEFINE new == [slot |-> call.slot, op |-> call.op, about |-> call.about, answer |-> answer]
  <2>1. peopleCalls' = (peopleCalls \ {call}) \cup {new}
    BY <1>1, <1>4, AnswerKeepsCall, Zenon DEF Answered
  <2>2. new.op = call.op /\ new.about = call.about /\ new.answer = answer
    OBVIOUS
  <2>3. /\ \A c \in peopleCalls : ForList(c) => c = call
        /\ call.about.search = people.search /\ call.about.page = people.page
    BY <1>1, <1>2, <1>4, Zenon DEF ListIsComing
  <2>4. ForList(new)
    BY <1>4, <2>2, Zenon DEF ForList
  <2>5. new \in peopleCalls' /\ (\A c \in peopleCalls' : ForList(c) => c = new)
    <3> HIDE DEF new
    <3>1. QED
      BY <2>1, <2>3
  <2>6. QED
    <3> HIDE DEF new
    <3>1. QED
      BY <1>1, <1>4, <2>2, <2>3, <2>4, <2>5, ListAsked, Zenon
<1>5. CASE call.op = "list"
  <2> DEFINE list == [search |-> call.about.search, page |-> call.about.page, changes |-> peopleDb.changes]
  <2>1. PICK pages : /\ peopleCalls' = Answered(peopleCalls, call, Ok([list |-> list, pages |-> pages]))
                     /\ peopleDb' = peopleDb
    BY <1>5 DEF ContactServer
  <2>2. ForList(call)
    BY <1>5, Zenon DEF ForList
  <2>3. list = Asked(people, peopleDb')
    BY <1>1, <1>2, <2>1, <2>2, Zenon DEF ListIsComing, Asked
  <2>4. Ok([list |-> list, pages |-> pages]).result.list = list
    <3> HIDE DEF list
    <3>1. [list |-> list, pages |-> pages].list = list
      OBVIOUS
    <3>2. QED
      BY <3>1, AnswersDiffer, Zenon
  <2>5. QED
    <3> HIDE DEF list
    <3>1. QED
      BY <1>4, <2>1, <2>2, <2>3, <2>4, AnswersDiffer, Zenon
<1>6. CASE call.op = "save" /\ call.about.form # "field"
  <2> DEFINE done == [done |-> TRUE]
  <2>1. peopleCalls' = Answered(peopleCalls, call, Ok(done))
    BY <1>6 DEF ContactServer
  <2>2. ForList(call) /\ call.op # "list"
    BY <1>6 DEF ForList
  <2>3. QED
    <3> HIDE DEF done
    <3>1. QED
      BY <1>4, <2>1, <2>2, AnswersDiffer, Zenon
<1>7. CASE ~ForList(call)
  <2> DEFINE more == peopleDb.fields + 1
             fewer == peopleDb.fields - 1
  <2>1. \E answer : peopleCalls' = Answered(peopleCalls, call, answer)
    BY Zenon DEF ContactServer
  <2>2. \/ peopleDb' = peopleDb
        \/ peopleDb' = [peopleDb EXCEPT !.fields = more]
        \/ peopleDb' = [peopleDb EXCEPT !.fields = fewer]
    <3>1. call.op # "list" /\ ~(call.op = "save" /\ call.about.form # "field")
      BY <1>7, Zenon DEF ForList
    <3>2. QED
      BY <3>1, Zenon DEF ContactServer
  <2>3. peopleDb'.changes = peopleDb.changes
    <3> HIDE DEF more, fewer
    <3>1. QED
      BY <1>1, <2>2 DEF IsPeopleDb
  <2>4. QED
    BY <1>3, <1>7, <2>1, <2>3, Zenon
<1>8. QED
  BY <1>5, <1>6, <1>7, Zenon DEF ForList

LEMMA PeopleDbKept ==
  ASSUME ListInv, [ContactsNext]_peopleVars
  PROVE  IsPeopleDb(peopleDb')
<1> DEFINE more == peopleDb.fields + 1
           fewer == peopleDb.fields - 1
           changed == peopleDb.changes + 1
           lost == peopleDb.lost + 1
           Written == \/ peopleDb' = peopleDb
                      \/ peopleDb' = [peopleDb EXCEPT !.fields = more]
                      \/ peopleDb' = [peopleDb EXCEPT !.fields = fewer]
                      \/ peopleDb' = [peopleDb EXCEPT !.changes = changed]
                      \/ peopleDb' = [peopleDb EXCEPT !.lost = lost]
<1>1. IsPeopleDb(peopleDb)
  BY Zenon DEF ListInv
<1>2. Written
  <2>1. ASSUME NEW call, ContactServer(call)
        PROVE  Written
    BY <2>1, Zenon DEF ContactServer
  <2>2. ASSUME NEW call, ContactCallFails(call)
        PROVE  Written
    BY <2>2, Zenon DEF ContactCallFails
  <2>3. CASE UNCHANGED peopleDb
    BY <2>3
  <2>4. CASE UNCHANGED peopleVars
    BY <2>4, Zenon DEF peopleVars
  <2>5. CASE ContactsNext
    BY <2>1, <2>2, <2>3, <2>5, Zenon DEF ContactsNext, Debounce, CloseDialog, SaveDialog, DeleteContactField,
       LeaveContacts, TypeSearch, TurnPage, ChooseView, OpenDialog, ContactsArrive, FieldsArrive, DialogAnswered,
       FieldDeleted
  <2>6. QED
    BY <2>4, <2>5
<1>3. QED
  <2> HIDE DEF more, fewer, changed, lost
  <2>1. QED
    BY <1>1, <1>2 DEF IsPeopleDb

LEMMA ListStepInv ==
  ASSUME ListInv, [ContactsNext]_peopleVars
  PROVE  ListInv'
<1>1. PeopleInv' /\ IsPeopleDb(peopleDb')
  BY PeopleStepInv, PeopleDbKept, Zenon DEF ListInv
<1>2. ListIsComing(people', peopleCalls', peopleDb')
  <2>1. CASE UNCHANGED peopleVars
    BY <2>1, Zenon DEF peopleVars, ListInv
  <2>2. ASSUME NEW call, ContactCallFails(call)
        PROVE  ListIsComing(people', peopleCalls', peopleDb')
    <3>1. people'.muddled
      BY <2>2 DEF ContactCallFails, ListInv, PeopleInv, IsPeople
    <3>2. QED
      BY <3>1, Zenon DEF ListIsComing
  <2>3. CASE ContactsNext
    BY <2>2, <2>3, ContactReadsKeepList, ContactWritesKeepList, ContactActsKeepList, ContactDialogsKeepList,
       ContactServerKeepsList, Zenon DEF ContactsNext
  <2>4. QED
    BY <2>1, <2>3
<1>3. QED
  BY <1>1, <1>2, Zenon DEF ListInv

LEMMA ListInitInv ==
  ASSUME ContactsInit \/ ContactsClosed
  PROVE  ListInv
<1>1. PeopleInv /\ IsPeopleDb(peopleDb)
  <2>1. IsPeopleDb(peopleDb)
    BY DEF ContactsInit, ContactsClosed, IsPeopleDb
  <2>2. QED
    BY <2>1, PeopleInitInv
<1>2. CASE ContactsClosed
  <2>1. ~people.mounted
    <3> DEFINE opened == ContactsOpened
    <3>1. people = [opened EXCEPT !.mounted = FALSE] /\ "mounted" \in DOMAIN opened
      BY <1>2 DEF ContactsClosed, ContactsOpened
    <3>2. QED
      BY <3>1
  <2>2. QED
    BY <1>1, <2>1, Zenon DEF ListInv, ListIsComing
<1>3. CASE ContactsInit
  <2> DEFINE about == Reading(people, None)
             first == Send({}, "list", about)
             none == [form |-> None]
  <2>1. peopleCalls = Send(first, "fields", none)
    BY <1>3, Zenon DEF ContactsInit
  <2>2. about.search = people.search /\ about.page = people.page
    BY DEF Reading
  <2>3. ForList([op |-> "list", about |-> about])
    BY DEF ForList
  <2>4. ListIsComing(people, first, peopleDb)
    <3> HIDE DEF about
    <3>1. QED
      BY <2>2, <2>3, ListAskedAlone, Zenon
  <2>5. \A c \in peopleCalls : c \in first \/ c.op = "fields"
    <3> HIDE DEF first, none
    <3>1. QED
      BY <2>1, SendAdds
  <2>6. \A c \in peopleCalls : c \in first \/ ~ForList(c)
    <3> HIDE DEF first
    <3>1. QED
      BY <2>5 DEF ForList
  <2>7. \A c \in first : c \in peopleCalls \/ ~ForList(c)
    <3> HIDE DEF first, none
    <3>1. QED
      BY <2>1 DEF Send
  <2>8. SameList(people, people)
    BY Zenon DEF SameList
  <2>9. QED
    <3> HIDE DEF first
    <3>1. ListIsComing(people, peopleCalls, peopleDb)
      BY <2>4, <2>6, <2>7, <2>8, ListKept, Zenon
    <3>2. QED
      BY <1>1, <3>1, Zenon DEF ListInv
<1>4. QED
  BY <1>2, <1>3

LEMMA ListIsShown == ListInv => ListIsOfTheSearch
  BY DEF ListInv, ListIsComing, Asked, ListIsOfTheSearch

-----------------------------------------------------------------------------
(* The page of deals: the server *)

IsDeal(r) == r \in [stage : {r.stage}, status : {r.status}, values : {r.values}]

AreDeals(cards) == \E S : cards \in Seq(S) /\ \A r \in S : IsDeal(r)

IsCrmDb(db) ==
  /\ db \in [pipelines : {db.pipelines}, stages : {db.stages}, fields : {db.fields}, cards : {db.cards},
             lost : {db.lost}]
  /\ AreDeals(db.cards)

(* The cards of before are there, where they were.                         *)
DealsStand(cards, cards2) ==
  \A i \in DOMAIN cards :
    i \in DOMAIN cards2 /\ cards2[i].stage = cards[i].stage /\ cards2[i].status = cards[i].status

LEMMA DealsAppended ==
  ASSUME NEW cards, AreDeals(cards), NEW r, IsDeal(r)
  PROVE  AreDeals(Append(cards, r)) /\ DealsStand(cards, Append(cards, r))
<1>1. PICK S : cards \in Seq(S) /\ \A d \in S : IsDeal(d)
  BY DEF AreDeals
<1>2. cards \in Seq(S \cup {r}) /\ \A d \in S \cup {r} : IsDeal(d)
  BY <1>1
<1>3. Append(cards, r) \in Seq(S \cup {r})
  BY <1>2
<1>4. DealsStand(cards, Append(cards, r))
  BY <1>1 DEF DealsStand
<1>5. QED
  BY <1>2, <1>3, <1>4, Zenon DEF AreDeals

LEMMA DealWritten ==
  ASSUME NEW cards, AreDeals(cards), NEW c, NEW r, c \in DOMAIN cards => IsDeal(r)
  PROVE  /\ AreDeals([cards EXCEPT ![c] = r]) /\ DOMAIN [cards EXCEPT ![c] = r] = DOMAIN cards
         /\ \A i \in DOMAIN cards : [cards EXCEPT ![c] = r][i] = IF i = c THEN r ELSE cards[i]
<1>1. PICK S : cards \in Seq(S) /\ \A d \in S : IsDeal(d)
  BY DEF AreDeals
<1>2. /\ DOMAIN [cards EXCEPT ![c] = r] = DOMAIN cards
      /\ \A i \in DOMAIN cards : [cards EXCEPT ![c] = r][i] = IF i = c THEN r ELSE cards[i]
  BY <1>1
<1>3. CASE c \in DOMAIN cards
  <2>1. DOMAIN cards = 1..Len(cards) /\ Len(cards) \in Nat /\ cards \in [1..Len(cards) -> S]
    BY <1>1
  <2>2. [cards EXCEPT ![c] = r] \in [1..Len(cards) -> S \cup {r}]
    BY <2>1
  <2>3. [cards EXCEPT ![c] = r] \in Seq(S \cup {r})
    BY <2>1, <2>2
  <2>4. \A d \in S \cup {r} : IsDeal(d)
    BY <1>1, <1>3
  <2>5. QED
    BY <1>2, <2>3, <2>4, Zenon DEF AreDeals
<1>4. CASE c \notin DOMAIN cards
  <2>1. [cards EXCEPT ![c] = r] = cards
    BY <1>1, <1>4
  <2>2. QED
    BY <1>2, <2>1, Zenon
<1>5. QED
  BY <1>3, <1>4

LEMMA DealThere ==
  ASSUME NEW cards, AreDeals(cards), NEW c \in DOMAIN cards
  PROVE  IsDeal(cards[c])
  BY DEF AreDeals

LEMMA WriteCrmDb ==
  ASSUME NEW db, IsCrmDb(db), NEW cards, AreDeals(cards)
  PROVE  IsCrmDb([db EXCEPT !.cards = cards]) /\ [db EXCEPT !.cards = cards].cards = cards
  BY DEF IsCrmDb

(* A card is open at first, and where a move has put it.                   *)
StatusesComeFrom(cards, cards2, call) ==
  \A i \in DOMAIN cards2 :
    \/ cards2[i].status = "open"
    \/ i \in DOMAIN cards /\ cards2[i].status = cards[i].status
    \/ call.op = "move" /\ cards2[i].status = call.about.status

LEMMA StatusesStay ==
  ASSUME NEW cards, NEW call
  PROVE  StatusesComeFrom(cards, cards, call)
  BY DEF StatusesComeFrom

LEMMA StatusAppended ==
  ASSUME NEW cards, AreDeals(cards), NEW r, r.status = "open", NEW call
  PROVE  StatusesComeFrom(cards, Append(cards, r), call)
<1>1. PICK S : cards \in Seq(S)
  BY DEF AreDeals
<1>2. \A i \in DOMAIN Append(cards, r) : Append(cards, r)[i] = r \/ (i \in DOMAIN cards /\ Append(cards, r)[i] = cards[i])
  BY <1>1
<1>3. QED
  BY <1>2, Zenon DEF StatusesComeFrom

(* What the writes do to the cards that are there.                         *)
LEMMA CrmWritesDeals ==
  ASSUME IsCrmDb(crmDb), NEW call, call.op \in Writes
  PROVE  /\ IsCrmDb(CrmWrites(call))
         /\ call.op # "move" => DealsStand(crmDb.cards, CrmWrites(call).cards)
         /\ call.op = "move" /\ call.about.card \in DOMAIN crmDb.cards =>
              /\ DOMAIN CrmWrites(call).cards = DOMAIN crmDb.cards
              /\ CrmWrites(call).cards[call.about.card].stage = call.about.stage
              /\ CrmWrites(call).cards[call.about.card].status = call.about.status
         /\ StatusesComeFrom(crmDb.cards, CrmWrites(call).cards, call)
<1> DEFINE about == call.about
           p == Cardinality(crmDb.pipelines) + 1
           n == Cardinality(StagesOf(about.pipeline)) + 1
<1>1. AreDeals(crmDb.cards) /\ DealsStand(crmDb.cards, crmDb.cards)
  BY DEF IsCrmDb, DealsStand
<1>2. CASE call.op = "deal"
  <2> DEFINE r == NewCard(about.stage)
             cards == Append(crmDb.cards, r)
  <2>1. CrmWrites(call) = [crmDb EXCEPT !.cards = cards]
    BY <1>2 DEF CrmWrites
  <2>2. IsDeal(r)
    BY DEF NewCard, IsDeal
  <2>3. AreDeals(cards) /\ DealsStand(crmDb.cards, cards)
    <3> HIDE DEF r
    <3>1. QED
      BY <1>1, <2>2, DealsAppended
  <2>4. IsCrmDb(CrmWrites(call)) /\ CrmWrites(call).cards = cards
    <3> HIDE DEF cards
    <3>1. QED
      BY <2>1, <2>3, WriteCrmDb
  <2>5. StatusesComeFrom(crmDb.cards, cards, call)
    <3>1. r.status = "open"
      BY DEF NewCard
    <3> HIDE DEF r
    <3>2. QED
      BY <1>1, <3>1, StatusAppended
  <2>6. QED
    <3> HIDE DEF cards
    <3>1. QED
      BY <1>2, <2>3, <2>4, <2>5
<1>3. CASE call.op \in {"pipeline", "stage", "field", "deleteField"}
  <2> DEFINE pipelines == crmDb.pipelines \cup {p}
             first == crmDb.stages \cup {<<p, 1>>}
             stages == crmDb.stages \cup {<<about.pipeline, n>>}
             more == crmDb.fields \cup {about.new}
             fewer == crmDb.fields \ {about.field}
  <2>1. \/ CrmWrites(call) = [crmDb EXCEPT !.pipelines = pipelines, !.stages = first]
        \/ CrmWrites(call) = [crmDb EXCEPT !.stages = stages]
        \/ CrmWrites(call) = [crmDb EXCEPT !.fields = more]
        \/ CrmWrites(call) = [crmDb EXCEPT !.fields = fewer]
    BY <1>3 DEF CrmWrites
  <2>2. IsCrmDb(CrmWrites(call)) /\ CrmWrites(call).cards = crmDb.cards
    <3> HIDE DEF pipelines, first, stages, more, fewer
    <3>1. QED
      BY <2>1 DEF IsCrmDb
  <2>3. QED
    BY <1>1, <1>3, <2>2, StatusesStay
<1>4. CASE call.op = "card"
  <2> DEFINE c == about.id
             r == [crmDb.cards[c] EXCEPT !.values = about.values]
             cards == [crmDb.cards EXCEPT ![c] = r]
  <2>1. CrmWrites(call) = [crmDb EXCEPT !.cards[about.id].values = about.values]
    BY <1>4 DEF CrmWrites
  <2>2. CrmWrites(call) = [crmDb EXCEPT !.cards = cards]
    BY <2>1, Zenon
  <2>3. c \in DOMAIN crmDb.cards => IsDeal(crmDb.cards[c])
    BY <1>1, DealThere
  <2>5. c \in DOMAIN crmDb.cards =>
          IsDeal(r) /\ r.stage = crmDb.cards[c].stage /\ r.status = crmDb.cards[c].status
    BY <2>3 DEF IsDeal
  <2>6. AreDeals(cards) /\ DealsStand(crmDb.cards, cards) /\ StatusesComeFrom(crmDb.cards, cards, call)
    <3> HIDE DEF r
    <3>1. /\ AreDeals(cards) /\ DOMAIN cards = DOMAIN crmDb.cards
          /\ \A i \in DOMAIN crmDb.cards : cards[i] = IF i = c THEN r ELSE crmDb.cards[i]
      BY <1>1, <2>5, DealWritten
    <3>2. StatusesComeFrom(crmDb.cards, cards, call)
      <4> HIDE DEF cards
      <4>1. QED
        BY <2>5, <3>1, Zenon DEF StatusesComeFrom
    <3>3. QED
      <4> HIDE DEF cards
      <4>1. QED
        BY <2>5, <3>1, <3>2 DEF DealsStand
  <2>7. IsCrmDb(CrmWrites(call)) /\ CrmWrites(call).cards = cards
    <3> HIDE DEF cards
    <3>1. QED
      BY <2>2, <2>6, WriteCrmDb
  <2>8. QED
    <3> HIDE DEF cards
    <3>1. QED
      BY <1>4, <2>6, <2>7
<1>5. CASE call.op = "move"
  <2> DEFINE c == about.card
             r == [crmDb.cards[c] EXCEPT !.stage = about.stage, !.status = about.status]
             cards == [crmDb.cards EXCEPT ![c] = r]
  <2>1. CrmWrites(call) = [crmDb EXCEPT !.cards[about.card].stage = about.stage,
                                        !.cards[about.card].status = about.status]
    BY <1>5 DEF CrmWrites
  <2>2. c \in DOMAIN crmDb.cards => IsDeal(crmDb.cards[c])
    BY <1>1, DealThere
  <2>3. c \in DOMAIN crmDb.cards => IsDeal(r) /\ r.stage = about.stage /\ r.status = about.status
    BY <2>2 DEF IsDeal
  <2>4. CrmWrites(call) = [crmDb EXCEPT !.cards = cards]
    <3> DEFINE half == [crmDb.cards[c] EXCEPT !.stage = about.stage]
               moved == [crmDb.cards EXCEPT ![c] = half]
               db == [crmDb EXCEPT !.cards = moved]
               last == [moved EXCEPT ![c] = [moved[c] EXCEPT !.status = about.status]]
    <3>1. CrmWrites(call) = [db EXCEPT !.cards[c].status = about.status]
      BY <2>1, Zenon
    <3>2. c \in DOMAIN crmDb.cards => IsDeal(half)
      BY <2>2 DEF IsDeal
    <3>3. /\ AreDeals(moved) /\ DOMAIN moved = DOMAIN crmDb.cards
          /\ \A i \in DOMAIN crmDb.cards : moved[i] = IF i = c THEN half ELSE crmDb.cards[i]
      <4> HIDE DEF half
      <4>1. QED
        BY <1>1, <3>2, DealWritten
    <3>4. db.cards = moved
      <4> HIDE DEF moved
      <4>1. QED
        BY <3>3, WriteCrmDb
    <3>5. [db EXCEPT !.cards[c].status = about.status] = [db EXCEPT !.cards = last]
      <4> HIDE DEF db, moved
      <4>1. QED
        BY <3>4, Zenon
    <3>6. c \in DOMAIN crmDb.cards => [moved[c] EXCEPT !.status = about.status] = r
      <4>1. [half EXCEPT !.status = about.status] = r
        BY Zenon
      <4>2. QED
        <5> HIDE DEF moved, half, r
        <5>1. QED
          BY <3>3, <4>1
    <3>7. last = cards
      <4>1. CASE c \in DOMAIN crmDb.cards
        <5>1. last = [moved EXCEPT ![c] = r]
          <6> HIDE DEF moved, r
          <6>1. QED
            BY <3>6, <4>1
        <5>2. [moved EXCEPT ![c] = r] = cards
          <6> HIDE DEF r, half
          <6>1. QED
            BY <1>1 DEF AreDeals
        <5>3. QED
          BY <5>1, <5>2, Zenon
      <4>2. CASE c \notin DOMAIN crmDb.cards
        <5>1. moved = crmDb.cards /\ cards = crmDb.cards
          <6> HIDE DEF r, half
          <6>1. QED
            BY <1>1, <4>2 DEF AreDeals
        <5>2. last = crmDb.cards
          <6> HIDE DEF moved, cards
          <6>1. QED
            BY <1>1, <4>2, <5>1 DEF AreDeals
        <5>3. QED
          BY <5>1, <5>2, Zenon
      <4>3. QED
        BY <4>1, <4>2
    <3>8. [db EXCEPT !.cards = cards] = [crmDb EXCEPT !.cards = cards]
      <4> HIDE DEF moved, cards
      <4>1. QED
        BY DEF IsCrmDb
    <3>9. QED
      <4> HIDE DEF db, moved, last, cards
      <4>1. QED
        BY <3>1, <3>5, <3>7, <3>8, Zenon
  <2>5. /\ AreDeals(cards) /\ DOMAIN cards = DOMAIN crmDb.cards
        /\ c \in DOMAIN crmDb.cards => cards[c] = r
        /\ StatusesComeFrom(crmDb.cards, cards, call)
    <3> HIDE DEF r
    <3>1. /\ AreDeals(cards) /\ DOMAIN cards = DOMAIN crmDb.cards
          /\ \A i \in DOMAIN crmDb.cards : cards[i] = IF i = c THEN r ELSE crmDb.cards[i]
      BY <1>1, <2>3, DealWritten
    <3>2. StatusesComeFrom(crmDb.cards, cards, call)
      <4> HIDE DEF cards
      <4>1. QED
        BY <1>5, <2>3, <3>1, Zenon DEF StatusesComeFrom
    <3>3. QED
      <4> HIDE DEF cards
      <4>1. QED
        BY <3>1, <3>2
  <2>6. IsCrmDb(CrmWrites(call)) /\ CrmWrites(call).cards = cards
    <3> HIDE DEF cards
    <3>1. QED
      BY <2>4, <2>5, WriteCrmDb
  <2>7. QED
    <3> HIDE DEF cards, r
    <3>1. QED
      BY <1>5, <2>3, <2>5, <2>6
<1>6. QED
  BY <1>2, <1>3, <1>4, <1>5 DEF Writes

-----------------------------------------------------------------------------
(* The page of deals: the board and the card in the dialog *)

BoardOf(db, p) ==
  [stages |-> {s \in db.stages : s[1] = p},
   cards |-> [c \in {c \in DOMAIN db.cards : db.cards[c].stage[1] = p} |-> db.cards[c]],
   fields |-> db.fields]

IsDialogCard(k) == k \in [id : {k.id}, stage : {k.stage}, status : {k.status}, behind : {k.behind}]

CardStands(m, db) ==
  /\ m.card.id \in DOMAIN db.cards
  /\ db.cards[m.card.id].stage = m.card.stage /\ db.cards[m.card.id].status = m.card.status

InCard(m) == m.modal = "card" /\ ~m.card.behind

(* With nothing in flight: what is shown is what the server has.           *)
BoardStands(m, db) ==
  /\ m.pipeline # 0 => [stages |-> m.stages, cards |-> m.cards, fields |-> m.fields] = BoardOf(db, m.pipeline)
  /\ \A i \in DOMAIN m.cards :
       m.cards[i].stage = db.cards[i].stage /\ m.cards[i].status = db.cards[i].status
  /\ InCard(m) => CardStands(m, db)

(* The one call in flight is a read, or a write that a read will follow,   *)
(* of the pipeline that is selected.                                       *)
InStep(m, db, c) ==
  \/ c.op = "pipelines" /\ c.answer # Failed
  \/ /\ c.op = "board" /\ c.about.pipeline = m.pipeline /\ c.answer # Failed
     /\ c.answer # Waiting => c.answer.result = BoardOf(db, m.pipeline)
  \/ c.op \in Writes /\ (c.op = "pipeline" \/ c.about.pipeline = m.pipeline)

(* The card in the dialog stands where the server has it, or the answer to *)
(* the call closes the dialog, or moves the card to where the server has   *)
(* put it.                                                                 *)
CardFollows(m, db, c) ==
  InCard(m) =>
    \/ c.op # "move" /\ CardStands(m, db)
    \/ c.about.form = "card"
    \/ /\ c.op = "move" /\ c.about.shown /\ c.about.card = m.card.id /\ m.card.id \in DOMAIN db.cards
       /\ c.answer \notin {Waiting, Failed} =>
            db.cards[m.card.id].stage = c.about.stage /\ db.cards[m.card.id].status = c.about.status

BoardIsComing(m, calls, db) ==
  m.mounted /\ ~m.muddled =>
    \/ calls = {} /\ BoardStands(m, db)
    \/ \E c \in calls : calls = {c} /\ InStep(m, db, c) /\ CardFollows(m, db, c)

BoardInv == CrmInv /\ IsDialogCard(crm.card) /\ IsCrmDb(crmDb) /\ BoardIsComing(crm, crmCalls, crmDb)

LEMMA OneCall ==
  ASSUME NEW m, NEW db, NEW c, InStep(m, db, c), CardFollows(m, db, c), NEW calls, calls = {c}
  PROVE  BoardIsComing(m, calls, db)
<1>1. c \in calls
  OBVIOUS
<1>2. QED
  BY <1>1, Zenon DEF BoardIsComing

(* What the operator does muddles the page, or leaves one call in flight.  *)
LEMMA CrmActDoes ==
  ASSUME NEW page, IsCrm(page), IsDialogCard(page.card)
  PROVE  /\ CrmAct(page).muddled = (crmCalls # {}) /\ CrmAct(page).pipeline = page.pipeline
         /\ CrmAct(page).modal = page.modal /\ IsDialogCard(CrmAct(page).card)
         /\ CrmAct(page).card.id = page.card.id
<1> DEFINE busy == crmCalls # {}
           behind == page.card.behind \/ busy
           acts == page.acts + 1
           card == [page.card EXCEPT !.behind = behind]
           next == [page EXCEPT !.acts = acts, !.muddled = busy, !.card = card]
<1>1. IsDialogCard(card) /\ card.id = page.card.id
  <2> HIDE DEF behind
  <2>1. QED
    BY DEF IsDialogCard
<1>2. /\ next.muddled = busy /\ next.pipeline = page.pipeline /\ next.modal = page.modal /\ next.card = card
  <2> HIDE DEF busy, acts, card
  <2>1. QED
    BY DEF IsCrm
<1>3. CrmAct(page) = next
  <2> DEFINE half == [page EXCEPT !.acts = acts, !.muddled = busy]
  <2>1. half.card = page.card
    <3> HIDE DEF busy, acts
    <3>1. QED
      BY DEF IsCrm
  <2>2. CrmAct(page) = [half EXCEPT !.card.behind = half.card.behind \/ busy]
    BY Zenon DEF CrmAct
  <2>3. QED
    <3> HIDE DEF half, busy
    <3>1. [half EXCEPT !.card.behind = half.card.behind \/ busy]
            = [half EXCEPT !.card = [half.card EXCEPT !.behind = half.card.behind \/ busy]]
      BY Zenon
    <3>2. CrmAct(page) = [half EXCEPT !.card = card]
      BY <2>1, <2>2, <3>1, Zenon
    <3>3. QED
      BY <3>2, Zenon DEF half
<1>4. QED
  <2> HIDE DEF next, card
  <2>1. QED
    BY <1>1, <1>2, <1>3, Zenon

LEMMA CrmActKeepsBoard ==
  ASSUME NEW page, IsCrm(page), IsDialogCard(page.card), NEW op, NEW about, NEW m, m = CrmAct(page), NEW db,
         op \in Writes \/ op = "board", op = "pipeline" \/ about.pipeline = page.pipeline,
         \/ page.modal # "card"
         \/ about.form = "card"
         \/ op = "move" /\ about.shown /\ about.card = page.card.id /\ page.card.id \in DOMAIN db.cards
  PROVE  BoardIsComing(m, Send(crmCalls, op, about), db)
<1> DEFINE new == [slot |-> FreeSlot(crmCalls), op |-> op, about |-> about, answer |-> Waiting]
<1>1. /\ m.muddled = (crmCalls # {}) /\ m.pipeline = page.pipeline /\ m.modal = page.modal
      /\ m.card.id = page.card.id
  BY CrmActDoes, Zenon
<1>2. CASE m.muddled
  BY <1>2, Zenon DEF BoardIsComing
<1>3. CASE ~m.muddled
  <2>1. Send(crmCalls, op, about) = {new}
    BY <1>1, <1>3 DEF Send
  <2>2. new.op = op /\ new.about = about /\ new.answer = Waiting
    OBVIOUS
  <2>3. InStep(m, db, new)
    <3> HIDE DEF new
    <3>1. "pipeline" # "board"
      OBVIOUS
    <3>2. QED
      BY <1>1, <2>2, <3>1, AnswersDiffer, Zenon DEF InStep
  <2>4. CardFollows(m, db, new)
    <3> HIDE DEF new
    <3>1. new.answer \in {Waiting, Failed}
      BY <2>2
    <3>2. QED
      BY <1>1, <2>2, <3>1, Zenon DEF CardFollows, InCard
  <2>5. QED
    <3> HIDE DEF new
    <3>1. QED
      BY <2>1, <2>3, <2>4, OneCall, Zenon
<1>4. QED
  BY <1>2, <1>3

LEMMA CrmOperatorKeepsBoard ==
  ASSUME BoardInv,
         \/ CreatePipeline \/ CreateStage \/ CreateField \/ SaveCardFields
         \/ \E stage : CreateDeal(stage)
         \/ \E p : SelectPipeline(p)
         \/ \E field : DeleteField(field)
         \/ \E stage, status : \E c \in DOMAIN crmDb.cards : MoveCard(c, stage, status)
  PROVE  IsDialogCard(crm'.card) /\ IsCrmDb(crmDb') /\ BoardIsComing(crm', crmCalls', crmDb')
<1>1. IsCrm(crm) /\ IsDialogCard(crm.card) /\ IsCrmDb(crmDb)
  BY Zenon DEF BoardInv, CrmInv
<1>2. crmDb' = crmDb
  BY Zenon DEF CreatePipeline, CreateStage, CreateField, SaveCardFields, CreateDeal, SelectPipeline, DeleteField,
     MoveCard, Submits
<1>3. ASSUME NEW page, IsCrm(page), page.card = crm.card, NEW op, NEW about,
             crm' = CrmAct(page), crmCalls' = Send(crmCalls, op, about),
             op \in Writes \/ op = "board", op = "pipeline" \/ about.pipeline = page.pipeline,
             \/ page.modal # "card"
             \/ about.form = "card"
             \/ op = "move" /\ about.shown /\ about.card = crm.card.id /\ crm.card.id \in DOMAIN crmDb.cards
      PROVE  IsDialogCard(crm'.card) /\ IsCrmDb(crmDb') /\ BoardIsComing(crm', crmCalls', crmDb')
  <2>1. IsDialogCard(page.card)
    BY <1>1, <1>3, Zenon
  <2>2. IsDialogCard(crm'.card)
    BY <1>3, <2>1, CrmActDoes, Zenon
  <2>3. BoardIsComing(crm', Send(crmCalls, op, about), crmDb)
    <3>1. \/ page.modal # "card"
          \/ about.form = "card"
          \/ op = "move" /\ about.shown /\ about.card = page.card.id /\ page.card.id \in DOMAIN crmDb.cards
      BY <1>3, Zenon
    <3>2. QED
      BY <1>3, <2>1, <3>1, CrmActKeepsBoard, Zenon
  <2>4. QED
    BY <1>1, <1>2, <1>3, <2>2, <2>3, Zenon
<1>4. ASSUME NEW op, NEW about, Submits(op, about), op \in Writes,
             op = "pipeline" \/ about.pipeline = crm.pipeline,
             crm.modal # "card" \/ about.form = "card"
      PROVE  IsDialogCard(crm'.card) /\ IsCrmDb(crmDb') /\ BoardIsComing(crm', crmCalls', crmDb')
  <2> DEFINE page == [crm EXCEPT !.submitting = TRUE]
  <2>1. IsCrm(page) /\ page.card = crm.card /\ page.modal = crm.modal /\ page.pipeline = crm.pipeline
    BY <1>1 DEF IsCrm
  <2>2. crm' = CrmAct(page) /\ crmCalls' = Send(crmCalls, op, about)
    BY <1>4, Zenon DEF Submits
  <2>3. QED
    <3> HIDE DEF page
    <3>1. QED
      BY <1>3, <1>4, <2>1, <2>2, Zenon
<1>5. CASE CreatePipeline
  <2> DEFINE about == [form |-> "pipeline"]
  <2>1. crm.modal = "pipeline" /\ Submits("pipeline", about)
    BY <1>5, Zenon DEF CreatePipeline
  <2>2. "pipeline" \in Writes /\ "pipeline" # "card"
    BY DEF Writes
  <2>3. QED
    <3> HIDE DEF about
    <3>1. QED
      BY <1>4, <2>1, <2>2, Zenon
<1>6. CASE CreateStage
  <2> DEFINE about == [pipeline |-> crm.pipeline, form |-> "stage"]
  <2>1. crm.modal = "stage" /\ Submits("stage", about)
    BY <1>6, Zenon DEF CreateStage
  <2>2. "stage" \in Writes /\ "stage" # "card" /\ about.pipeline = crm.pipeline
    BY DEF Writes
  <2>3. QED
    <3> HIDE DEF about
    <3>1. QED
      BY <1>4, <2>1, <2>2, Zenon
<1>7. CASE CreateField
  <2> DEFINE about == [new |-> crm.acts + 1, pipeline |-> crm.pipeline, form |-> "fields"]
  <2>1. crm.modal = "fields" /\ Submits("field", about)
    BY <1>7, Zenon DEF CreateField
  <2>2. "field" \in Writes /\ "fields" # "card" /\ about.pipeline = crm.pipeline
    BY DEF Writes
  <2>3. QED
    <3> HIDE DEF about
    <3>1. QED
      BY <1>4, <2>1, <2>2, Zenon
<1>8. CASE SaveCardFields
  <2> DEFINE about == [id |-> crm.card.id, values |-> crm.acts + 1, pipeline |-> crm.pipeline, form |-> "card"]
  <2>1. Submits("card", about)
    BY <1>8, Zenon DEF SaveCardFields
  <2>2. "card" \in Writes /\ about.form = "card" /\ about.pipeline = crm.pipeline
    BY DEF Writes
  <2>3. QED
    <3> HIDE DEF about
    <3>1. QED
      BY <1>4, <2>1, <2>2, Zenon
<1>9. ASSUME NEW stage, CreateDeal(stage)
      PROVE  IsDialogCard(crm'.card) /\ IsCrmDb(crmDb') /\ BoardIsComing(crm', crmCalls', crmDb')
  <2> DEFINE about == [pipeline |-> crm.pipeline, stage |-> stage, form |-> "deal"]
  <2>1. crm.modal = "deal" /\ Submits("deal", about)
    BY <1>9, Zenon DEF CreateDeal
  <2>2. "deal" \in Writes /\ "deal" # "card" /\ about.pipeline = crm.pipeline
    BY DEF Writes
  <2>3. QED
    <3> HIDE DEF about
    <3>1. QED
      BY <1>4, <2>1, <2>2, Zenon
<1>10. ASSUME NEW p, SelectPipeline(p)
       PROVE  IsDialogCard(crm'.card) /\ IsCrmDb(crmDb') /\ BoardIsComing(crm', crmCalls', crmDb')
  <2> DEFINE page == [crm EXCEPT !.pipeline = p]
             about == [pipeline |-> p, form |-> None]
  <2>1. /\ IsCrm(page) /\ page.card = crm.card /\ page.modal = crm.modal /\ page.pipeline = p
        /\ about.pipeline = p
    BY <1>1 DEF IsCrm
  <2>2. crm' = CrmAct(page) /\ crmCalls' = Send(crmCalls, "board", about) /\ crm.modal = None
    BY <1>10, Zenon DEF SelectPipeline
  <2>3. None # "card"
    BY DEF None
  <2>4. QED
    <3> HIDE DEF page, about
    <3>1. QED
      BY <1>3, <2>1, <2>2, <2>3, Zenon
<1>11. ASSUME NEW field, DeleteField(field)
       PROVE  IsDialogCard(crm'.card) /\ IsCrmDb(crmDb') /\ BoardIsComing(crm', crmCalls', crmDb')
  <2> DEFINE about == [field |-> field, pipeline |-> crm.pipeline, form |-> None]
  <2>1. crm' = CrmAct(crm) /\ crmCalls' = Send(crmCalls, "deleteField", about) /\ crm.modal = "fields"
    BY <1>11, Zenon DEF DeleteField
  <2>2. "deleteField" \in Writes /\ "fields" # "card" /\ about.pipeline = crm.pipeline
    BY DEF Writes
  <2>3. QED
    <3> HIDE DEF about
    <3>1. QED
      BY <1>1, <1>3, <2>1, <2>2, Zenon
<1>12. ASSUME NEW c \in DOMAIN crmDb.cards, NEW stage, NEW status, MoveCard(c, stage, status)
       PROVE  IsDialogCard(crm'.card) /\ IsCrmDb(crmDb') /\ BoardIsComing(crm', crmCalls', crmDb')
  <2> DEFINE shown == crm.card.id = c
             about == [card |-> c, stage |-> stage, status |-> status, shown |-> shown,
                       pipeline |-> crm.pipeline, form |-> None]
  <2>1. /\ crm' = CrmAct(crm) /\ crmCalls' = Send(crmCalls, "move", about)
        /\ crm.modal = None \/ (crm.modal = "card" /\ shown)
    BY <1>12, Zenon DEF MoveCard, OnBoard, InDialog
  <2>2. "move" \in Writes /\ None # "card"
    BY DEF Writes, None
  <2>3. about.pipeline = crm.pipeline /\ about.card = c /\ about.shown = shown
    <3> HIDE DEF shown
    <3>1. QED
      OBVIOUS
  <2>4. QED
    <3> HIDE DEF about
    <3>1. QED
      BY <1>1, <1>3, <1>12, <2>1, <2>2, <2>3, Zenon
<1>13. QED
  BY <1>5, <1>6, <1>7, <1>8, <1>9, <1>10, <1>11, <1>12, Zenon

(* An answer that ends a form leaves what is shown as it is, and the card  *)
(* in the dialog, if it stays open.                                        *)
LEMMA EndsDoes ==
  ASSUME NEW page, IsCrm(page), NEW form, NEW m, m = Ends(page, form)
  PROVE  /\ m.mounted = page.mounted /\ m.muddled = page.muddled /\ m.pipeline = page.pipeline
         /\ m.stages = page.stages /\ m.cards = page.cards /\ m.fields = page.fields /\ m.card = page.card
         /\ m.modal = "card" => page.modal = "card" /\ form # "card"
<1>1. None # "card" /\ "fields" # "card"
  BY DEF None
<1>2. CASE form = None
  <2>1. m = page
    BY <1>2, Zenon DEF Ends
  <2>2. QED
    BY <1>1, <1>2, <2>1, Zenon
<1>3. CASE form # None
  <2> DEFINE modal == IF form = "fields" THEN page.modal ELSE None
             next == [page EXCEPT !.submitting = FALSE, !.modal = modal]
  <2>1. m = next
    BY <1>3, Zenon DEF Ends
  <2>2. modal = "card" => page.modal = "card" /\ form # "card"
    BY <1>1, Zenon
  <2>3. /\ next.mounted = page.mounted /\ next.muddled = page.muddled /\ next.pipeline = page.pipeline
        /\ next.stages = page.stages /\ next.cards = page.cards /\ next.fields = page.fields
        /\ next.card = page.card /\ next.modal = modal
    <3> HIDE DEF modal
    <3>1. QED
      BY DEF IsCrm
  <2>4. QED
    <3> HIDE DEF next, modal
    <3>1. QED
      BY <2>1, <2>2, <2>3, Zenon
<1>4. QED
  BY <1>2, <1>3

(* A read has arrived: the card that is still in the dialog stands.        *)
LEMMA CardStaysPut ==
  ASSUME NEW m, NEW m2, NEW db, NEW call, call.op \notin Writes, CardFollows(m, db, call),
         m2.card = m.card, m2.modal = "card" => m.modal = "card" /\ call.about.form # "card", InCard(m2)
  PROVE  CardStands(m2, db)
<1>1. call.op # "move"
  BY DEF Writes
<1>2. InCard(m) /\ call.about.form # "card"
  BY Zenon DEF InCard
<1>3. CardStands(m, db)
  BY <1>1, <1>2, Zenon DEF CardFollows
<1>4. QED
  BY <1>3, Zenon DEF CardStands

LEMMA TheOneCall ==
  ASSUME NEW m, NEW calls, NEW db, BoardIsComing(m, calls, db), m.mounted, ~m.muddled, NEW call \in calls
  PROVE  calls = {call} /\ InStep(m, db, call) /\ CardFollows(m, db, call)
<1>1. PICK c \in calls : calls = {c} /\ InStep(m, db, c) /\ CardFollows(m, db, c)
  BY Zenon DEF BoardIsComing
<1>2. c = call
  BY <1>1
<1>3. QED
  BY <1>1, <1>2, Zenon

LEMMA BoardReadKeepsBoard ==
  ASSUME BoardInv, NEW call \in crmCalls, BoardArrives(call)
  PROVE  IsDialogCard(crm'.card) /\ IsCrmDb(crmDb') /\ BoardIsComing(crm', crmCalls', crmDb')
<1> DEFINE board == call.answer.result
           form == call.about.form
           page == [crm EXCEPT !.loading = FALSE]
           full == [page EXCEPT !.stages = board.stages, !.cards = board.cards, !.fields = board.fields]
           shown == IF call.answer = Failed THEN page ELSE full
<1>1. /\ IsCrm(crm) /\ IsDialogCard(crm.card) /\ IsCrmDb(crmDb) /\ crm.mounted /\ crmDb' = crmDb
      /\ BoardIsComing(crm, crmCalls, crmDb)
  BY Zenon DEF BoardInv, CrmInv, BoardArrives
<1>2. call.op = "board" /\ call.answer # Waiting /\ crmCalls' = crmCalls \ {call} /\ crm' = Ends(shown, form)
  <2>1. call.op = "board" /\ call.answer # Waiting
    BY DEF BoardArrives, Done
  <2>2. QED
    BY <2>1, Zenon DEF BoardArrives
<1>3. /\ IsCrm(page) /\ page.mounted = crm.mounted /\ page.muddled = crm.muddled /\ page.pipeline = crm.pipeline
      /\ page.card = crm.card /\ page.modal = crm.modal
  BY <1>1 DEF IsCrm
<1>4. /\ IsCrm(full) /\ full.mounted = crm.mounted /\ full.muddled = crm.muddled /\ full.pipeline = crm.pipeline
      /\ full.card = crm.card /\ full.modal = crm.modal
      /\ full.stages = board.stages /\ full.cards = board.cards /\ full.fields = board.fields
  <2> HIDE DEF page, board
  <2>1. QED
    BY <1>3 DEF IsCrm
<1>5. /\ IsCrm(shown) /\ shown.mounted = crm.mounted /\ shown.muddled = crm.muddled
      /\ shown.pipeline = crm.pipeline /\ shown.card = crm.card /\ shown.modal = crm.modal
  <2> HIDE DEF page, full
  <2>1. QED
    BY <1>3, <1>4, Zenon
<1>6. /\ crm'.muddled = crm.muddled /\ crm'.pipeline = crm.pipeline /\ crm'.card = crm.card
      /\ crm'.stages = shown.stages /\ crm'.cards = shown.cards /\ crm'.fields = shown.fields
      /\ crm'.modal = "card" => crm.modal = "card" /\ form # "card"
  <2> HIDE DEF shown, form
  <2>1. /\ crm'.muddled = shown.muddled /\ crm'.pipeline = shown.pipeline /\ crm'.card = shown.card
        /\ crm'.stages = shown.stages /\ crm'.cards = shown.cards /\ crm'.fields = shown.fields
        /\ crm'.modal = "card" => shown.modal = "card" /\ form # "card"
    BY <1>2, <1>5, EndsDoes
  <2>2. QED
    BY <1>5, <2>1
<1>7. CASE crm'.muddled
  BY <1>1, <1>6, <1>7, Zenon DEF BoardIsComing
<1>8. CASE ~crm'.muddled
  <2>1. crmCalls = {call} /\ InStep(crm, crmDb, call) /\ CardFollows(crm, crmDb, call)
    BY <1>1, <1>6, <1>8, TheOneCall, Zenon
  <2>2. crmCalls' = {}
    BY <1>2, <2>1
  <2>3. "board" \notin Writes /\ "board" # "pipelines"
    BY DEF Writes
  <2>4. call.answer # Failed /\ board = BoardOf(crmDb, crm.pipeline)
    BY <1>2, <2>1, <2>3, Zenon DEF InStep
  <2>5. crm'.stages = board.stages /\ crm'.cards = board.cards /\ crm'.fields = board.fields
    <3> HIDE DEF full
    <3>1. QED
      BY <1>4, <1>6, <2>4, Zenon
  <2>6. /\ [stages |-> crm'.stages, cards |-> crm'.cards, fields |-> crm'.fields] = BoardOf(crmDb', crm'.pipeline)
        /\ \A i \in DOMAIN crm'.cards : crm'.cards[i] = crmDb'.cards[i]
    <3> HIDE DEF board
    <3>1. QED
      BY <1>1, <1>6, <2>4, <2>5 DEF BoardOf
  <2>7. InCard(crm') => CardStands(crm', crmDb')
    BY <1>1, <1>2, <1>6, <2>1, <2>3, CardStaysPut, Zenon
  <2>8. BoardStands(crm', crmDb')
    BY <2>6, <2>7, Zenon DEF BoardStands
  <2>9. QED
    BY <1>1, <1>6, <2>2, <2>8, Zenon DEF BoardIsComing
<1>9. QED
  BY <1>7, <1>8

LEMMA PipelinesKeepBoard ==
  ASSUME BoardInv, NEW call \in crmCalls, PipelinesArrive(call)
  PROVE  IsDialogCard(crm'.card) /\ IsCrmDb(crmDb') /\ BoardIsComing(crm', crmCalls', crmDb')
<1> DEFINE form == call.about.form
           found == call.answer.result.pipelines
           next == IF call.about.select # 0 THEN call.about.select
                   ELSE IF found = {} THEN 0 ELSE CHOOSE p \in found : \A q \in found : p <= q
           page == [crm EXCEPT !.pipelines = found, !.pipeline = next]
           failed == [crm EXCEPT !.loading = FALSE]
           empty == [page EXCEPT !.loading = FALSE, !.stages = {}, !.cards = <<>>]
           about == [pipeline |-> next, form |-> form]
<1>1. /\ IsCrm(crm) /\ IsDialogCard(crm.card) /\ IsCrmDb(crmDb) /\ crm.mounted /\ crmDb' = crmDb
      /\ BoardIsComing(crm, crmCalls, crmDb)
  BY Zenon DEF BoardInv, CrmInv, PipelinesArrive
<1>2. call.op = "pipelines" /\ call.op \notin Writes
  BY DEF PipelinesArrive, Done, Writes
<1>3. /\ IsCrm(page) /\ page.muddled = crm.muddled /\ page.pipeline = next
      /\ page.card = crm.card /\ page.modal = crm.modal
      /\ IsCrm(failed) /\ failed.muddled = crm.muddled /\ failed.card = crm.card
  <2> HIDE DEF found, next
  <2>1. QED
    BY <1>1 DEF IsCrm
<1>4. /\ IsCrm(empty) /\ empty.muddled = crm.muddled /\ empty.pipeline = next /\ empty.cards = <<>>
      /\ empty.card = crm.card /\ empty.modal = crm.modal
  <2> HIDE DEF page, next
  <2>1. QED
    BY <1>3 DEF IsCrm
<1>5. ~crm.muddled => crmCalls = {call} /\ call.answer # Failed /\ CardFollows(crm, crmDb, call)
  <2>1. "pipelines" # "board"
    OBVIOUS
  <2>2. QED
    BY <1>1, <1>2, <2>1, TheOneCall, Zenon DEF InStep
<1>6. CASE call.answer = Failed
  <2>1. crm' = Ends(failed, form)
    BY <1>6, Zenon DEF PipelinesArrive
  <2>2. crm'.muddled /\ crm'.card = crm.card
    <3> HIDE DEF failed, form
    <3>1. crm'.muddled = failed.muddled /\ crm'.card = failed.card
      BY <1>3, <2>1, EndsDoes
    <3>2. crm'.muddled = crm.muddled /\ crm'.card = crm.card
      BY <1>3, <3>1
    <3>3. QED
      BY <1>5, <1>6, <3>2, Zenon
  <2>3. QED
    BY <1>1, <2>2, Zenon DEF BoardIsComing
<1>7. CASE call.answer # Failed /\ next # 0
  <2>1. crm' = page /\ crmCalls' = Chain(crmCalls, call, "board", about)
    BY <1>7, Zenon DEF PipelinesArrive
  <2>2. crm'.muddled = crm.muddled /\ crm'.card = crm.card /\ crm'.pipeline = next /\ crm'.modal = crm.modal
    <3> HIDE DEF page, next
    <3>1. QED
      BY <1>3, <2>1, Zenon
  <2>3. CASE crm.muddled
    BY <1>1, <2>2, <2>3, Zenon DEF BoardIsComing
  <2>4. CASE ~crm.muddled
    <3> DEFINE new == [slot |-> FreeSlot({}), op |-> "board", about |-> about, answer |-> Waiting]
    <3>1. crmCalls \ {call} = {}
      BY <1>5, <2>4
    <3>2. crmCalls' = {new}
      <4>1. crmCalls' = {} \cup {new}
        BY <2>1, <3>1, Zenon DEF Chain, Send
      <4>2. QED
        <5> HIDE DEF new
        <5>1. QED
          BY <4>1
    <3>3. new.op = "board" /\ new.about = about /\ new.answer = Waiting /\ about.pipeline = next /\ about.form = form
      <4> HIDE DEF next
      <4>1. QED
        OBVIOUS
    <3>4. InStep(crm', crmDb', new)
      <4> HIDE DEF new, about, next
      <4>1. QED
        BY <2>2, <3>3, AnswersDiffer, Zenon DEF InStep
    <3>5. CardFollows(crm', crmDb', new)
      <4>1. "board" # "move"
        OBVIOUS
      <4>2. ASSUME InCard(crm'), form # "card"
            PROVE  CardStands(crm', crmDb')
        <5> HIDE DEF next
        <5>1. crm'.modal = "card" => crm.modal = "card" /\ form # "card"
          BY <2>2, <4>2, Zenon
        <5>2. QED
          BY <1>1, <1>2, <1>5, <2>2, <2>4, <4>2, <5>1, CardStaysPut, Zenon
      <4>3. QED
        <5> HIDE DEF new, about, next
        <5>1. QED
          BY <3>3, <4>1, <4>2, Zenon DEF CardFollows
    <3>6. QED
      <4> HIDE DEF new
      <4>1. QED
        BY <1>1, <2>2, <3>2, <3>4, <3>5, OneCall, Zenon
  <2>5. QED
    BY <2>3, <2>4
<1>8. CASE call.answer # Failed /\ ~(next # 0)
  <2>1. crm' = Ends(empty, form) /\ crmCalls' = crmCalls \ {call}
    BY <1>8, Zenon DEF PipelinesArrive
  <2>2. /\ crm'.muddled = crm.muddled /\ crm'.card = crm.card /\ crm'.pipeline = next /\ crm'.cards = <<>>
        /\ crm'.modal = "card" => crm.modal = "card" /\ form # "card"
    <3> HIDE DEF empty, next, form
    <3>1. /\ crm'.muddled = empty.muddled /\ crm'.card = empty.card /\ crm'.pipeline = empty.pipeline
          /\ crm'.cards = empty.cards
          /\ crm'.modal = "card" => empty.modal = "card" /\ form # "card"
      BY <1>4, <2>1, EndsDoes
    <3>2. QED
      BY <1>4, <3>1
  <2>3. CASE crm.muddled
    BY <1>1, <2>2, <2>3, Zenon DEF BoardIsComing
  <2>4. CASE ~crm.muddled
    <3>1. crmCalls' = {}
      BY <1>5, <2>1, <2>4
    <3>2. crm'.pipeline = 0 /\ DOMAIN crm'.cards = {}
      <4> HIDE DEF next
      <4>1. QED
        BY <1>8, <2>2
    <3>3. InCard(crm') => CardStands(crm', crmDb')
      BY <1>1, <1>2, <1>5, <2>2, <2>4, CardStaysPut, Zenon
    <3>4. BoardStands(crm', crmDb')
      BY <3>2, <3>3 DEF BoardStands
    <3>5. QED
      BY <1>1, <2>2, <3>1, <3>4, Zenon DEF BoardIsComing
  <2>5. QED
    BY <2>3, <2>4
<1>9. QED
  BY <1>6, <1>7, <1>8, Zenon

(* A call that fails leaves the page muddled and the card behind.          *)
LEMMA CrmMuddled ==
  ASSUME NEW page, IsCrm(page), IsDialogCard(page.card),
         NEW m, m = [page EXCEPT !.muddled = TRUE, !.card.behind = TRUE]
  PROVE  IsDialogCard(m.card) /\ m.muddled
<1> DEFINE card == [page.card EXCEPT !.behind = TRUE]
<1>1. m.card = card /\ m.muddled
  BY DEF IsCrm
<1>2. IsDialogCard(card)
  BY DEF IsDialogCard
<1>3. QED
  BY <1>1, <1>2, Zenon

(* What the answer to a move does to the card in the dialog.               *)
LEMMA MovedDoes ==
  ASSUME IsCrm(crm), IsDialogCard(crm.card), NEW call, NEW m, m = Moved(call)
  PROVE  /\ m.mounted = crm.mounted /\ m.muddled = crm.muddled /\ m.pipeline = crm.pipeline
         /\ m.modal = crm.modal /\ IsDialogCard(m.card) /\ m.card.id = crm.card.id
         /\ m.card.behind = crm.card.behind
         /\ IF call.op = "move" /\ call.about.shown
            THEN m.card.stage = call.about.stage /\ m.card.status = call.about.status
            ELSE m.card = crm.card
<1> DEFINE stage == call.about.stage
           status == call.about.status
           card == [crm.card EXCEPT !.stage = stage, !.status = status]
<1>1. CASE call.op = "move" /\ call.about.shown
  <2>1. m = [crm EXCEPT !.card.stage = stage, !.card.status = status]
    BY <1>1, Zenon DEF Moved
  <2>2. m = [crm EXCEPT !.card = card]
    <3> HIDE DEF stage, status
    <3>1. QED
      BY <2>1 DEF IsCrm
  <2>3. /\ m.mounted = crm.mounted /\ m.muddled = crm.muddled /\ m.pipeline = crm.pipeline
        /\ m.modal = crm.modal /\ m.card = card
    <3> HIDE DEF card
    <3>1. QED
      BY <2>2 DEF IsCrm
  <2>4. /\ IsDialogCard(card) /\ card.id = crm.card.id /\ card.behind = crm.card.behind
        /\ card.stage = stage /\ card.status = status
    <3> HIDE DEF stage, status
    <3>1. QED
      BY DEF IsDialogCard
  <2>5. QED
    <3> HIDE DEF card
    <3>1. QED
      BY <1>1, <2>3, <2>4, Zenon
<1>2. CASE ~(call.op = "move" /\ call.about.shown)
  <2>1. m = crm
    BY <1>2, Zenon DEF Moved
  <2>2. QED
    BY <1>2, <2>1, Zenon
<1>3. QED
  BY <1>1, <1>2, Zenon

(* After a write the board, or the list of pipelines, is read again.       *)
LEMMA WriteAnsweredKeepsBoard ==
  ASSUME BoardInv, NEW call \in crmCalls, CrmWriteAnswered(call)
  PROVE  IsDialogCard(crm'.card) /\ IsCrmDb(crmDb') /\ BoardIsComing(crm', crmCalls', crmDb')
<1> DEFINE form == call.about.form
<1>1. /\ IsCrm(crm) /\ IsDialogCard(crm.card) /\ IsCrmDb(crmDb) /\ crm.mounted /\ crmDb' = crmDb
      /\ BoardIsComing(crm, crmCalls, crmDb)
  BY Zenon DEF BoardInv, CrmInv, CrmWriteAnswered
<1>2. call.op \in Writes /\ call.answer # Waiting
  BY DEF CrmWriteAnswered, Done
<1>3. CASE call.answer = Failed
  <2> DEFINE busy == crm.submitting /\ form = None
             page == [crm EXCEPT !.submitting = busy]
  <2>1. crm' = [crm EXCEPT !.submitting = busy, !.muddled = TRUE, !.card.behind = TRUE]
    BY <1>3, Zenon DEF CrmWriteAnswered
  <2>2. crm' = [page EXCEPT !.muddled = TRUE, !.card.behind = TRUE]
    BY <2>1, Zenon
  <2>3. IsCrm(page) /\ page.card = crm.card
    <3> HIDE DEF busy
    <3>1. QED
      BY <1>1 DEF IsCrm
  <2>4. IsDialogCard(crm'.card) /\ crm'.muddled
    <3> HIDE DEF page
    <3>1. IsDialogCard(page.card)
      BY <1>1, <2>3, Zenon
    <3>2. QED
      BY <2>2, <2>3, <3>1, CrmMuddled
  <2>5. QED
    BY <1>1, <2>4, Zenon DEF BoardIsComing
<1>4. CASE call.answer # Failed
  <2>1. crm' = Moved(call)
    BY <1>4, Zenon DEF CrmWriteAnswered
  <2>2. /\ crm'.mounted = crm.mounted /\ crm'.muddled = crm.muddled /\ crm'.pipeline = crm.pipeline
        /\ crm'.modal = crm.modal /\ IsDialogCard(crm'.card) /\ crm'.card.id = crm.card.id
        /\ crm'.card.behind = crm.card.behind
        /\ IF call.op = "move" /\ call.about.shown
           THEN crm'.card.stage = call.about.stage /\ crm'.card.status = call.about.status
           ELSE crm'.card = crm.card
    BY <1>1, <2>1, MovedDoes
  <2>3. CASE crm.muddled
    BY <1>1, <2>2, <2>3, Zenon DEF BoardIsComing
  <2>4. CASE ~crm.muddled
    <3>1. crmCalls = {call} /\ InStep(crm, crmDb, call) /\ CardFollows(crm, crmDb, call)
      BY <1>1, <2>4, TheOneCall, Zenon
    <3>2. call.op = "pipeline" \/ call.about.pipeline = crm.pipeline
      <4>1. "board" \notin Writes /\ "pipelines" \notin Writes
        BY DEF Writes
      <4>2. QED
        BY <1>2, <3>1, <4>1, Zenon DEF InStep
    <3>3. InCard(crm') /\ form # "card" => CardStands(crm', crmDb)
      <4> SUFFICES ASSUME InCard(crm'), form # "card"
                   PROVE  CardStands(crm', crmDb)
        OBVIOUS
      <4>1. InCard(crm)
        BY <2>2, Zenon DEF InCard
      <4>2. \/ call.op # "move" /\ CardStands(crm, crmDb)
            \/ /\ call.op = "move" /\ call.about.shown /\ crm.card.id \in DOMAIN crmDb.cards
               /\ crmDb.cards[crm.card.id].stage = call.about.stage
               /\ crmDb.cards[crm.card.id].status = call.about.status
        <5>1. call.answer \notin {Waiting, Failed}
          BY <1>2, <1>4
        <5>2. QED
          BY <3>1, <4>1, <5>1, Zenon DEF CardFollows
      <4>3. QED
        BY <2>2, <4>2, Zenon DEF CardStands
    <3>4. ASSUME NEW op, NEW about, crmCalls' = Chain(crmCalls, call, op, about), about.form = form,
                 op = "pipelines" \/ (op = "board" /\ about.pipeline = crm.pipeline)
          PROVE  BoardIsComing(crm', crmCalls', crmDb')
      <4> DEFINE new == [slot |-> FreeSlot({}), op |-> op, about |-> about, answer |-> Waiting]
      <4>1. crmCalls \ {call} = {}
        BY <3>1
      <4>2. crmCalls' = {} \cup {new}
        BY <3>4, <4>1, Zenon DEF Chain, Send
      <4>3. new.op = op /\ new.about = about /\ new.answer = Waiting
        OBVIOUS
      <4>4. InStep(crm', crmDb', new)
        <5> HIDE DEF new
        <5>1. QED
          BY <2>2, <3>4, <4>3, AnswersDiffer, Zenon DEF InStep
      <4>5. CardFollows(crm', crmDb', new)
        <5> HIDE DEF new
        <5>1. op # "move"
          BY <3>4
        <5>2. QED
          BY <1>1, <3>3, <3>4, <4>3, <5>1, Zenon DEF CardFollows
      <4>6. QED
        <5> HIDE DEF new
        <5>1. crmCalls' = {new}
          BY <4>2
        <5>2. QED
          BY <4>4, <4>5, <5>1, OneCall, Zenon
    <3>5. CASE call.op = "pipeline"
      <4> DEFINE about == [select |-> call.answer.result.pipeline, form |-> form]
      <4>1. crmCalls' = Chain(crmCalls, call, "pipelines", about)
        BY <1>4, <3>5, Zenon DEF CrmWriteAnswered
      <4>2. about.form = form
        OBVIOUS
      <4>3. QED
        <5> HIDE DEF about, form
        <5>1. BoardIsComing(crm', crmCalls', crmDb')
          BY <3>4, <4>1, <4>2
        <5>2. QED
          BY <1>1, <2>2, <5>1, Zenon
    <3>6. CASE call.op # "pipeline"
      <4> DEFINE about == [pipeline |-> call.about.pipeline, form |-> form]
      <4>1. crmCalls' = Chain(crmCalls, call, "board", about)
        BY <1>4, <3>6, Zenon DEF CrmWriteAnswered
      <4>2. about.form = form /\ about.pipeline = crm.pipeline
        BY <3>2, <3>6
      <4>3. QED
        <5> HIDE DEF about, form
        <5>1. BoardIsComing(crm', crmCalls', crmDb')
          BY <3>4, <4>1, <4>2
        <5>2. QED
          BY <1>1, <2>2, <5>1, Zenon
    <3>7. QED
      BY <3>5, <3>6
  <2>5. QED
    BY <2>3, <2>4
<1>5. QED
  BY <1>3, <1>4

(* A step that leaves what is shown, and closes the dialog or leaves it    *)
(* behind, leaves the board on its way.                                    *)
LEMMA CardPutAway ==
  ASSUME NEW m, NEW calls, NEW db, BoardIsComing(m, calls, db), NEW m2,
         m2.mounted => m.mounted, ~m2.muddled => ~m.muddled, m2.pipeline = m.pipeline, m2.stages = m.stages,
         m2.cards = m.cards, m2.fields = m.fields,
         InCard(m2) => calls = {} /\ CardStands(m2, db)
  PROVE  BoardIsComing(m2, calls, db)
<1>1. CASE ~(m2.mounted /\ ~m2.muddled)
  BY <1>1, Zenon DEF BoardIsComing
<1>2. CASE (m2.mounted /\ ~m2.muddled) /\ calls = {} /\ BoardStands(m, db)
  <2>1. BoardStands(m2, db)
    BY <1>2, Zenon DEF BoardStands
  <2>2. QED
    BY <1>2, <2>1, Zenon DEF BoardIsComing
<1>3. ASSUME NEW c \in calls, calls = {c}, InStep(m, db, c)
      PROVE  BoardIsComing(m2, calls, db)
  <2>1. InStep(m2, db, c)
    BY <1>3, Zenon DEF InStep
  <2>2. CardFollows(m2, db, c)
    <3>1. calls # {}
      OBVIOUS
    <3>2. QED
      BY <3>1, Zenon DEF CardFollows
  <2>3. QED
    BY <1>3, <2>1, <2>2, OneCall, Zenon
<1>4. QED
  BY <1>1, <1>2, <1>3, Zenon DEF BoardIsComing

LEMMA CrmDialogsKeepBoard ==
  ASSUME BoardInv,
         CloseForm \/ LeaveCrm \/ (\E form \in Forms : OpenForm(form)) \/ (\E c \in DOMAIN crmDb.cards : OpenCard(c))
  PROVE  IsDialogCard(crm'.card) /\ IsCrmDb(crmDb') /\ BoardIsComing(crm', crmCalls', crmDb')
<1>1. /\ IsCrm(crm) /\ IsDialogCard(crm.card) /\ IsCrmDb(crmDb) /\ crm.mounted /\ crmDb' = crmDb
      /\ BoardIsComing(crm, crmCalls, crmDb)
  BY Zenon DEF BoardInv, CrmInv, CloseForm, LeaveCrm, OpenForm, OpenCard, OnBoard
<1>2. ASSUME NEW modal, modal # "card", crm' = [crm EXCEPT !.modal = modal], crmCalls' = crmCalls
      PROVE  IsDialogCard(crm'.card) /\ IsCrmDb(crmDb') /\ BoardIsComing(crm', crmCalls', crmDb')
  <2>1. /\ crm'.mounted = crm.mounted /\ crm'.muddled = crm.muddled /\ crm'.pipeline = crm.pipeline
        /\ crm'.stages = crm.stages /\ crm'.cards = crm.cards /\ crm'.fields = crm.fields
        /\ crm'.card = crm.card /\ crm'.modal = modal
    BY <1>1, <1>2 DEF IsCrm
  <2>2. ~InCard(crm')
    BY <1>2, <2>1, Zenon DEF InCard
  <2>3. BoardIsComing(crm', crmCalls, crmDb)
    BY <1>1, <2>1, <2>2, CardPutAway, Zenon
  <2>4. QED
    BY <1>1, <1>2, <2>1, <2>3, Zenon
<1>3. CASE CloseForm
  <2>1. None # "card"
    BY DEF None
  <2>2. QED
    BY <1>2, <1>3, <2>1, Zenon DEF CloseForm
<1>4. ASSUME NEW form \in Forms, OpenForm(form)
      PROVE  IsDialogCard(crm'.card) /\ IsCrmDb(crmDb') /\ BoardIsComing(crm', crmCalls', crmDb')
  <2>1. form # "card" /\ crm' = [crm EXCEPT !.modal = form] /\ crmCalls' = crmCalls
    BY <1>4 DEF OpenForm
  <2>2. QED
    BY <1>2, <2>1, Zenon
<1>5. CASE LeaveCrm
  <2>1. crm' = [crm EXCEPT !.mounted = FALSE, !.modal = None, !.submitting = FALSE]
    BY <1>5, Zenon DEF LeaveCrm
  <2>2. ~crm'.mounted /\ crm'.card = crm.card
    BY <1>1, <2>1 DEF IsCrm
  <2>3. QED
    BY <1>1, <2>2, Zenon DEF BoardIsComing
<1>6. ASSUME NEW c \in DOMAIN crmDb.cards, OpenCard(c)
      PROVE  IsDialogCard(crm'.card) /\ IsCrmDb(crmDb') /\ BoardIsComing(crm', crmCalls', crmDb')
  <2> DEFINE busy == crmCalls # {}
             stage == crm.cards[c].stage
             status == crm.cards[c].status
             card == [id |-> c, stage |-> stage, status |-> status, behind |-> busy]
  <2>1. crm' = [crm EXCEPT !.modal = "card", !.card = card] /\ crmCalls' = crmCalls /\ c \in DOMAIN crm.cards
    BY <1>6, Zenon DEF OpenCard, OnBoard
  <2>2. /\ crm'.mounted = crm.mounted /\ crm'.muddled = crm.muddled /\ crm'.pipeline = crm.pipeline
        /\ crm'.stages = crm.stages /\ crm'.cards = crm.cards /\ crm'.fields = crm.fields
        /\ crm'.card = card
    <3> HIDE DEF card
    <3>1. QED
      BY <1>1, <2>1 DEF IsCrm
  <2>3. /\ IsDialogCard(card) /\ card.id = c /\ card.stage = stage /\ card.status = status
        /\ card.behind = busy
    <3> HIDE DEF busy, stage, status
    <3>1. QED
      BY DEF IsDialogCard
  <2>4. CASE crm.muddled
    <3> HIDE DEF card
    <3>1. QED
      BY <1>1, <2>2, <2>3, <2>4, Zenon DEF BoardIsComing
  <2>5. CASE ~crm.muddled
    <3>1. InCard(crm') => crmCalls = {} /\ CardStands(crm', crmDb)
      <4> SUFFICES ASSUME InCard(crm')
                   PROVE  crmCalls = {} /\ CardStands(crm', crmDb)
        OBVIOUS
      <4> HIDE DEF card
      <4>1. crmCalls = {}
        BY <2>2, <2>3, Zenon DEF InCard
      <4>2. BoardStands(crm, crmDb)
        BY <1>1, <2>5, <4>1 DEF BoardIsComing
      <4>3. stage = crmDb.cards[c].stage /\ status = crmDb.cards[c].status
        BY <2>1, <4>2, Zenon DEF BoardStands
      <4>4. QED
        BY <1>6, <2>2, <2>3, <4>1, <4>3, Zenon DEF CardStands
    <3>2. BoardIsComing(crm', crmCalls, crmDb)
      <4> HIDE DEF card
      <4>1. QED
        BY <1>1, <2>2, <3>1, CardPutAway, Zenon
    <3>3. QED
      <4> HIDE DEF card
      <4>1. QED
        BY <1>1, <2>1, <2>2, <2>3, <3>2, Zenon
  <2>6. QED
    BY <2>4, <2>5
<1>7. QED
  BY <1>3, <1>4, <1>5, <1>6, Zenon

(* The server reads what it has; what it writes is read afterwards.        *)
LEMMA CrmServerKeepsBoard ==
  ASSUME BoardInv, NEW call \in crmCalls, CrmServer(call)
  PROVE  IsDialogCard(crm'.card) /\ IsCrmDb(crmDb') /\ BoardIsComing(crm', crmCalls', crmDb')
<1>1. /\ IsCrm(crm) /\ IsDialogCard(crm.card) /\ IsCrmDb(crmDb) /\ crm' = crm /\ IsCall(call)
      /\ BoardIsComing(crm, crmCalls, crmDb) /\ call.answer = Waiting
  BY Zenon DEF BoardInv, CrmInv, Held, CrmServer
<1>2. ASSUME NEW answer, crmCalls' = Answered(crmCalls, call, answer), IsCrmDb(crmDb'),
             ASSUME NEW new, new.op = call.op, new.about = call.about, new.answer = answer, crm.mounted,
                    InStep(crm, crmDb, call), CardFollows(crm, crmDb, call)
             PROVE  InStep(crm, crmDb', new) /\ CardFollows(crm, crmDb', new)
      PROVE  IsDialogCard(crm'.card) /\ IsCrmDb(crmDb') /\ BoardIsComing(crm', crmCalls', crmDb')
  <2>1. CASE ~(crm.mounted /\ ~crm.muddled)
    BY <1>1, <1>2, <2>1, Zenon DEF BoardIsComing
  <2>2. CASE crm.mounted /\ ~crm.muddled
    <3> DEFINE new == [slot |-> call.slot, op |-> call.op, about |-> call.about, answer |-> answer]
    <3>1. crmCalls = {call} /\ InStep(crm, crmDb, call) /\ CardFollows(crm, crmDb, call)
      BY <1>1, <2>2, TheOneCall, Zenon
    <3>2. [call EXCEPT !.answer = answer] = new
      BY <1>1, AnswerKeepsCall
    <3>3. crmCalls' = {new}
      <4> HIDE DEF new
      <4>1. crmCalls' = (crmCalls \ {call}) \cup {new}
        BY <1>2, <3>2, Zenon DEF Answered
      <4>2. QED
        BY <3>1, <4>1
    <3>4. new.op = call.op /\ new.about = call.about /\ new.answer = answer
      OBVIOUS
    <3>5. QED
      <4> HIDE DEF new
      <4>1. InStep(crm, crmDb', new) /\ CardFollows(crm, crmDb', new)
        BY <1>2, <2>2, <3>1, <3>4, Zenon
      <4>2. BoardIsComing(crm, crmCalls', crmDb')
        BY <3>3, <4>1, OneCall, Zenon
      <4>3. QED
        BY <1>1, <1>2, <4>2, Zenon
  <2>3. QED
    BY <2>1, <2>2
<1>3. CASE /\ call.op = "pipelines"
           /\ crmCalls' = Answered(crmCalls, call, Ok([pipelines |-> crmDb.pipelines])) /\ UNCHANGED crmDb
  <2> DEFINE answer == Ok([pipelines |-> crmDb.pipelines])
  <2>1. answer # Failed
    BY AnswersDiffer
  <2>2. "pipelines" # "move"
    OBVIOUS
  <2>3. ASSUME NEW new, new.op = call.op, new.about = call.about, new.answer = answer,
               CardFollows(crm, crmDb, call)
        PROVE  InStep(crm, crmDb', new) /\ CardFollows(crm, crmDb', new)
    <3> HIDE DEF answer
    <3>1. QED
      BY <1>3, <2>1, <2>2, <2>3, Zenon DEF InStep, CardFollows
  <2>4. crmCalls' = Answered(crmCalls, call, answer) /\ IsCrmDb(crmDb')
    BY <1>1, <1>3, Zenon
  <2>5. QED
    <3> HIDE DEF answer
    <3>1. QED
      BY <1>2, <2>3, <2>4, Zenon
<1>4. CASE /\ call.op = "board"
           /\ crmCalls' = Answered(crmCalls, call, Ok(Board(call.about.pipeline))) /\ UNCHANGED crmDb
  <2> DEFINE answer == Ok(Board(call.about.pipeline))
  <2>1. answer # Failed /\ answer.result = BoardOf(crmDb, call.about.pipeline)
    <3>1. Board(call.about.pipeline) = BoardOf(crmDb, call.about.pipeline)
      BY Zenon DEF Board, StagesOf, CardsOf, BoardOf
    <3>2. QED
      BY <3>1, AnswersDiffer, Zenon
  <2>2. "board" # "move" /\ "board" # "pipelines" /\ "board" \notin Writes
    BY DEF Writes
  <2>3. ASSUME NEW new, new.op = call.op, new.about = call.about, new.answer = answer,
               InStep(crm, crmDb, call), CardFollows(crm, crmDb, call)
        PROVE  InStep(crm, crmDb', new) /\ CardFollows(crm, crmDb', new)
    <3> HIDE DEF answer
    <3>1. call.about.pipeline = crm.pipeline
      BY <1>4, <2>2, <2>3, Zenon DEF InStep
    <3>2. InStep(crm, crmDb', new)
      BY <1>4, <2>1, <2>3, <3>1, Zenon DEF InStep
    <3>3. CardFollows(crm, crmDb', new)
      BY <1>4, <2>2, <2>3, Zenon DEF CardFollows
    <3>4. QED
      BY <3>2, <3>3
  <2>4. crmCalls' = Answered(crmCalls, call, answer) /\ IsCrmDb(crmDb')
    BY <1>1, <1>4, Zenon
  <2>5. QED
    <3> HIDE DEF answer
    <3>1. QED
      BY <1>2, <2>3, <2>4, Zenon
<1>5. ASSUME NEW new, new.op = call.op, new.about = call.about, call.op \in Writes, InStep(crm, crmDb, call)
      PROVE  InStep(crm, crmDb', new)
  <2>1. "board" \notin Writes /\ "pipelines" \notin Writes
    BY DEF Writes
  <2>2. QED
    BY <1>5, <2>1, Zenon DEF InStep
<1>6. CASE /\ call.op \in Writes
           /\ crmCalls' = Answered(crmCalls, call, Failed) /\ UNCHANGED crmDb
  <2>1. ASSUME NEW new, new.op = call.op, new.about = call.about, new.answer = Failed,
               InStep(crm, crmDb, call), CardFollows(crm, crmDb, call)
        PROVE  InStep(crm, crmDb', new) /\ CardFollows(crm, crmDb', new)
    <3>1. crmDb' = crmDb /\ new.answer \in {Waiting, Failed}
      BY <1>6, <2>1
    <3>2. CardFollows(crm, crmDb', new)
      BY <2>1, <3>1 DEF CardFollows
    <3>3. QED
      BY <1>5, <1>6, <2>1, <3>2, Zenon
  <2>2. IsCrmDb(crmDb')
    BY <1>1, <1>6, Zenon
  <2>3. QED
    BY <1>2, <1>6, <2>1, <2>2, Zenon
<1>7. CASE /\ call.op \in Writes /\ crmDb' = CrmWrites(call)
           /\ crmCalls' = Answered(crmCalls, call, Ok([pipeline |-> Cardinality(crmDb.pipelines) + 1]))
  <2> DEFINE answer == Ok([pipeline |-> Cardinality(crmDb.pipelines) + 1])
  <2>1. /\ IsCrmDb(crmDb')
        /\ call.op # "move" => DealsStand(crmDb.cards, crmDb'.cards)
        /\ call.op = "move" /\ call.about.card \in DOMAIN crmDb.cards =>
             /\ DOMAIN crmDb'.cards = DOMAIN crmDb.cards
             /\ crmDb'.cards[call.about.card].stage = call.about.stage
             /\ crmDb'.cards[call.about.card].status = call.about.status
    BY <1>1, <1>7, CrmWritesDeals, Zenon
  <2>2. ASSUME NEW new, new.op = call.op, new.about = call.about, new.answer = answer,
               InStep(crm, crmDb, call), CardFollows(crm, crmDb, call)
        PROVE  InStep(crm, crmDb', new) /\ CardFollows(crm, crmDb', new)
    <3> HIDE DEF answer
    <3>1. CASE call.op # "move" /\ CardStands(crm, crmDb)
      <4>1. CardStands(crm, crmDb')
        BY <2>1, <3>1, Zenon DEF CardStands, DealsStand
      <4>2. CardFollows(crm, crmDb', new)
        BY <2>2, <3>1, <4>1, Zenon DEF CardFollows
      <4>3. QED
        BY <1>5, <1>7, <2>2, <4>2, Zenon
    <3>2. CASE call.about.form = "card" \/ ~InCard(crm)
      <4>1. CardFollows(crm, crmDb', new)
        BY <2>2, <3>2, Zenon DEF CardFollows
      <4>2. QED
        BY <1>5, <1>7, <2>2, <4>1, Zenon
    <3>3. CASE /\ call.op = "move" /\ call.about.shown /\ call.about.card = crm.card.id
               /\ crm.card.id \in DOMAIN crmDb.cards
      <4>1. /\ crm.card.id \in DOMAIN crmDb'.cards
            /\ crmDb'.cards[crm.card.id].stage = call.about.stage
            /\ crmDb'.cards[crm.card.id].status = call.about.status
        BY <2>1, <3>3, Zenon
      <4>2. CardFollows(crm, crmDb', new)
        BY <2>2, <3>3, <4>1, Zenon DEF CardFollows
      <4>3. QED
        BY <1>5, <1>7, <2>2, <4>2, Zenon
    <3>4. QED
      BY <2>2, <3>1, <3>2, <3>3, Zenon DEF CardFollows
  <2>3. crmCalls' = Answered(crmCalls, call, answer)
    BY <1>7, Zenon
  <2>4. QED
    <3> HIDE DEF answer
    <3>1. QED
      BY <1>2, <2>1, <2>2, <2>3, Zenon
<1>8. QED
  BY <1>3, <1>4, <1>6, <1>7, Zenon DEF CrmServer

LEMMA CrmFailureKeepsBoard ==
  ASSUME BoardInv, NEW call \in crmCalls, CrmCallFails(call)
  PROVE  IsDialogCard(crm'.card) /\ IsCrmDb(crmDb') /\ BoardIsComing(crm', crmCalls', crmDb')
<1> DEFINE lost == crmDb.lost + 1
<1>1. IsCrm(crm) /\ IsDialogCard(crm.card) /\ IsCrmDb(crmDb)
  BY Zenon DEF BoardInv, CrmInv
<1>2. /\ crm' = [crm EXCEPT !.muddled = TRUE, !.card.behind = TRUE]
      /\ crmDb' = [crmDb EXCEPT !.lost = lost]
  BY Zenon DEF CrmCallFails
<1>3. IsDialogCard(crm'.card) /\ crm'.muddled
  BY <1>1, <1>2, CrmMuddled
<1>4. IsCrmDb(crmDb')
  <2> HIDE DEF lost
  <2>1. crmDb' \in [pipelines : {crmDb'.pipelines}, stages : {crmDb'.stages}, fields : {crmDb'.fields},
                    cards : {crmDb'.cards}, lost : {crmDb'.lost}] /\ crmDb'.cards = crmDb.cards
    BY <1>1, <1>2 DEF IsCrmDb
  <2>2. QED
    BY <1>1, <2>1, Zenon DEF IsCrmDb
<1>5. QED
  BY <1>3, <1>4, Zenon DEF BoardIsComing

LEMMA BoardStepInv ==
  ASSUME BoardInv, [CrmNext]_crmVars
  PROVE  BoardInv'
<1>1. CrmInv'
  BY CrmStepInv, Zenon DEF BoardInv
<1>2. IsDialogCard(crm'.card) /\ IsCrmDb(crmDb') /\ BoardIsComing(crm', crmCalls', crmDb')
  <2>1. CASE UNCHANGED crmVars
    <3>1. crm' = crm /\ crmCalls' = crmCalls /\ crmDb' = crmDb
      BY <2>1 DEF crmVars
    <3>2. QED
      BY <3>1, Zenon DEF BoardInv
  <2>2. CASE CrmNext
    BY <2>2, CrmDialogsKeepBoard, CrmOperatorKeepsBoard, BoardReadKeepsBoard, PipelinesKeepBoard,
       WriteAnsweredKeepsBoard, CrmServerKeepsBoard, CrmFailureKeepsBoard, Zenon DEF CrmNext
  <2>3. QED
    BY <2>1, <2>2
<1>3. QED
  BY <1>1, <1>2, Zenon DEF BoardInv

LEMMA BoardInitInv ==
  ASSUME CrmInit \/ CrmClosed
  PROVE  BoardInv
<1>1. CrmInv
  BY CrmInitInv
<1>2. ASSUME NEW pipelines, NEW stages, NEW n \in Nat
      PROVE  IsCrmDb(Company(pipelines, stages, n))
  <2> DEFINE card == NewCard(<<1, 1>>)
             cards == [c \in 1..n |-> card]
  <2>1. IsDeal(card)
    BY DEF NewCard, IsDeal
  <2>2. AreDeals(cards)
    <3> DEFINE S == {card}
    <3>1. cards \in [1..n -> S] /\ \A r \in S : IsDeal(r)
      BY <2>1
    <3>2. cards \in Seq(S)
      <4> HIDE DEF cards, S
      <4>1. QED
        BY <1>2, <3>1
    <3>3. QED
      <4> HIDE DEF cards, S
      <4>1. QED
        BY <3>1, <3>2, Zenon DEF AreDeals
  <2>3. Company(pipelines, stages, n)
          = [pipelines |-> pipelines, stages |-> stages, fields |-> {0}, cards |-> cards, lost |-> 0]
    BY Zenon DEF Company
  <2>4. QED
    <3> HIDE DEF cards
    <3>1. QED
      BY <2>2, <2>3 DEF IsCrmDb
<1>3. IsCrmDb(crmDb)
  <2>1. FirstCards \in Nat /\ 0 \in Nat
    BY CrmPageAssumption
  <2>2. \/ crmDb = Company({}, {}, 0)
        \/ crmDb = Company({1, 2}, {<<1, 1>>, <<1, 2>>, <<2, 1>>}, FirstCards)
    BY DEF CrmInit, CrmClosed
  <2>3. QED
    BY <1>2, <2>1, <2>2, Zenon
<1>4. crm.card = NoCard /\ crm.modal = None /\ None # "card"
  BY DEF CrmInit, CrmClosed, CrmOpened, None
<1>5. IsDialogCard(crm.card)
  BY <1>4 DEF NoCard, IsDialogCard
<1>6. BoardIsComing(crm, crmCalls, crmDb)
  <2>1. CASE CrmClosed
    <3>1. ~crm.mounted
      BY <2>1 DEF CrmClosed, CrmOpened
    <3>2. QED
      BY <3>1, Zenon DEF BoardIsComing
  <2>2. CASE CrmInit
    <3> DEFINE about == [select |-> 0, form |-> None]
               new == [slot |-> FreeSlot({}), op |-> "pipelines", about |-> about, answer |-> Waiting]
    <3>1. crmCalls = {} \cup {new}
      BY <2>2, Zenon DEF CrmInit, Send
    <3>2. new.op = "pipelines" /\ new.answer # Failed
      BY AnswersDiffer
    <3>3. QED
      <4> HIDE DEF new
      <4>1. crmCalls = {new}
        BY <3>1
      <4>2. InStep(crm, crmDb, new) /\ CardFollows(crm, crmDb, new)
        BY <1>4, <3>2, Zenon DEF InStep, CardFollows, InCard
      <4>3. QED
        BY <4>1, <4>2, OneCall, Zenon
  <2>3. QED
    BY <2>1, <2>2
<1>7. QED
  BY <1>1, <1>3, <1>5, <1>6, Zenon DEF BoardInv

LEMMA BoardIsShown == BoardInv => BoardIsTrue
<1> SUFFICES ASSUME BoardInv, crm.mounted, crmCalls = {}, ~crm.muddled, crm.pipeline # 0
             PROVE  /\ [stages |-> crm.stages, cards |-> crm.cards, fields |-> crm.fields] = Board(crm.pipeline)
                    /\ crm.modal = "card" /\ ~crm.card.behind =>
                         /\ crmDb.cards[crm.card.id].stage = crm.card.stage
                         /\ crmDb.cards[crm.card.id].status = crm.card.status
  BY Zenon DEF BoardIsTrue
<1>1. BoardStands(crm, crmDb)
  BY DEF BoardInv, BoardIsComing
<1>2. Board(crm.pipeline) = BoardOf(crmDb, crm.pipeline)
  BY Zenon DEF Board, StagesOf, CardsOf, BoardOf
<1>3. QED
  BY <1>1, <1>2, Zenon DEF BoardStands, InCard, CardStands

-----------------------------------------------------------------------------
PagesInv == SampleInv /\ ScanInv /\ ListInv /\ BoardInv

(* With nothing on its way, and unless calls overlapped or failed since    *)
(* the last quiet read, the board and the list shown are those that are    *)
(* selected, as the server has them; the QR code shown is that of the session being         *)
(* scanned, unless the scan began across the polls of another one; and a   *)
(* template that is sent to Meta has a sample for the header it has,       *)
(* unless the header was changed under an upload.                          *)
THEOREM PagesShowTheirOwn == Spec => []PagesShowWhatWasAsked
<1>1. Init => PagesInv
  BY SampleInitInv, ScanInitInv, ListInitInv, BoardInitInv, Zenon DEF Init, PagesInv
<1>2. PagesInv /\ [Next]_webVars => PagesInv'
  BY PartsStep, SampleStepInv, ScanStepInv, ListStepInv, BoardStepInv, Zenon DEF PagesInv
<1>3. PagesInv => PagesShowWhatWasAsked
  BY SentIsSampled, ScanIsShown, ListIsShown, BoardIsShown, Zenon DEF PagesInv, PagesShowWhatWasAsked
<1>4. QED
  BY <1>1, <1>2, <1>3, PTL DEF Spec

-----------------------------------------------------------------------------
(* The types of the session *)

Tokens == {"none", "good", "expired"}
TokenStores == [access : Tokens, refresh : {"none", "good", "bad"}, saved : BOOLEAN]

TypedAuth(a) ==
  a \in [user : BOOLEAN, authed : BOOLEAN, loading : BOOLEAN, view : {"login", "register"}, form : Nat, busy : BOOLEAN,
         out : BOOLEAN, since : Nat, late : BOOLEAN, acts : 0..MaxSessionActs, lost : 0..MaxLost, expiries : 0..MaxExpiries]

TypedSocket(w) ==
  w \in [ws : {"none", "opening", "open", "closed"}, token : Tokens, timer : BOOLEAN, left : {w.left}]

SessionTyped == store \in TokenStores /\ TypedAuth(auth) /\ TypedSocket(socket)

LEMMA NoTokensTyped == NoTokens \in TokenStores
  BY DEF NoTokens, TokenStores, Tokens

LEMMA NoSocketTyped == TypedSocket(NoSocket)
<1> DEFINE left == [s \in {"closing", "timer", "open"} |-> 0]
<1>1. NoSocket = [ws |-> "none", token |-> "none", timer |-> FALSE, left |-> left]
  BY Zenon DEF NoSocket
<1>2. QED
  <2> HIDE DEF left
  <2>1. QED
    BY <1>1 DEF TypedSocket, Tokens

LEMMA SessionActTyped ==
  ASSUME NEW a, TypedAuth(a), a.acts < MaxSessionActs
  PROVE  TypedAuth(SessionAct(a))
<1> DEFINE acts == a.acts + 1
<1>1. acts \in 0..MaxSessionActs
  BY PanelCallsAssumption, WebSessionAssumption DEF TypedAuth
<1>2. SessionAct(a) = [a EXCEPT !.acts = acts]
  BY Zenon DEF SessionAct
<1>3. QED
  <2> HIDE DEF acts
  <2>1. QED
    BY <1>1, <1>2 DEF TypedAuth

LEMMA ConnectedTyped ==
  ASSUME TypedSocket(socket), NEW token \in Tokens
  PROVE  TypedSocket(Connected(token))
  BY DEF TypedSocket, Connected

LEMMA DisconnectedTyped ==
  ASSUME TypedSocket(socket)
  PROVE  TypedSocket(Disconnected)
<1> DEFINE half == [socket EXCEPT !.ws = "none", !.token = "none", !.timer = FALSE]
           left == [half.left EXCEPT !["closing"] = half.left["closing"] + (IF socket.ws \in {"opening", "open"} THEN 1 ELSE 0)]
<1>1. TypedSocket(half)
  BY DEF TypedSocket, Tokens
<1>2. Disconnected = [half EXCEPT !.left = left]
  BY Zenon DEF Disconnected
<1>3. QED
  <2> HIDE DEF half, left
  <2>1. QED
    BY <1>1, <1>2 DEF TypedSocket

LEMMA RendersTyped ==
  ASSUME SessionTyped, NEW a, TypedAuth(a), NEW st \in TokenStores, Renders(a, st)
  PROVE  SessionTyped'
<1> DEFINE authed == a.user /\ st.access # "none"
           next == [a EXCEPT !.authed = authed]
           form == next.form + 1
<1>1. TypedAuth(next)
  <2>1. authed \in BOOLEAN
    BY DEF TypedAuth
  <2> HIDE DEF authed
  <2>2. QED
    BY <2>1 DEF TypedAuth
<1>2. TypedAuth([next EXCEPT !.form = form, !.busy = FALSE])
  <2> HIDE DEF next
  <2>1. form \in Nat
    BY <1>1 DEF TypedAuth
  <2> HIDE DEF form
  <2>2. QED
    BY <1>1, <2>1 DEF TypedAuth
<1>3. auth' = next \/ auth' = [next EXCEPT !.form = form, !.busy = FALSE]
  BY Zenon DEF Renders
<1>4. st.access \in Tokens
  BY DEF TokenStores
<1>5. socket' = Connected(st.access) \/ socket' = Disconnected \/ socket' = socket
  BY Zenon DEF Renders
<1>6. TypedSocket(socket')
  BY <1>4, <1>5, ConnectedTyped, DisconnectedTyped, Zenon DEF SessionTyped
<1>7. TypedAuth(auth')
  <2> HIDE DEF next, form
  <2>1. QED
    BY <1>1, <1>2, <1>3, Zenon
<1>8. store' = st
  BY Zenon DEF Renders
<1>9. QED
  BY <1>6, <1>7, <1>8, Zenon DEF SessionTyped

LEMMA OpenedTyped ==
  ASSUME NEW st \in TokenStores, NEW acts \in 0..MaxSessionActs, NEW lost \in 0..MaxLost, NEW expiries \in 0..MaxExpiries,
         NEW out \in BOOLEAN, Opened(st, acts, lost, expiries, out)
  PROVE  TypedAuth(auth') /\ TypedSocket(socket')
<1> DEFINE authed == st.saved /\ st.access # "none"
           loading == st.access # "none"
           saved == st.saved
<1>1. auth' = [user |-> saved, authed |-> authed, loading |-> loading, view |-> "login", form |-> 0, busy |-> FALSE,
               out |-> out, since |-> 0, late |-> FALSE, acts |-> acts, lost |-> lost, expiries |-> expiries]
  BY Zenon DEF Opened
<1>2. authed \in BOOLEAN /\ loading \in BOOLEAN /\ saved \in BOOLEAN
  BY DEF TokenStores
<1>3. TypedAuth(auth')
  <2> HIDE DEF authed, loading, saved
  <2>1. QED
    BY <1>1, <1>2 DEF TypedAuth
<1>4. QED
  BY <1>3, NoSocketTyped, Zenon DEF Opened

LEMMA OperatorKeepsTypes ==
  ASSUME SessionTyped, PageRequest \/ Login \/ Register \/ SwitchForm \/ Logout \/ Reload
  PROVE  SessionTyped'
<1>1. /\ store \in TokenStores /\ TypedAuth(auth) /\ TypedSocket(socket) /\ auth.acts < MaxSessionActs
  BY Zenon DEF SessionTyped, PageRequest, Login, Register, SubmitForm, SwitchForm, Logout, Reload, ActsInSession
<1>2. CASE PageRequest
  BY <1>1, <1>2, SessionActTyped, Zenon DEF PageRequest, SessionTyped
<1>3. CASE Login \/ Register
  <2> DEFINE a == [auth EXCEPT !.busy = TRUE]
  <2>1. TypedAuth(a) /\ a.acts = auth.acts
    BY <1>1 DEF TypedAuth
  <2>2. auth' = SessionAct(a) /\ UNCHANGED <<store, socket>>
    BY <1>3, Zenon DEF Login, Register, SubmitForm
  <2> HIDE DEF a
  <2>3. TypedAuth(auth')
    BY <1>1, <2>1, <2>2, SessionActTyped
  <2>4. QED
    BY <1>1, <2>2, <2>3, Zenon DEF SessionTyped
<1>4. CASE SwitchForm
  <2> DEFINE view == IF auth.view = "login" THEN "register" ELSE "login"
             form == auth.form + 1
             a == [auth EXCEPT !.view = view, !.form = form, !.busy = FALSE]
  <2>1. view \in {"login", "register"} /\ form \in Nat
    BY <1>1 DEF TypedAuth
  <2>2. auth' = SessionAct(a) /\ UNCHANGED <<store, socket>>
    <3>1. auth' = SessionAct([auth EXCEPT !.view = IF @ = "login" THEN "register" ELSE "login",
                                          !.form = @ + 1, !.busy = FALSE])
          /\ UNCHANGED <<store, socket>>
      BY <1>4, Zenon DEF SwitchForm
    <3>2. [auth EXCEPT !.view = IF @ = "login" THEN "register" ELSE "login", !.form = @ + 1, !.busy = FALSE] = a
      BY <1>1 DEF TypedAuth
    <3>3. QED
      BY <3>1, <3>2, Zenon
  <2>3. TypedAuth(a) /\ a.acts = auth.acts
    <3> HIDE DEF view, form
    <3>1. QED
      BY <1>1, <2>1 DEF TypedAuth
  <2> HIDE DEF a
  <2>4. TypedAuth(auth')
    BY <1>1, <2>2, <2>3, SessionActTyped
  <2>5. QED
    BY <1>1, <2>2, <2>4, Zenon DEF SessionTyped
<1>5. CASE Logout
  <2> DEFINE since == auth.form + 1
             a == [auth EXCEPT !.user = FALSE, !.out = TRUE, !.since = since, !.late = FALSE]
  <2>1. TypedAuth(a) /\ a.acts = auth.acts
    <3>1. since \in Nat
      BY <1>1 DEF TypedAuth
    <3> HIDE DEF since
    <3>2. QED
      BY <1>1, <3>1 DEF TypedAuth
  <2>2. Renders(SessionAct(a), NoTokens)
    BY <1>5, Zenon DEF Logout
  <2> HIDE DEF a
  <2>3. TypedAuth(SessionAct(a))
    BY <1>1, <2>1, SessionActTyped
  <2>4. QED
    BY <2>2, <2>3, NoTokensTyped, RendersTyped
<1>6. CASE Reload
  <2> DEFINE acts == auth.acts + 1
             out == auth.out /\ store.access = "none"
  <2>1. acts \in 0..MaxSessionActs /\ out \in BOOLEAN /\ auth.lost \in 0..MaxLost /\ auth.expiries \in 0..MaxExpiries
    BY <1>1, PanelCallsAssumption, WebSessionAssumption DEF TypedAuth
  <2>2. Opened(store, acts, auth.lost, auth.expiries, out) /\ store' = store
    BY <1>6, Zenon DEF Reload
  <2> HIDE DEF acts, out
  <2>3. QED
    BY <1>1, <2>1, <2>2, OpenedTyped DEF SessionTyped
<1>7. QED
  BY <1>2, <1>3, <1>4, <1>5, <1>6

LEMMA RequestsKeepTypes ==
  ASSUME SessionTyped, NEW r \in requests,
         \/ RefreshStarts(r) \/ RefreshEnds(r) \/ SessionChecked(r) \/ SignedIn(r) \/ PageAnswered(r)
         \/ SessionServer(r) \/ RequestLost(r)
  PROVE  SessionTyped'
<1> DEFINE busy == auth.busy /\ r.about.form # auth.form
           renewed == [store EXCEPT !.access = "good"]
           tokens == [access |-> "good", refresh |-> "good", saved |-> TRUE]
           saved == [store EXCEPT !.saved = TRUE]
           over == [auth EXCEPT !.user = FALSE]
           checked == [auth EXCEPT !.loading = FALSE]
           known == [auth EXCEPT !.user = TRUE, !.loading = FALSE]
           idle == [auth EXCEPT !.busy = busy]
           late == r.about.form < auth.since
           out == auth.out /\ late
           signed == [auth EXCEPT !.user = TRUE, !.out = out, !.late = late, !.busy = busy]
           lost == auth.lost + 1
<1>1. /\ store \in TokenStores /\ TypedAuth(auth) /\ TypedSocket(socket)
  BY Zenon DEF SessionTyped
<1>2. renewed \in TokenStores /\ tokens \in TokenStores /\ saved \in TokenStores
  BY <1>1 DEF TokenStores, Tokens
<1>3. TypedAuth(over) /\ TypedAuth(checked) /\ TypedAuth(known)
  BY <1>1 DEF TypedAuth
<1>4. TypedAuth(idle) /\ TypedAuth(signed)
  <2>1. busy \in BOOLEAN /\ late \in BOOLEAN /\ out \in BOOLEAN
    BY <1>1 DEF TypedAuth
  <2> HIDE DEF busy, late, out
  <2>2. QED
    BY <1>1, <2>1 DEF TypedAuth
<1>5. auth.lost < MaxLost => TypedAuth([auth EXCEPT !.lost = lost])
  <2>1. auth.lost < MaxLost => lost \in 0..MaxLost
    BY <1>1, PanelCallsAssumption, WebSessionAssumption DEF TypedAuth
  <2> HIDE DEF lost
  <2>2. QED
    BY <1>1, <2>1 DEF TypedAuth
<1>6. \/ UNCHANGED <<store, auth, socket>>
      \/ store' = renewed /\ UNCHANGED <<auth, socket>>
      \/ Renders(over, NoTokens)
      \/ Renders(known, saved)
      \/ Renders(checked, store)
      \/ Renders(signed, tokens)
      \/ auth' = idle /\ UNCHANGED <<store, socket>>
      \/ auth.lost < MaxLost /\ auth' = [auth EXCEPT !.lost = lost] /\ UNCHANGED <<store, socket>>
  BY Zenon DEF RefreshStarts, RefreshEnds, SessionChecked, SignedIn, PageAnswered, SessionServer, RequestLost
<1>7. QED
  <2> HIDE DEF renewed, tokens, saved, over, checked, known, idle, signed, lost
  <2>1. CASE Renders(over, NoTokens) \/ Renders(known, saved) \/ Renders(checked, store) \/ Renders(signed, tokens)
    BY <1>1, <1>2, <1>3, <1>4, <2>1, NoTokensTyped, RendersTyped
  <2>2. CASE ~(Renders(over, NoTokens) \/ Renders(known, saved) \/ Renders(checked, store) \/ Renders(signed, tokens))
    BY <1>1, <1>2, <1>4, <1>5, <1>6, <2>2, Zenon DEF SessionTyped
  <2>3. QED
    BY <2>1, <2>2

LEMMA BrowserKeepsTypes ==
  ASSUME SessionTyped,
         \/ TokenExpires \/ SocketOpens \/ SocketCloses \/ ReconnectFires
         \/ \E from, to : LeftSocketMoves(from, to)
  PROVE  SessionTyped'
<1> DEFINE lost == auth.lost + 1
           expiries == auth.expiries + 1
<1>1. /\ store \in TokenStores /\ TypedAuth(auth) /\ TypedSocket(socket)
  BY Zenon DEF SessionTyped
<1>2. CASE TokenExpires
  <2>1. /\ store' = [store EXCEPT !.access = "expired"] \/ store' = [store EXCEPT !.refresh = "bad"]
        /\ auth.expiries < MaxExpiries /\ auth' = [auth EXCEPT !.expiries = expiries] /\ UNCHANGED socket
    BY <1>2, Zenon DEF TokenExpires
  <2>2. expiries \in 0..MaxExpiries
    BY <1>1, <2>1, WebSessionAssumption DEF TypedAuth
  <2> HIDE DEF expiries
  <2>3. TypedAuth(auth')
    BY <1>1, <2>1, <2>2 DEF TypedAuth
  <2>4. store' \in TokenStores
    BY <1>1, <2>1 DEF TokenStores, Tokens
  <2>5. QED
    BY <1>1, <2>1, <2>3, <2>4, Zenon DEF SessionTyped
<1>3. CASE SocketOpens \/ SocketCloses
  <2>1. /\ socket' = [socket EXCEPT !.ws = "open"] \/ socket' = [socket EXCEPT !.ws = "closed", !.timer = TRUE]
        /\ auth' = auth \/ (auth.lost < MaxLost /\ auth' = [auth EXCEPT !.lost = lost])
        /\ UNCHANGED store
    BY <1>3, Zenon DEF SocketOpens, SocketCloses
  <2>2. auth.lost < MaxLost => lost \in 0..MaxLost
    BY <1>1, PanelCallsAssumption, WebSessionAssumption DEF TypedAuth
  <2> HIDE DEF lost
  <2>3. TypedAuth(auth')
    BY <1>1, <2>1, <2>2 DEF TypedAuth
  <2>4. TypedSocket(socket')
    BY <1>1, <2>1 DEF TypedSocket
  <2>5. QED
    BY <1>1, <2>1, <2>3, <2>4, Zenon DEF SessionTyped
<1>4. CASE ReconnectFires
  <2>1. /\ socket' = [socket EXCEPT !.timer = FALSE] \/ socket' = Connected(store.access)
        /\ UNCHANGED <<store, auth>>
    BY <1>4, Zenon DEF ReconnectFires
  <2>2. store.access \in Tokens /\ TypedSocket([socket EXCEPT !.timer = FALSE])
    BY <1>1 DEF TokenStores, TypedSocket
  <2>3. TypedSocket(socket')
    BY <1>1, <2>1, <2>2, ConnectedTyped, Zenon
  <2>4. QED
    BY <1>1, <2>1, <2>3, Zenon DEF SessionTyped
<1>5. ASSUME NEW from, NEW to, LeftSocketMoves(from, to)
      PROVE  SessionTyped'
  <2> DEFINE left == [st \in DOMAIN socket.left |-> CASE st = from -> socket.left[st] - 1
                                                      [] st = to -> socket.left[st] + 1
                                                      [] OTHER -> socket.left[st]]
  <2>1. socket' = [socket EXCEPT !.left = left] /\ UNCHANGED <<store, auth>>
    BY <1>5, Zenon DEF LeftSocketMoves
  <2> HIDE DEF left
  <2>2. TypedSocket(socket')
    BY <1>1, <2>1 DEF TypedSocket
  <2>3. QED
    BY <1>1, <2>1, <2>2, Zenon DEF SessionTyped
<1>6. QED
  BY <1>2, <1>3, <1>4, <1>5

LEMMA SessionTypedStep ==
  ASSUME SessionTyped, [SessionNext]_sessionVars
  PROVE  SessionTyped'
<1>1. CASE UNCHANGED sessionVars
  BY <1>1, Zenon DEF sessionVars, SessionTyped
<1>2. CASE SessionNext
  BY <1>2, OperatorKeepsTypes, RequestsKeepTypes, BrowserKeepsTypes, Zenon DEF SessionNext
<1>3. QED
  BY <1>1, <1>2

LEMMA SessionTypedInit ==
  ASSUME SessionInit
  PROVE  SessionTyped
<1> DEFINE saved == store.saved
<1>1. store \in TokenStores
  BY NoTokensTyped DEF SessionInit, TokenStores, Tokens
<1>2. auth = [user |-> saved, authed |-> saved, loading |-> saved, view |-> "login", form |-> 0, busy |-> FALSE,
              out |-> FALSE, since |-> 0, late |-> FALSE, acts |-> 0, lost |-> 0, expiries |-> 0]
  BY Zenon DEF SessionInit
<1>3. saved \in BOOLEAN /\ 0 \in 0..MaxSessionActs /\ 0 \in 0..MaxLost /\ 0 \in 0..MaxExpiries
  BY <1>1, PanelCallsAssumption, WebSessionAssumption DEF TokenStores
<1>4. TypedAuth(auth)
  <2> HIDE DEF saved
  <2>1. QED
    BY <1>2, <1>3 DEF TypedAuth
<1>5. QED
  BY <1>1, <1>4, NoSocketTyped, Zenon DEF SessionInit, SessionTyped

LEMMA SessionTypes == SessionTyped => SessionTypeOK
<1>1. ASSUME SessionTyped PROVE SessionTypeOK
  <2>1. store \in TokenStores /\ TypedAuth(auth) /\ TypedSocket(socket)
    BY <1>1, Zenon DEF SessionTyped
  <2>2. QED
    BY <2>1 DEF TypedAuth, TypedSocket, TokenStores, Tokens, SessionTypeOK
<1>2. QED
  BY <1>1

-----------------------------------------------------------------------------
(* The types of the page of conversations *)

Message == [conv : Convs, from : {"contact", "user"}, status : Statuses]

(* What an event tells of a message has the number of the message.         *)
Told == {e \in Event : e.type \in {"new_message", "message_status"} => e.id \in 1..MaxMessages}

TypedInbox(m) ==
  m \in [mounted : BOOLEAN, wide : BOOLEAN, duties : SUBSET Duties, filter : Filters, list : SUBSET Convs,
         selected : Convs \cup {None}, loading : BOOLEAN, thread : Seq(Entry),
         statuses : SUBSET ((1..MaxMessages) \X Statuses), details : Convs \cup {None}, refetch : BOOLEAN,
         calls : 0..MaxVisits]

TypedInboxDb(db) ==
  /\ db \in [messages : Seq(Message), mine : [Convs -> BOOLEAN], status : [Convs -> {"open", "resolved"}]]
  /\ Len(db.messages) <= MaxMessages

TypedLine(l) == l \in [open : BOOLEAN, events : Seq(Told), faults : 0..MaxFaults]

InboxCall(c) ==
  /\ IsCall(c) /\ c.slot \in 1..MaxInFlight
  /\ c.op # "list" => c.about \in Convs
  /\ c.op = "list" /\ IsDone(c) => c.answer.result.rows \in SUBSET Convs
  /\ c.op = "open" /\ IsDone(c) => c.answer.result.thread \in Seq(Entry)
  /\ c.op = "send" /\ IsDone(c) => c.answer.result.id \in 1..MaxMessages

FewCalls(calls) == IsFiniteSet(calls) /\ Cardinality(calls) <= MaxInFlight

InboxCallsTyped(calls) == FewCalls(calls) /\ \A c \in calls : InboxCall(c)

InboxTyped ==
  TypedInbox(inbox) /\ TypedInboxDb(inboxDb) /\ TypedLine(inboxLine) /\ InboxCallsTyped(inboxCalls)

(* While fewer calls are in flight than may be, a slot is free.            *)
LEMMA FreeSlotIsFree ==
  ASSUME NEW calls, IsFiniteSet(calls), CanCall(calls)
  PROVE  FreeSlot(calls) \in 1..MaxInFlight
<1>1. \E s \in 1..MaxInFlight : \A c \in calls : c.slot # s
  <2> SUFFICES ASSUME \A s \in 1..MaxInFlight : \E c \in calls : c.slot = s
               PROVE  FALSE
    OBVIOUS
  <2> DEFINE holder(s) == CHOOSE c \in calls : c.slot = s
             f == [s \in 1..MaxInFlight |-> holder(s)]
  <2>1. \A s \in 1..MaxInFlight : holder(s) \in calls /\ holder(s).slot = s
    BY Zenon
  <2> HIDE DEF holder
  <2>2. f \in Injection(1..MaxInFlight, calls)
    BY <2>1 DEF Injection, IsInjective
  <2>3. Cardinality(1..MaxInFlight) <= Cardinality(calls)
    BY <2>2, FS_Injection
  <2>4. Cardinality(1..MaxInFlight) = MaxInFlight
    BY PanelCallsAssumption, FS_Interval
  <2>5. Cardinality(calls) \in Nat
    BY FS_CardinalityType
  <2>6. QED
    BY <2>3, <2>4, <2>5, PanelCallsAssumption DEF CanCall
<1>2. QED
  BY <1>1, Zenon DEF FreeSlot

LEMMA FewerCalls ==
  ASSUME NEW calls, FewCalls(calls), NEW some \in SUBSET calls
  PROVE  FewCalls(some) /\ (some # calls => CanCall(some))
<1>1. IsFiniteSet(some) /\ Cardinality(some) <= Cardinality(calls) /\ (Cardinality(calls) = Cardinality(some) => calls = some)
  BY FS_Subset DEF FewCalls
<1>2. Cardinality(some) \in Nat /\ Cardinality(calls) \in Nat
  BY <1>1, FS_CardinalityType DEF FewCalls
<1>3. QED
  BY <1>1, <1>2, PanelCallsAssumption DEF FewCalls, CanCall

LEMMA OneMoreCall ==
  ASSUME NEW calls, FewCalls(calls), CanCall(calls), NEW c
  PROVE  FewCalls(calls \cup {c})
<1>1. Cardinality(calls) \in Nat
  BY FS_CardinalityType DEF FewCalls
<1>2. QED
  BY <1>1, FS_AddElement, PanelCallsAssumption DEF FewCalls, CanCall

LEMMA SendTyped ==
  ASSUME NEW calls, InboxCallsTyped(calls), CanCall(calls), NEW op, NEW about, op # "list" => about \in Convs
  PROVE  InboxCallsTyped(Send(calls, op, about))
<1> DEFINE slot == FreeSlot(calls)
           new == [slot |-> slot, op |-> op, about |-> about, answer |-> Waiting]
<1>1. slot \in 1..MaxInFlight
  BY FreeSlotIsFree DEF InboxCallsTyped, FewCalls
<1>2. Send(calls, op, about) = calls \cup {new}
  BY Zenon DEF Send
<1> HIDE DEF slot
<1>3. InboxCall(new)
  BY <1>1 DEF InboxCall, IsCall, IsDone
<1> HIDE DEF new
<1>4. FewCalls(calls \cup {new})
  BY OneMoreCall DEF InboxCallsTyped
<1>5. QED
  BY <1>2, <1>3, <1>4 DEF InboxCallsTyped

LEMMA SomeTyped ==
  ASSUME NEW calls, InboxCallsTyped(calls), NEW some \in SUBSET calls
  PROVE  InboxCallsTyped(some) /\ (some # calls => CanCall(some))
  BY FewerCalls DEF InboxCallsTyped

LEMMA ChainTyped ==
  ASSUME NEW calls, InboxCallsTyped(calls), NEW call \in calls, NEW op, NEW about, op # "list" => about \in Convs
  PROVE  InboxCallsTyped(calls \ {call}) /\ InboxCallsTyped(Chain(calls, call, op, about))
<1>1. calls \ {call} \in SUBSET calls /\ calls \ {call} # calls
  OBVIOUS
<1>2. InboxCallsTyped(calls \ {call}) /\ CanCall(calls \ {call})
  BY <1>1, SomeTyped
<1>3. QED
  BY <1>2, SendTyped DEF Chain

LEMMA AnsweredTyped ==
  ASSUME NEW calls, InboxCallsTyped(calls), NEW call \in calls, NEW answer,
         answer \notin {Waiting, Failed} =>
           /\ call.op = "list" => answer.result.rows \in SUBSET Convs
           /\ call.op = "open" => answer.result.thread \in Seq(Entry)
           /\ call.op = "send" => answer.result.id \in 1..MaxMessages
  PROVE  InboxCallsTyped(Answered(calls, call, answer))
<1> DEFINE new == [slot |-> call.slot, op |-> call.op, about |-> call.about, answer |-> answer]
<1>1. InboxCall(call)
  BY DEF InboxCallsTyped
<1>2. [call EXCEPT !.answer = answer] = new
  BY <1>1, AnswerKeepsCall DEF InboxCall
<1>3. InboxCall(new)
  BY <1>1 DEF InboxCall, IsCall, IsDone
<1>4. Answered(calls, call, answer) = (calls \ {call}) \cup {new}
  BY <1>2, Zenon DEF Answered
<1> HIDE DEF new
<1>5. calls \ {call} \in SUBSET calls /\ calls \ {call} # calls
  OBVIOUS
<1>6. InboxCallsTyped(calls \ {call}) /\ CanCall(calls \ {call})
  BY <1>5, SomeTyped
<1>7. FewCalls((calls \ {call}) \cup {new})
  BY <1>6, OneMoreCall DEF InboxCallsTyped
<1>8. QED
  BY <1>3, <1>4, <1>6, <1>7 DEF InboxCallsTyped

LEMMA PushTyped ==
  ASSUME TypedLine(inboxLine), NEW type, NEW c \in Convs, NEW n \in 0..MaxMessages, NEW status \in Statuses,
         \/ type \in {"new_message", "message_status"} /\ n \in 1..MaxMessages
         \/ type \in {"assigned_changed", "status_changed"},
         Push(type, c, n, status)
  PROVE  TypedLine(inboxLine')
<1> DEFINE e == [type |-> type, conv |-> c, id |-> n, status |-> status]
           events == Append(inboxLine.events, e)
<1>1. e \in Told
  BY DEF Told, Event
<1> HIDE DEF e
<1>2. events \in Seq(Told)
  BY <1>1 DEF TypedLine
<1>3. inboxLine' = [inboxLine EXCEPT !.events = events] \/ inboxLine' = inboxLine
  <2>1. inboxLine' = [inboxLine EXCEPT !.events = Append(@, e)] \/ inboxLine' = inboxLine
    BY Zenon DEF Push, e
  <2>2. [inboxLine EXCEPT !.events = Append(@, e)] = [inboxLine EXCEPT !.events = events]
    BY DEF TypedLine
  <2>3. QED
    BY <2>1, <2>2, Zenon
<1> HIDE DEF events
<1>4. QED
  BY <1>2, <1>3 DEF TypedLine

LEMMA StoredTyped ==
  ASSUME TypedInboxDb(inboxDb), TypedLine(inboxLine), NEW c \in Convs, NEW from \in {"contact", "user"},
         Len(Messages) < MaxMessages, inboxDb' = [inboxDb EXCEPT !.messages = Stored(c, from)],
         Push("new_message", c, Len(Messages) + 1, "pending")
  PROVE  TypedInboxDb(inboxDb') /\ TypedLine(inboxLine') /\ Len(Messages) + 1 \in 1..MaxMessages
<1> DEFINE ms == inboxDb.messages
           r == [conv |-> c, from |-> from, status |-> "pending"]
           more == Append(ms, r)
           n == Len(ms) + 1
<1>1. r \in Message /\ "pending" \in Statuses
  BY DEF Message, Statuses
<1>2. inboxDb' = [inboxDb EXCEPT !.messages = more] /\ Push("new_message", c, n, "pending")
  BY Zenon DEF Stored, Messages
<1> HIDE DEF r
<1>3. ms \in Seq(Message) /\ Len(ms) < MaxMessages /\ Len(ms) \in Nat
  BY DEF TypedInboxDb, Messages
<1> HIDE DEF ms
<1>4. more \in Seq(Message) /\ Len(more) = n /\ n \in 1..MaxMessages
  BY <1>1, <1>3, InboxAssumption
<1> HIDE DEF more
<1>5. TypedInboxDb(inboxDb')
  <2>1. Len(more) <= MaxMessages
    BY <1>4
  <2>2. QED
    BY <1>2, <1>4, <2>1 DEF TypedInboxDb
<1>6. TypedLine(inboxLine')
  <2> HIDE DEF n
  <2>1. n \in 0..MaxMessages
    BY <1>4
  <2>2. QED
    BY <1>1, <1>2, <1>4, <2>1, PushTyped
<1>7. QED
  BY <1>4, <1>5, <1>6, Zenon DEF ms, n, Messages

LEMMA InboxTypedNext ==
  ASSUME InboxTyped, TypedInbox(inbox'), InboxCallsTyped(inboxCalls'), UNCHANGED <<inboxDb, inboxLine>>
  PROVE  InboxTyped'
  BY Zenon DEF InboxTyped

LEMMA CountedTyped ==
  ASSUME NEW m, TypedInbox(m), m.calls < MaxVisits
  PROVE  TypedInbox(Counted(m))
<1> DEFINE n == m.calls + 1
<1>1. n \in 0..MaxVisits
  BY InboxAssumption DEF TypedInbox
<1>2. Counted(m) = [m EXCEPT !.calls = n]
  BY Zenon DEF Counted
<1>3. QED
  <2> HIDE DEF n
  <2>1. QED
    BY <1>1, <1>2 DEF TypedInbox

LEMMA OpeningTyped ==
  ASSUME NEW m, TypedInbox(m), NEW c \in Convs
  PROVE  TypedInbox(Opening(m, c)) /\ Opening(m, c).calls = m.calls
  BY DEF Opening, TypedInbox

LEMMA InboxActsKeepTypes ==
  ASSUME InboxTyped,
         \/ \E f \in Filters : SetFilter(f)
         \/ RefetchFires \/ BackToList
         \/ \E c \in Convs : SelectConversation(c)
         \/ \E mode \in {"message", "whisper"} : HandleSendMessage(mode)
         \/ \E verb \in {"resolve", "reopen"} : HandleStatusChange(verb)
         \/ HandleAssignToMe \/ HandleAddTag
  PROVE  InboxTyped'
<1>1. TypedInbox(inbox) /\ InboxCallsTyped(inboxCalls)
  BY Zenon DEF InboxTyped
<1>2. ASSUME NEW m, TypedInbox(m), m.calls = inbox.calls, Acting, inbox' = Counted(m), NEW op, NEW about,
             op # "list" => about \in Convs, inboxCalls' = Send(inboxCalls, op, about),
             UNCHANGED <<inboxDb, inboxLine>>
      PROVE  InboxTyped'
  <2>1. inbox.calls < MaxVisits /\ CanCall(inboxCalls)
    BY <1>2, Zenon DEF Acting
  <2>2. TypedInbox(inbox')
    BY <1>2, <2>1, CountedTyped
  <2>3. InboxCallsTyped(inboxCalls')
    BY <1>1, <1>2, <2>1, SendTyped
  <2>4. QED
    BY <1>2, <2>2, <2>3, InboxTypedNext
<1>3. ASSUME NEW f \in Filters, SetFilter(f)
      PROVE  InboxTyped'
  <2> DEFINE m == [inbox EXCEPT !.filter = f]
  <2>1. TypedInbox(m) /\ m.calls = inbox.calls
    BY <1>1 DEF TypedInbox
  <2>2. Acting /\ inbox' = Counted(m) /\ inboxCalls' = Send(inboxCalls, "list", f) /\ UNCHANGED <<inboxDb, inboxLine>>
    BY <1>3, Zenon DEF SetFilter
  <2> HIDE DEF m
  <2>3. QED
    BY <1>2, <2>1, <2>2
<1>4. CASE RefetchFires
  <2> DEFINE m == [inbox EXCEPT !.refetch = FALSE]
  <2>1. TypedInbox(m) /\ m.calls = inbox.calls
    BY <1>1 DEF TypedInbox
  <2>2. Acting /\ inbox' = Counted(m) /\ inboxCalls' = Send(inboxCalls, "list", inbox.filter)
        /\ UNCHANGED <<inboxDb, inboxLine>>
    BY <1>4, Zenon DEF RefetchFires
  <2> HIDE DEF m
  <2>3. QED
    BY <1>2, <2>1, <2>2
<1>5. CASE BackToList
  <2>1. inbox' = [inbox EXCEPT !.selected = None] /\ inboxCalls' = inboxCalls /\ UNCHANGED <<inboxDb, inboxLine>>
    BY <1>5, Zenon DEF BackToList
  <2>2. TypedInbox(inbox')
    BY <1>1, <2>1 DEF TypedInbox
  <2>3. QED
    BY <1>1, <2>1, <2>2, InboxTypedNext
<1>6. ASSUME NEW c \in Convs, SelectConversation(c)
      PROVE  InboxTyped'
  <2> DEFINE m == Opening(inbox, c)
  <2>1. TypedInbox(m) /\ m.calls = inbox.calls
    BY <1>1, OpeningTyped
  <2>2. Acting /\ inbox' = Counted(m) /\ inboxCalls' = Send(inboxCalls, "open", c) /\ UNCHANGED <<inboxDb, inboxLine>>
    BY <1>6, Zenon DEF SelectConversation
  <2> HIDE DEF m
  <2>3. QED
    BY <1>2, <2>1, <2>2
<1>7. ASSUME NEW op, Acting, inbox.selected # None, inbox' = Counted(inbox),
             inboxCalls' = Send(inboxCalls, op, inbox.selected), UNCHANGED <<inboxDb, inboxLine>>
      PROVE  InboxTyped'
  <2>1. inbox.selected \in Convs
    BY <1>1, <1>7 DEF TypedInbox
  <2>2. QED
    BY <1>1, <1>2, <1>7, <2>1
<1>8. ASSUME NEW mode, HandleSendMessage(mode)
      PROVE  InboxTyped'
  BY <1>7, <1>8, Zenon DEF HandleSendMessage, Composer
<1>9. ASSUME NEW verb, HandleStatusChange(verb)
      PROVE  InboxTyped'
  BY <1>7, <1>9, Zenon DEF HandleStatusChange, ThreadHeader
<1>10. CASE HandleAssignToMe
  BY <1>7, <1>10, Zenon DEF HandleAssignToMe, ThreadHeader
<1>11. CASE HandleAddTag
  BY <1>7, <1>11, Zenon DEF HandleAddTag, Drawer
<1>12. QED
  BY <1>3, <1>4, <1>5, <1>6, <1>8, <1>9, <1>10, <1>11, Zenon

LEMMA AddedTyped ==
  ASSUME TypedInbox(inbox), NEW n \in 1..MaxMessages, NEW status \in Statuses, NEW via \in {"load", "event", "send"}
  PROVE  Added(n, status, via) \in Seq(Entry)
<1> DEFINE known == KnownStatus(n, status)
           r == [id |-> n, status |-> known, via |-> via]
           t == inbox.thread
<1>1. known \in Statuses
  BY DEF KnownStatus, Statuses
<1>2. t \in Seq(Entry)
  BY DEF TypedInbox
<1>3. Added(n, status, via) = t \/ Added(n, status, via) = Append(t, r)
  BY Zenon DEF Added
<1> HIDE DEF known, t
<1>4. r \in Entry
  BY <1>1 DEF Entry
<1> HIDE DEF r
<1>5. QED
  BY <1>2, <1>3, <1>4

LEMMA InboxAnswersKeepTypes ==
  ASSUME InboxTyped, NEW call \in inboxCalls,
         \/ InboxListArrives(call) \/ ThreadArrives(call) \/ MessageSent(call)
         \/ WriteAnswered(call) \/ DetailsArrive(call)
  PROVE  InboxTyped'
<1>1. TypedInbox(inbox) /\ InboxCallsTyped(inboxCalls) /\ InboxCallsTyped(inboxCalls \ {call}) /\ InboxCall(call)
  <2>1. TypedInbox(inbox) /\ InboxCallsTyped(inboxCalls)
    BY Zenon DEF InboxTyped
  <2>2. inboxCalls \ {call} \in SUBSET inboxCalls
    OBVIOUS
  <2>3. QED
    BY <2>1, <2>2, SomeTyped, Zenon DEF InboxCallsTyped
<1>2. UNCHANGED <<inboxDb, inboxLine>>
  BY Zenon DEF InboxListArrives, ThreadArrives, MessageSent, WriteAnswered, DetailsArrive
<1>3. CASE InboxListArrives(call)
  <2> DEFINE rows == call.answer.result.rows
             ui == [inbox EXCEPT !.list = rows]
  <2>1. CASE call.answer = Failed
    <3>1. inbox' = inbox /\ inboxCalls' = inboxCalls \ {call}
      BY <1>3, <2>1, Zenon DEF InboxListArrives
    <3>2. QED
      BY <1>1, <1>2, <3>1, InboxTypedNext
  <2>2. CASE call.answer # Failed
    <3>1. rows \in SUBSET Convs
      BY <1>1, <1>3, <2>2 DEF InboxListArrives, InboxCall, IsDone, Done
    <3>2. \/ \E c \in rows : inbox' = Opening(ui, c) /\ inboxCalls' = Chain(inboxCalls, call, "open", c)
          \/ inbox' = ui /\ inboxCalls' = inboxCalls \ {call}
      BY <1>3, <2>2, Zenon DEF InboxListArrives
    <3> HIDE DEF rows
    <3>3. TypedInbox(ui)
      BY <1>1, <3>1 DEF TypedInbox
    <3> HIDE DEF ui
    <3>4. CASE inbox' = ui /\ inboxCalls' = inboxCalls \ {call}
      BY <1>1, <1>2, <3>3, <3>4, InboxTypedNext
    <3>5. ASSUME NEW c \in rows, inbox' = Opening(ui, c), inboxCalls' = Chain(inboxCalls, call, "open", c)
          PROVE  InboxTyped'
      <4>1. c \in Convs
        BY <3>1
      <4>2. InboxCallsTyped(inboxCalls')
        BY <1>1, <3>5, <4>1, ChainTyped
      <4>3. TypedInbox(inbox')
        BY <3>3, <3>5, <4>1, OpeningTyped
      <4>4. QED
        BY <1>2, <4>2, <4>3, InboxTypedNext
    <3>6. QED
      BY <3>2, <3>4, <3>5, Zenon
  <2>3. QED
    BY <2>1, <2>2
<1>4. CASE ThreadArrives(call)
  <2> DEFINE none == <<>>
             thread == call.answer.result.thread
             about == call.about
             failed == [inbox EXCEPT !.thread = none, !.loading = FALSE]
             shown == [inbox EXCEPT !.thread = thread, !.loading = FALSE, !.details = about]
  <2>1. TypedInbox(failed)
    <3>1. none \in Seq(Entry)
      OBVIOUS
    <3> HIDE DEF none
    <3>2. QED
      BY <1>1, <3>1 DEF TypedInbox
  <2>2. call.answer # Failed => TypedInbox(shown)
    <3>1. about \in Convs /\ (call.answer # Failed => thread \in Seq(Entry))
      BY <1>1, <1>4 DEF ThreadArrives, InboxCall, IsDone, Done
    <3> HIDE DEF about, thread
    <3>2. QED
      BY <1>1, <3>1 DEF TypedInbox
  <2>3. inboxCalls' = inboxCalls \ {call} /\ (inbox' = inbox \/ inbox' = failed \/ (call.answer # Failed /\ inbox' = shown))
    <3>1. CASE inbox.selected # call.about
      BY <1>4, <3>1, Zenon DEF ThreadArrives
    <3>2. CASE inbox.selected = call.about /\ call.answer = Failed
      BY <1>4, <3>2, Zenon DEF ThreadArrives
    <3>3. CASE inbox.selected = call.about /\ call.answer # Failed
      BY <1>4, <3>3, Zenon DEF ThreadArrives
    <3>4. QED
      BY <3>1, <3>2, <3>3
  <2> HIDE DEF failed, shown
  <2>4. TypedInbox(inbox') /\ InboxCallsTyped(inboxCalls')
    BY <1>1, <2>1, <2>2, <2>3
  <2>5. QED
    BY <1>2, <2>4, InboxTypedNext
<1>5. CASE MessageSent(call)
  <2> DEFINE thread == Added(call.answer.result.id, "pending", "send")
             shown == [inbox EXCEPT !.thread = thread]
  <2>1. inboxCalls' = inboxCalls \ {call} /\ (inbox' = inbox \/ (call.answer # Failed /\ inbox' = shown))
    BY <1>5, Zenon DEF MessageSent
  <2>2. call.answer # Failed => TypedInbox(shown)
    <3>1. call.answer # Failed => call.answer.result.id \in 1..MaxMessages
      BY <1>1, <1>5 DEF MessageSent, InboxCall, IsDone, Done
    <3>2. "pending" \in Statuses
      BY DEF Statuses
    <3>3. call.answer # Failed => thread \in Seq(Entry)
      BY <1>1, <3>1, <3>2, AddedTyped
    <3> HIDE DEF thread
    <3>4. QED
      BY <1>1, <3>3 DEF TypedInbox
  <2> HIDE DEF shown
  <2>3. TypedInbox(inbox') /\ InboxCallsTyped(inboxCalls')
    BY <1>1, <2>1, <2>2
  <2>4. QED
    BY <1>2, <2>3, InboxTypedNext
<1>6. CASE WriteAnswered(call)
  <2>1. /\ inbox' = inbox
        /\ inboxCalls' = inboxCalls \ {call} \/ (call.op # "list" /\ inboxCalls' = Chain(inboxCalls, call, "details", call.about))
    BY <1>6 DEF WriteAnswered
  <2>2. call.op # "list" => call.about \in Convs
    BY <1>1 DEF InboxCall
  <2>3. InboxCallsTyped(inboxCalls')
    BY <1>1, <2>1, <2>2, ChainTyped
  <2>4. QED
    BY <1>1, <1>2, <2>1, <2>3, InboxTypedNext
<1>7. CASE DetailsArrive(call)
  <2> DEFINE about == call.about
  <2>1. inboxCalls' = inboxCalls \ {call} /\ (inbox' = inbox \/ inbox' = [inbox EXCEPT !.details = about])
    BY <1>7, Zenon DEF DetailsArrive
  <2>2. about \in Convs
    BY <1>1, <1>7 DEF DetailsArrive, Done, InboxCall
  <2> HIDE DEF about
  <2>3. TypedInbox(inbox')
    BY <1>1, <2>1, <2>2 DEF TypedInbox
  <2>4. QED
    BY <1>1, <1>2, <2>1, <2>3, InboxTypedNext
<1>8. QED
  BY <1>3, <1>4, <1>5, <1>6, <1>7

LEMMA InboxStartTyped ==
  ASSUME NEW wide \in BOOLEAN, NEW duties \in SUBSET Duties
  PROVE  TypedInbox(InboxStart(wide, duties))
<1> DEFINE none == <<>>
           nobody == None
<1>1. InboxStart(wide, duties) =
        [mounted |-> TRUE, wide |-> wide, duties |-> duties, filter |-> "mine", list |-> {}, selected |-> nobody,
         loading |-> FALSE, thread |-> none, statuses |-> {}, details |-> nobody, refetch |-> FALSE, calls |-> 0]
  BY Zenon DEF InboxStart
<1>2. none \in Seq(Entry) /\ nobody \in Convs \cup {None} /\ 0 \in 0..MaxVisits /\ "mine" \in Filters
  BY InboxAssumption DEF Filters
<1> HIDE DEF none, nobody
<1>3. QED
  BY <1>1, <1>2 DEF TypedInbox

(* A confirmation marks the entry of its message.                          *)
LEMMA MarkedTyped ==
  ASSUME NEW t \in Seq(Entry), NEW n, NEW status \in Statuses
  PROVE  [k \in DOMAIN t |-> IF t[k].id = n THEN [t[k] EXCEPT !.status = status] ELSE t[k]] \in Seq(Entry)
<1> DEFINE mark(r) == IF r.id = n THEN [r EXCEPT !.status = status] ELSE r
           t2 == [k \in DOMAIN t |-> mark(t[k])]
<1>1. \A r \in Entry : mark(r) \in Entry
  BY DEF Entry
<1>2. DOMAIN t = 1..Len(t) /\ Len(t) \in Nat /\ \A k \in DOMAIN t : t[k] \in Entry
  OBVIOUS
<1> HIDE DEF mark
<1>3. t2 \in [1..Len(t) -> Entry]
  BY <1>1, <1>2
<1>4. t2 \in Seq(Entry)
  <2> HIDE DEF t2
  <2>1. QED
    BY <1>2, <1>3
<1>5. QED
  BY <1>4 DEF mark

LEMMA InboxEventsKeepTypes ==
  ASSUME InboxTyped, EventArrives \/ SocketLost \/ SocketReopens
  PROVE  InboxTyped'
<1>1. TypedInbox(inbox) /\ TypedInboxDb(inboxDb) /\ TypedLine(inboxLine) /\ InboxCallsTyped(inboxCalls)
      /\ UNCHANGED <<inboxCalls, inboxDb>>
  BY Zenon DEF InboxTyped, EventArrives, SocketLost, SocketReopens
<1>2. CASE EventArrives
  <2> DEFINE e == Head(inboxLine.events)
             rest == Tail(inboxLine.events)
             told == Added(e.id, e.status, "event")
             thread == IF e.conv = inbox.selected THEN told ELSE inbox.thread
             refetch == inbox.refetch \/ e.conv \notin inbox.list
             statuses == inbox.statuses \cup {<<e.id, e.status>>}
             t == inbox.thread
             marked == [k \in DOMAIN t |-> IF t[k].id = e.id THEN [t[k] EXCEPT !.status = e.status] ELSE t[k]]
  <2>1. /\ inboxLine.events \in Seq(Told) /\ inboxLine.events # <<>> /\ t \in Seq(Entry)
        /\ inboxLine' = [inboxLine EXCEPT !.events = rest]
    BY <1>1, <1>2 DEF EventArrives, TypedInbox, TypedLine
  <2>2. e \in Told /\ rest \in Seq(Told)
    BY <2>1
  <2> HIDE DEF e, rest, t
  <2>3. TypedLine(inboxLine')
    BY <1>1, <2>1, <2>2 DEF TypedLine
  <2>4. e.type \in {"new_message", "message_status"} => e.id \in 1..MaxMessages
    BY <2>2 DEF Told
  <2>5. e.conv \in Convs /\ e.status \in Statuses
    BY <2>2 DEF Told, Event
  <2>6. CASE e.type = "new_message"
    <3>1. inbox' = [inbox EXCEPT !.thread = thread, !.refetch = refetch]
      <4>1. NewMessage(e)
        BY <1>2, <2>6, Zenon DEF EventArrives, e
      <4>2. QED
        BY <1>1, <4>1 DEF NewMessage, TypedInbox
    <3>2. told \in Seq(Entry)
      BY <1>1, <2>4, <2>5, <2>6, AddedTyped
    <3>3. thread \in Seq(Entry) /\ refetch \in BOOLEAN
      <4> HIDE DEF told
      <4>1. QED
        BY <2>1, <3>2 DEF t
    <3> HIDE DEF thread, refetch
    <3>4. TypedInbox(inbox')
      BY <1>1, <3>1, <3>3 DEF TypedInbox
    <3>5. QED
      BY <1>1, <2>3, <3>4, Zenon DEF InboxTyped
  <2>7. CASE e.type = "message_status"
    <3>1. inbox' = inbox \/ inbox' = [inbox EXCEPT !.statuses = statuses, !.thread = marked]
      <4>1. MessageStatus(e)
        BY <1>2, <2>7, Zenon DEF EventArrives, e
      <4>2. QED
        BY <1>1, <4>1 DEF MessageStatus, TypedInbox, t
    <3>2. marked \in Seq(Entry)
      BY <2>1, <2>5, MarkedTyped
    <3>3. statuses \in SUBSET ((1..MaxMessages) \X Statuses)
      <4>1. <<e.id, e.status>> \in (1..MaxMessages) \X Statuses
        BY <2>4, <2>5, <2>7
      <4>2. inbox.statuses \in SUBSET ((1..MaxMessages) \X Statuses)
        BY <1>1 DEF TypedInbox
      <4>3. QED
        BY <4>1, <4>2
    <3> HIDE DEF marked, statuses
    <3>4. TypedInbox(inbox')
      BY <1>1, <3>1, <3>2, <3>3 DEF TypedInbox
    <3>5. QED
      BY <1>1, <2>3, <3>4, Zenon DEF InboxTyped
  <2>8. CASE e.type \notin {"new_message", "message_status"}
    <3>1. inbox' = [inbox EXCEPT !.refetch = TRUE]
      BY <1>2, <2>8 DEF EventArrives, e
    <3>2. TypedInbox(inbox')
      BY <1>1, <3>1 DEF TypedInbox
    <3>3. QED
      BY <1>1, <2>3, <3>2, Zenon DEF InboxTyped
  <2>9. QED
    BY <2>6, <2>7, <2>8
<1>3. CASE SocketLost
  <2> DEFINE none == <<>>
             faults == inboxLine.faults + 1
  <2>1. inboxLine' = [open |-> FALSE, events |-> none, faults |-> faults] /\ inboxLine.faults < MaxFaults /\ UNCHANGED inbox
    BY <1>3, Zenon DEF SocketLost
  <2>2. none \in Seq(Told)
    OBVIOUS
  <2>3. faults \in 0..MaxFaults
    BY <1>1, <2>1, InboxAssumption DEF TypedLine
  <2> HIDE DEF none, faults
  <2>4. TypedLine(inboxLine')
    BY <2>1, <2>2, <2>3 DEF TypedLine
  <2>5. QED
    BY <1>1, <2>1, <2>4, Zenon DEF InboxTyped
<1>4. CASE SocketReopens
  <2>1. inboxLine' = [inboxLine EXCEPT !.open = TRUE] /\ UNCHANGED inbox
    BY <1>4, Zenon DEF SocketReopens
  <2>2. TypedLine(inboxLine')
    BY <1>1, <2>1 DEF TypedLine
  <2>3. QED
    BY <1>1, <2>1, <2>2, Zenon DEF InboxTyped
<1>5. QED
  BY <1>2, <1>3, <1>4

LEMMA LoadedTyped ==
  ASSUME TypedInboxDb(inboxDb), NEW c
  PROVE  Loaded(c) \in Seq(Entry)
<1> DEFINE ms == inboxDb.messages
           S == MessagesOf(c)
           order == Ordered(S)
           row(n) == [id |-> n, status |-> ms[n].status, via |-> "load"]
<1>1. ms \in Seq(Message) /\ DOMAIN ms = 1..Len(ms) /\ Len(ms) \in Nat /\ Len(ms) <= MaxMessages
  BY DEF TypedInboxDb
<1>2. S \in SUBSET Nat /\ S \in SUBSET (1..Len(ms))
  BY <1>1 DEF MessagesOf, Messages
<1>3. IsFiniteSet(S)
  <2>1. IsFiniteSet(1..Len(ms))
    BY <1>1, FS_Interval
  <2>2. QED
    BY <1>2, <2>1, FS_Subset, Zenon
<1>4. \A n \in S : row(n) \in Entry
  <2>1. \A n \in S : ms[n] \in Message /\ n \in 1..MaxMessages
    BY <1>1, <1>2, InboxAssumption
  <2> HIDE DEF ms, S
  <2>2. QED
    BY <2>1 DEF Entry, Message
<1>5. Loaded(c) = [k \in DOMAIN order |-> row(order[k])]
  BY DEF Loaded, Messages
<1> HIDE DEF S, row
<1>6. Cardinality(S) \in Nat /\ order \in [1..Cardinality(S) -> S]
  BY <1>2, <1>3, OrderedEnumerates
<1> HIDE DEF order
<1>7. Loaded(c) \in [1..Cardinality(S) -> Entry]
  BY <1>4, <1>5, <1>6
<1>8. QED
  BY <1>6, <1>7

LEMMA InboxServerKeepsTypes ==
  ASSUME InboxTyped, NEW call \in inboxCalls, InboxServer(call) \/ InboxCallFails(call)
  PROVE  InboxTyped'
<1>1. TypedInbox(inbox) /\ TypedInboxDb(inboxDb) /\ TypedLine(inboxLine) /\ InboxCallsTyped(inboxCalls) /\ InboxCall(call)
      /\ UNCHANGED inbox
  BY Zenon DEF InboxTyped, InboxCallsTyped, InboxServer, ServerReads, ServerSends, ServerUpdates, InboxCallFails
<1>2. CASE call.op \in {"list", "open", "details"} /\ ServerReads(call)
  <2> DEFINE rows == {c \in Convs : Matches(c, call.about)}
             thread == Loaded(call.about)
             answer == CASE call.op = "list" -> Ok([rows |-> rows])
                         [] call.op = "open" -> Ok([thread |-> thread])
                         [] OTHER -> Ok([done |-> TRUE])
  <2>1. inboxCalls' = Answered(inboxCalls, call, answer) /\ UNCHANGED <<inboxDb, inboxLine>>
    BY <1>2, Zenon DEF ServerReads
  <2>2. rows \in SUBSET Convs /\ thread \in Seq(Entry)
    BY <1>1, LoadedTyped
  <2> HIDE DEF rows, thread
  <2>3. /\ call.op = "list" => answer.result.rows = rows
        /\ call.op = "open" => answer.result.thread = thread
        /\ call.op # "send"
    BY <1>2 DEF Ok
  <2> HIDE DEF answer
  <2>4. InboxCallsTyped(inboxCalls')
    BY <1>1, <2>1, <2>2, <2>3, AnsweredTyped
  <2>5. QED
    BY <1>1, <2>1, <2>4, InboxTypedNext
<1>3. CASE call.op = "send" /\ ServerSends(call)
  <2> DEFINE n == Len(Messages) + 1
             answer == Ok([id |-> n])
  <2>1. /\ Len(Messages) < MaxMessages /\ inboxDb' = [inboxDb EXCEPT !.messages = Stored(call.about, "user")]
        /\ inboxCalls' = Answered(inboxCalls, call, answer)
        /\ Push("new_message", call.about, Len(Messages) + 1, "pending")
    BY <1>3, Zenon DEF ServerSends
  <2>2. call.about \in Convs
    BY <1>1, <1>3 DEF InboxCall
  <2>3. "user" \in {"contact", "user"}
    OBVIOUS
  <2>4. TypedInboxDb(inboxDb') /\ TypedLine(inboxLine') /\ n \in 1..MaxMessages
    BY <1>1, <2>1, <2>2, <2>3, StoredTyped
  <2> HIDE DEF n
  <2>5. answer.result.id = n
    BY DEF Ok
  <2> HIDE DEF answer
  <2>6. InboxCallsTyped(inboxCalls')
    BY <1>1, <1>3, <2>1, <2>4, <2>5, AnsweredTyped
  <2>7. QED
    BY <1>1, <2>4, <2>6, Zenon DEF InboxTyped
<1>4. CASE call.op \in {"resolve", "reopen", "assign", "tag"} /\ ServerUpdates(call)
  <2> DEFINE answer == Ok([done |-> TRUE])
             type == IF call.op = "assign" THEN "assigned_changed" ELSE "status_changed"
             about == call.about
  <2>1. /\ inboxCalls' = Answered(inboxCalls, call, answer)
        /\ UNCHANGED inboxLine \/ Push(type, about, 0, "pending")
    BY <1>4, Zenon DEF ServerUpdates
  <2>2. type \in {"assigned_changed", "status_changed"} /\ about \in Convs /\ 0 \in 0..MaxMessages /\ "pending" \in Statuses
    BY <1>1, <1>4, InboxAssumption DEF InboxCall, Statuses
  <2>3. \/ inboxDb' = [inboxDb EXCEPT !.status[about] = "resolved"]
        \/ inboxDb' = [inboxDb EXCEPT !.status[about] = "open"]
        \/ inboxDb' = [inboxDb EXCEPT !.mine[about] = TRUE]
        \/ inboxDb' = inboxDb
    BY <1>4, Zenon DEF ServerUpdates
  <2> HIDE DEF type, answer, about
  <2>4. TypedInboxDb(inboxDb')
    <3> DEFINE resolved == [inboxDb.status EXCEPT ![about] = "resolved"]
               open == [inboxDb.status EXCEPT ![about] = "open"]
               mine == [inboxDb.mine EXCEPT ![about] = TRUE]
    <3>1. /\ resolved \in [Convs -> {"open", "resolved"}] /\ open \in [Convs -> {"open", "resolved"}]
          /\ mine \in [Convs -> BOOLEAN]
      BY <1>1, <2>2 DEF TypedInboxDb
    <3>2. \/ inboxDb' = [inboxDb EXCEPT !.status = resolved]
          \/ inboxDb' = [inboxDb EXCEPT !.status = open]
          \/ inboxDb' = [inboxDb EXCEPT !.mine = mine]
          \/ inboxDb' = inboxDb
      BY <2>3, Zenon
    <3> HIDE DEF resolved, open, mine
    <3>3. QED
      BY <1>1, <3>1, <3>2 DEF TypedInboxDb
  <2>5. TypedLine(inboxLine')
    BY <1>1, <2>1, <2>2, PushTyped
  <2>6. InboxCallsTyped(inboxCalls')
    BY <1>1, <1>4, <2>1, AnsweredTyped
  <2>7. QED
    BY <1>1, <2>4, <2>5, <2>6, Zenon DEF InboxTyped
<1>5. CASE InboxCallFails(call)
  <2> DEFINE faults == inboxLine.faults + 1
  <2>1. /\ inboxLine.faults < MaxFaults /\ inboxLine' = [inboxLine EXCEPT !.faults = faults]
        /\ inboxCalls' = Answered(inboxCalls, call, Failed) /\ UNCHANGED inboxDb
    BY <1>5 DEF InboxCallFails
  <2>2. faults \in 0..MaxFaults
    BY <1>1, <2>1, InboxAssumption DEF TypedLine
  <2> HIDE DEF faults
  <2>3. TypedLine(inboxLine')
    BY <1>1, <2>1, <2>2 DEF TypedLine
  <2>4. InboxCallsTyped(inboxCalls')
    BY <1>1, <2>1, AnsweredTyped
  <2>5. QED
    BY <1>1, <2>1, <2>3, <2>4, Zenon DEF InboxTyped
<1>6. QED
  BY <1>2, <1>3, <1>4, <1>5, Zenon DEF InboxServer

LEMMA InboxWorldKeepsTypes ==
  ASSUME InboxTyped,
         \/ \E c \in Convs : ContactWrites(c)
         \/ \E n \in 1..MaxMessages : ProviderConfirms(n)
         \/ LeaveInbox
  PROVE  InboxTyped'
<1>1. TypedInbox(inbox) /\ TypedInboxDb(inboxDb) /\ TypedLine(inboxLine) /\ InboxCallsTyped(inboxCalls)
  BY Zenon DEF InboxTyped
<1>2. ASSUME NEW c \in Convs, ContactWrites(c)
      PROVE  InboxTyped'
  <2>1. /\ Len(Messages) < MaxMessages /\ inboxDb' = [inboxDb EXCEPT !.messages = Stored(c, "contact")]
        /\ Push("new_message", c, Len(Messages) + 1, "pending") /\ UNCHANGED <<inbox, inboxCalls>>
    BY <1>2, Zenon DEF ContactWrites
  <2>2. "contact" \in {"contact", "user"}
    OBVIOUS
  <2>3. TypedInboxDb(inboxDb') /\ TypedLine(inboxLine')
    BY <1>1, <2>1, <2>2, StoredTyped
  <2>4. QED
    BY <1>1, <2>1, <2>3, Zenon DEF InboxTyped
<1>3. ASSUME NEW n \in 1..MaxMessages, ProviderConfirms(n)
      PROVE  InboxTyped'
  <2> DEFINE ms == inboxDb.messages
             r == [ms[n] EXCEPT !.status = "sent"]
             marked == [ms EXCEPT ![n] = r]
             conv == ms[n].conv
  <2>1. /\ n \in DOMAIN ms /\ inboxDb' = [inboxDb EXCEPT !.messages[n].status = "sent"]
        /\ Push("message_status", conv, n, "sent") /\ UNCHANGED <<inbox, inboxCalls>>
    BY <1>3, Zenon DEF ProviderConfirms, Messages
  <2>2. inboxDb' = [inboxDb EXCEPT !.messages = marked]
    BY <2>1
  <2>3. ms \in Seq(Message) /\ Len(ms) <= MaxMessages /\ Len(ms) \in Nat
    BY <1>1 DEF TypedInboxDb
  <2>4. ms[n] \in Message
    BY <2>1, <2>3
  <2>5. r \in Message /\ conv \in Convs /\ "sent" \in Statuses
    BY <2>4 DEF Message, Statuses
  <2> HIDE DEF r, conv
  <2>6. marked \in Seq(Message) /\ Len(marked) = Len(ms)
    BY <2>1, <2>3, <2>5
  <2> HIDE DEF marked
  <2>7. TypedInboxDb(inboxDb')
    <3>1. Len(marked) <= MaxMessages
      BY <2>3, <2>6
    <3> HIDE DEF ms
    <3>2. QED
      BY <1>1, <2>2, <2>6, <3>1 DEF TypedInboxDb
  <2>8. TypedLine(inboxLine')
    <3>1. n \in 0..MaxMessages
      BY InboxAssumption
    <3>2. QED
      BY <1>1, <2>1, <2>5, <3>1, PushTyped
  <2>9. QED
    BY <1>1, <2>1, <2>7, <2>8, Zenon DEF InboxTyped
<1>4. CASE LeaveInbox
  <2> DEFINE start == InboxStart(inbox.wide, inbox.duties)
             some == {c \in inboxCalls : c.answer = Waiting /\ c.op = "send"}
             none == <<>>
             line == [inboxLine EXCEPT !.open = FALSE, !.events = none]
  <2>1. /\ inbox' = [start EXCEPT !.mounted = FALSE, !.calls = MaxVisits]
        /\ inboxCalls' = some /\ inboxLine' = line /\ UNCHANGED inboxDb
    BY <1>4, Zenon DEF LeaveInbox
  <2>2. TypedInbox(start)
    BY <1>1, InboxStartTyped DEF TypedInbox
  <2>3. some \in SUBSET inboxCalls
    OBVIOUS
  <2>4. none \in Seq(Told)
    OBVIOUS
  <2> HIDE DEF start, some, none
  <2>5. TypedLine(line)
    BY <1>1, <2>4 DEF TypedLine
  <2>6. TypedInbox(inbox')
    <3>1. MaxVisits \in 0..MaxVisits
      BY InboxAssumption
    <3>2. QED
      BY <2>1, <2>2, <3>1 DEF TypedInbox
  <2>7. InboxCallsTyped(inboxCalls')
    BY <1>1, <2>1, <2>3, SomeTyped
  <2>8. QED
    BY <1>1, <2>1, <2>5, <2>6, <2>7, Zenon DEF InboxTyped
<1>5. QED
  BY <1>2, <1>3, <1>4

LEMMA InboxTypedStep ==
  ASSUME InboxTyped, [InboxNext]_inboxVars
  PROVE  InboxTyped'
<1>1. CASE InboxNext
  BY <1>1, InboxActsKeepTypes, InboxAnswersKeepTypes, InboxEventsKeepTypes, InboxServerKeepsTypes,
     InboxWorldKeepsTypes, Zenon DEF InboxNext
<1>2. CASE UNCHANGED inboxVars
  BY <1>2, Zenon DEF inboxVars, InboxTyped
<1>3. QED
  BY <1>1, <1>2

LEMMA InboxTypedInit ==
  ASSUME InboxInit \/ InboxClosed
  PROVE  InboxTyped
<1>1. PICK wide \in BOOLEAN, duties \in SUBSET Duties :
        /\ \/ inbox = InboxStart(wide, duties)
           \/ inbox = [InboxStart(wide, duties) EXCEPT !.mounted = FALSE]
        /\ inboxCalls = Send({}, "list", "mine") \/ inboxCalls = {}
  <2>1. CASE InboxInit
    <3>1. PICK wide \in BOOLEAN, shift \in Shifts : inbox = InboxStart(wide, shift.duties)
      BY <2>1, Zenon DEF InboxInit
    <3>2. shift.duties \in SUBSET Duties
      <4>1. Shifts \subseteq [duties : SUBSET Duties, mine : SUBSET Convs]
        BY InboxAssumption, Zenon
      <4>2. QED
        BY <4>1
    <3>3. QED
      BY <2>1, <3>1, <3>2, Zenon DEF InboxInit
  <2>2. CASE InboxClosed
    <3>1. TRUE \in BOOLEAN /\ {} \in SUBSET Duties
      OBVIOUS
    <3>2. QED
      BY <2>2, <3>1, Zenon DEF InboxClosed
  <2>3. QED
    BY <2>1, <2>2
<1>2. TypedInbox(inbox)
  <2> DEFINE start == InboxStart(wide, duties)
  <2>1. TypedInbox(start)
    BY InboxStartTyped
  <2>2. inbox = start \/ inbox = [start EXCEPT !.mounted = FALSE]
    BY <1>1
  <2> HIDE DEF start
  <2>3. QED
    BY <2>1, <2>2 DEF TypedInbox
<1>3. InboxCallsTyped(inboxCalls)
  <2>1. FewCalls({}) /\ CanCall({})
    BY FS_EmptySet, PanelCallsAssumption DEF FewCalls, CanCall
  <2>2. InboxCallsTyped({})
    BY <2>1 DEF InboxCallsTyped
  <2>3. InboxCallsTyped(Send({}, "list", "mine"))
    BY <2>1, <2>2, SendTyped
  <2>4. QED
    BY <1>1, <2>2, <2>3
<1>4. PICK m \in [Convs -> BOOLEAN] : inboxDb = [messages |-> <<>>, mine |-> m, status |-> [c \in Convs |-> "open"]]
  <2>1. CASE InboxInit
    <3>1. PICK shift \in Shifts : inboxDb = [messages |-> <<>>, mine |-> [c \in Convs |-> c \in shift.mine],
                                             status |-> [c \in Convs |-> "open"]]
      BY <2>1, Zenon DEF InboxInit
    <3>2. [c \in Convs |-> c \in shift.mine] \in [Convs -> BOOLEAN]
      OBVIOUS
    <3>3. QED
      BY <3>1, <3>2, Zenon
  <2>2. CASE InboxClosed
    <3>1. [c \in Convs |-> FALSE] \in [Convs -> BOOLEAN]
      OBVIOUS
    <3>2. QED
      BY <2>2, <3>1, Zenon DEF InboxClosed
  <2>3. QED
    BY <2>1, <2>2
<1>5. TypedInboxDb(inboxDb)
  <2> DEFINE none == <<>>
             status == [c \in Convs |-> "open"]
  <2>1. inboxDb = [messages |-> none, mine |-> m, status |-> status]
    BY <1>4, Zenon
  <2>2. status \in [Convs -> {"open", "resolved"}] /\ none \in Seq(Message) /\ Len(none) <= MaxMessages
    BY InboxAssumption
  <2> HIDE DEF none, status
  <2>3. QED
    BY <1>4, <2>1, <2>2 DEF TypedInboxDb
<1>6. TypedLine(inboxLine)
  <2> DEFINE none == <<>>
  <2>1. PICK open \in BOOLEAN : inboxLine = [open |-> open, events |-> none, faults |-> 0]
    BY Zenon DEF InboxInit, InboxClosed
  <2>2. none \in Seq(Told) /\ 0 \in 0..MaxFaults
    BY InboxAssumption
  <2> HIDE DEF none
  <2>3. QED
    BY <2>1, <2>2 DEF TypedLine
<1>7. QED
  BY <1>2, <1>3, <1>5, <1>6, Zenon DEF InboxTyped

(* The type invariant of the page of conversations.                        *)
LEMMA InboxTypes ==
  ASSUME InboxTyped
  PROVE  InboxTypeOK
<1>1. TypedInbox(inbox) /\ TypedInboxDb(inboxDb) /\ TypedLine(inboxLine) /\ \A c \in inboxCalls : InboxCall(c)
  BY Zenon DEF InboxTyped, InboxCallsTyped
<1>2. Told \subseteq Event
  BY DEF Told
<1>3. inboxLine \in [open : BOOLEAN, events : Seq(Event), faults : 0..MaxFaults]
  <2>1. inboxLine.events \in Seq(Event)
    BY <1>1, <1>2, SeqOfSubset DEF TypedLine
  <2>2. QED
    BY <1>1, <2>1 DEF TypedLine
<1>4. /\ inboxDb.messages \in Seq([conv : Convs, from : {"contact", "user"}, status : Statuses])
      /\ inboxDb.mine \in [Convs -> BOOLEAN] /\ inboxDb.status \in [Convs -> {"open", "resolved"}]
  BY <1>1 DEF TypedInboxDb, Message
<1>5. \A c \in inboxCalls : c.slot \in 1..MaxInFlight
  BY <1>1 DEF InboxCall
<1>6. QED
  BY <1>1, <1>3, <1>4, <1>5, Zenon DEF InboxTypeOK, TypedInbox

-----------------------------------------------------------------------------
(* The types of the page of contacts *)

ListShown == [search : Searches, page : 0..MaxPages, changes : 0..MaxActs]
ListRead == [search : Searches, page : 1..MaxPages, form : Dialogs \cup {None}]

TypedPeople(m) ==
  m \in [mounted : BOOLEAN, view : {"contacts", "fields"}, input : Searches, typed : BOOLEAN, search : Searches,
         page : 1..MaxPages, pages : 1..MaxPages, list : ListShown, fields : {m.fields},
         modal : Dialogs \cup {None}, submitting : BOOLEAN, acts : 0..MaxActs, muddled : BOOLEAN]

TypedPeopleDb(db) == db \in [changes : Nat, fields : {db.fields}, lost : 0..MaxLost]

PeopleListed(result) == result.list \in ListShown /\ result.pages \in 1..MaxPages

ContactCall(c) ==
  /\ c.op \in {"list", "save"} => c.about \in ListRead
  /\ c.op = "save" => c.about.form # None
  /\ c.op = "list" /\ IsDone(c) => PeopleListed(c.answer.result)

(* A form that is being saved will change the contacts, and is the only    *)
(* one: the contacts are not changed more often than the operator acts.    *)
Saving(c) == c.op = "save" /\ c.answer = Waiting

SavesAreCounted(m, calls, db) ==
  /\ db.changes <= m.acts
  /\ \A c \in calls : Saving(c) => db.changes < m.acts
  /\ \A c, d \in calls : Saving(c) /\ Saving(d) => c = d

ContactsTyped ==
  /\ TypedPeople(people) /\ TypedPeopleDb(peopleDb)
  /\ \A c \in peopleCalls : ContactCall(c)
  /\ SavesAreCounted(people, peopleCalls, peopleDb)

(* A call that is sent awaits its answer.                                  *)
LEMMA ContactCallSent ==
  ASSUME NEW c, c.answer = Waiting, c.op \in {"list", "save"} => c.about \in ListRead,
         c.op = "save" => c.about.form # None
  PROVE  ContactCall(c)
  BY DEF ContactCall, IsDone

LEMMA TypedContactAct ==
  ASSUME NEW page, TypedPeople(page), NEW reads \in BOOLEAN, Room(page.acts, peopleDb.lost), TypedPeopleDb(peopleDb)
  PROVE  /\ TypedPeople(ContactAct(page, reads)) /\ ContactAct(page, reads).acts = page.acts + 1
         /\ ContactAct(page, reads).search = page.search /\ ContactAct(page, reads).page = page.page
<1> DEFINE muddled == peopleCalls # {} \/ (page.muddled /\ ~reads)
           acts == page.acts + 1
<1>1. ContactAct(page, reads) = [page EXCEPT !.acts = acts, !.muddled = muddled]
  BY Zenon DEF ContactAct
<1>2. muddled \in BOOLEAN /\ acts \in 0..MaxActs
  BY PanelCallsAssumption DEF TypedPeople, TypedPeopleDb, Room
<1>3. QED
  <2> HIDE DEF muddled, acts
  <2>1. /\ TypedPeople([page EXCEPT !.acts = acts, !.muddled = muddled])
        /\ [page EXCEPT !.acts = acts, !.muddled = muddled].acts = acts
        /\ [page EXCEPT !.acts = acts, !.muddled = muddled].search = page.search
        /\ [page EXCEPT !.acts = acts, !.muddled = muddled].page = page.page
    BY <1>2 DEF TypedPeople
  <2>2. QED
    BY <1>1, <2>1, Zenon DEF acts

LEMMA TypedFinishes ==
  ASSUME NEW page, TypedPeople(page), NEW form
  PROVE  TypedPeople(Finishes(page, form)) /\ Finishes(page, form).acts = page.acts
<1>1. TypedPeople([page EXCEPT !.modal = None, !.submitting = FALSE])
      /\ [page EXCEPT !.modal = None, !.submitting = FALSE].acts = page.acts
  BY DEF TypedPeople
<1>2. QED
  BY <1>1, Zenon DEF Finishes

(* What saves nothing new, and leaves the server and the acts alone.       *)
LEMMA SavesStayCounted ==
  ASSUME NEW m, NEW calls, NEW db, SavesAreCounted(m, calls, db), NEW m2, m2.acts = m.acts,
         NEW db2, db2.changes = db.changes, NEW calls2, \A c \in calls2 : c \in calls \/ ~Saving(c)
  PROVE  SavesAreCounted(m2, calls2, db2)
  BY DEF SavesAreCounted

LEMMA ContactsTypedNext ==
  ASSUME ContactsTyped, TypedPeople(people'), people'.acts = people.acts, UNCHANGED peopleDb,
         \A c \in peopleCalls' : c \in peopleCalls \/ (~Saving(c) /\ ContactCall(c))
  PROVE  ContactsTyped'
<1>1. SavesAreCounted(people', peopleCalls', peopleDb')
  <2>1. \A c \in peopleCalls' : c \in peopleCalls \/ ~Saving(c)
    OBVIOUS
  <2>2. QED
    BY <2>1, SavesStayCounted DEF ContactsTyped
<1>2. QED
  BY <1>1, Zenon DEF ContactsTyped

LEMMA ContactReadsKeepTypes ==
  ASSUME ContactsTyped, NEW call \in peopleCalls, ContactsArrive(call) \/ FieldsArrive(call)
  PROVE  ContactsTyped'
<1> DEFINE result == call.answer.result
           list == result.list
           pages == result.pages
           fields == result.fields
           listed == [people EXCEPT !.list = list, !.pages = pages]
           known == [people EXCEPT !.fields = fields]
<1>1. TypedPeople(people) /\ TypedPeople(known) /\ known.acts = people.acts /\ ContactCall(call)
  <2> HIDE DEF fields
  <2>1. QED
    BY DEF ContactsTyped, TypedPeople
<1>2. ASSUME PeopleListed(result) PROVE TypedPeople(listed) /\ listed.acts = people.acts
  <2>1. list \in ListShown /\ pages \in 1..MaxPages
    BY <1>2, Zenon DEF PeopleListed
  <2> HIDE DEF list, pages
  <2>2. QED
    BY <1>1, <2>1 DEF TypedPeople
<1>3. \/ people' = Finishes(people, call.about.form)
      \/ people' = Finishes(known, call.about.form)
      \/ PeopleListed(result) /\ people' = Finishes(listed, call.about.form)
  <2>1. CASE FieldsArrive(call)
    BY <2>1, Zenon DEF FieldsArrive
  <2>2. CASE ContactsArrive(call)
    <3>1. call.answer # Failed => PeopleListed(result)
      BY <1>1, <2>2 DEF ContactsArrive, Done, ContactCall, IsDone
    <3>2. QED
      BY <2>2, <3>1, Zenon DEF ContactsArrive
  <2>3. QED
    BY <2>1, <2>2
<1>4. TypedPeople(people') /\ people'.acts = people.acts
  <2> HIDE DEF known, listed, result
  <2>1. QED
    BY <1>1, <1>2, <1>3, TypedFinishes, Zenon
<1>5. UNCHANGED peopleDb /\ peopleCalls' = peopleCalls \ {call}
  BY Zenon DEF ContactsArrive, FieldsArrive
<1>6. QED
  BY <1>4, <1>5, ContactsTypedNext

LEMMA ContactWritesKeepTypes ==
  ASSUME ContactsTyped, NEW call \in peopleCalls, DialogAnswered(call) \/ FieldDeleted(call)
  PROVE  ContactsTyped'
<1> DEFINE busy == people.submitting /\ call.about.form = None
           field == [form |-> "field"]
<1>1. TypedPeople(people) /\ ContactCall(call) /\ UNCHANGED peopleDb
  BY Zenon DEF ContactsTyped, DialogAnswered, FieldDeleted
<1>2. TypedPeople(people') /\ people'.acts = people.acts
  <2>1. people' = people \/ people' = [people EXCEPT !.submitting = busy]
    BY Zenon DEF DialogAnswered, FieldDeleted
  <2>2. busy \in BOOLEAN
    BY <1>1 DEF TypedPeople
  <2>3. QED
    <3> HIDE DEF busy
    <3>1. QED
      BY <1>1, <2>1, <2>2 DEF TypedPeople
<1>3. \/ peopleCalls' = peopleCalls \ {call}
      \/ peopleCalls' = Chain(peopleCalls, call, "fields", field)
      \/ peopleCalls' = Chain(peopleCalls, call, "fields", call.about)
      \/ call.op = "save" /\ peopleCalls' = Chain(peopleCalls, call, "list", call.about)
  <2>1. DialogAnswered(call) => call.op = "save"
    BY DEF DialogAnswered, Done
  <2>2. QED
    BY <2>1, Zenon DEF DialogAnswered, FieldDeleted
<1>4. \A c \in peopleCalls' : c \in peopleCalls \/
        (c.answer = Waiting /\ (c.op = "fields" \/ (c.op = "list" /\ c.about = call.about /\ call.op = "save")))
  <2> HIDE DEF field
  <2>1. QED
    BY <1>3, ChainAdds
<1>5. call.op = "save" => call.about \in ListRead
  BY <1>1 DEF ContactCall
<1>6. \A c \in peopleCalls' : c \in peopleCalls \/ (~Saving(c) /\ ContactCall(c))
  BY <1>4, <1>5, ContactCallSent DEF Saving
<1>7. QED
  BY <1>1, <1>2, <1>6, ContactsTypedNext

LEMMA ContactDialogsKeepTypes ==
  ASSUME ContactsTyped,
         \/ CloseDialog \/ LeaveContacts
         \/ \E form \in Dialogs : OpenDialog(form)
         \/ \E view \in {"contacts", "fields"} : ChooseView(view)
         \/ \E input \in Searches : TypeSearch(input)
  PROVE  ContactsTyped'
<1>1. /\ TypedPeople(people) /\ TypedPeopleDb(peopleDb) /\ UNCHANGED peopleDb
      /\ \A c \in peopleCalls' : c \in peopleCalls
  <2>1. UNCHANGED peopleDb /\ (LeaveContacts \/ peopleCalls' = peopleCalls)
    BY Zenon DEF CloseDialog, LeaveContacts, OpenDialog, ChooseView, TypeSearch
  <2>2. LeaveContacts => \A c \in peopleCalls' : c \in peopleCalls
    BY DEF LeaveContacts
  <2>3. QED
    BY <2>1, <2>2, Zenon DEF ContactsTyped
<1>2. ASSUME TypedPeople(people'), people'.acts = people.acts
      PROVE  ContactsTyped'
  BY <1>1, <1>2, ContactsTypedNext
<1>3. CASE CloseDialog \/ LeaveContacts
  <2>1. \/ people' = [people EXCEPT !.modal = None]
        \/ people' = [people EXCEPT !.mounted = FALSE, !.modal = None, !.submitting = FALSE, !.typed = FALSE]
    BY <1>3, Zenon DEF CloseDialog, LeaveContacts
  <2>2. TypedPeople(people') /\ people'.acts = people.acts
    BY <1>1, <2>1 DEF TypedPeople
  <2>3. QED
    BY <1>2, <2>2
<1>4. ASSUME NEW form \in Dialogs, OpenDialog(form)
      PROVE  ContactsTyped'
  BY <1>1, <1>2, <1>4 DEF OpenDialog, TypedPeople
<1>5. ASSUME NEW view \in {"contacts", "fields"}, ChooseView(view)
      PROVE  ContactsTyped'
  BY <1>1, <1>2, <1>5 DEF ChooseView, TypedPeople
<1>6. ASSUME NEW input \in Searches, TypeSearch(input)
      PROVE  ContactsTyped'
  <2>1. people.acts + 1 \in 0..MaxActs
    <3>1. people.acts + peopleDb.lost < MaxActs
      BY <1>6, Zenon DEF TypeSearch, Room
    <3>2. QED
      BY <1>1, <3>1, PanelCallsAssumption DEF TypedPeople, TypedPeopleDb
  <2> DEFINE acts == people.acts + 1
  <2>2. people' = [people EXCEPT !.acts = acts, !.input = input, !.typed = TRUE]
    BY <1>6, Zenon DEF TypeSearch
  <2>3. TypedPeople(people') /\ people'.acts = acts
    <3> HIDE DEF acts
    <3>1. acts \in 0..MaxActs
      BY <2>1 DEF acts
    <3>2. QED
      BY <1>1, <2>2, <3>1 DEF TypedPeople
  <2>4. peopleCalls' = peopleCalls /\ people.acts \in Nat /\ peopleDb.changes \in Nat
    <3>1. peopleCalls' = peopleCalls
      BY <1>6, Zenon DEF TypeSearch
    <3>2. QED
      BY <1>1, <3>1 DEF TypedPeople, TypedPeopleDb
  <2>5. SavesAreCounted(people', peopleCalls', peopleDb')
    BY <1>1, <2>3, <2>4 DEF ContactsTyped, SavesAreCounted
  <2>6. QED
    BY <1>1, <2>3, <2>4, <2>5, Zenon DEF ContactsTyped
<1>7. QED
  BY <1>3, <1>4, <1>5, <1>6

LEMMA ContactActsKeepTypes ==
  ASSUME ContactsTyped, PeopleInv,
         Debounce \/ SaveDialog \/ DeleteContactField \/ (\E page \in 1..MaxPages : TurnPage(page))
  PROVE  ContactsTyped'
<1>1. TypedPeople(people) /\ TypedPeopleDb(peopleDb) /\ UNCHANGED peopleDb
  BY Zenon DEF ContactsTyped, Debounce, SaveDialog, DeleteContactField, TurnPage
<1>2. \A m, form : TypedPeople(m) /\ form \in Dialogs \cup {None} => Reading(m, form) \in ListRead
  BY DEF Reading, TypedPeople, ListRead
<1>3. people.acts \in Nat /\ peopleDb.changes \in Nat
  BY <1>1 DEF TypedPeople, TypedPeopleDb
(* What saves nothing, whether or not the operator does it.                *)
<1>4. ASSUME NEW op, NEW about, peopleCalls' = Send(peopleCalls, op, about) \/ peopleCalls' = peopleCalls,
             op # "save", op = "list" => about \in ListRead,
             TypedPeople(people'), people'.acts \in {people.acts, people.acts + 1}
      PROVE  ContactsTyped'
  <2>1. \A c \in peopleCalls' : c \in peopleCalls \/ (c.op = op /\ c.about = about /\ c.answer = Waiting)
    BY <1>4, SendAddsWaiting
  <2>2. \A c \in peopleCalls' : c \in peopleCalls \/ (~Saving(c) /\ ContactCall(c))
    BY <1>4, <2>1, ContactCallSent DEF Saving
  <2>3. SavesAreCounted(people', peopleCalls', peopleDb')
    BY <1>1, <1>3, <1>4, <2>2 DEF ContactsTyped, SavesAreCounted
  <2>4. QED
    BY <1>1, <1>4, <2>2, <2>3, Zenon DEF ContactsTyped
<1>5. CASE Debounce
  <2> DEFINE next == [people EXCEPT !.typed = FALSE, !.search = people.input, !.page = 1]
             muddled == peopleCalls # {}
             reads == [next EXCEPT !.muddled = muddled]
  <2>1. TypedPeople(next) /\ next.acts = people.acts
    <3>1. 1 \in 1..MaxPages
      <4>1. MaxPages \in Nat \ {0}
        BY ContactsPageAssumption, Zenon
      <4>2. QED
        BY <4>1
    <3>2. QED
      BY <1>1, <3>1 DEF TypedPeople
  <2>2. TypedPeople(reads) /\ reads.acts = people.acts
    <3> HIDE DEF next
    <3>1. muddled \in BOOLEAN
      OBVIOUS
    <3> HIDE DEF muddled
    <3>2. QED
      BY <2>1, <3>1 DEF TypedPeople
  <2>3. \/ people' = next /\ peopleCalls' = peopleCalls
        \/ people' = reads /\ peopleCalls' = Send(peopleCalls, "list", Reading(next, None))
    BY <1>5, Zenon DEF Debounce
  <2>4. Reading(next, None) \in ListRead
    BY <1>2, <2>1, Zenon
  <2>5. QED
    <3> HIDE DEF next, reads
    <3>1. TypedPeople(people') /\ people'.acts \in {people.acts, people.acts + 1}
      BY <2>1, <2>2, <2>3
    <3>2. QED
      BY <1>4, <2>3, <2>4, <3>1
<1>6. ASSUME NEW page \in 1..MaxPages, TurnPage(page)
      PROVE  ContactsTyped'
  <2> DEFINE turned == [people EXCEPT !.page = page]
  <2>1. TypedPeople(turned) /\ turned.acts = people.acts
    BY <1>1 DEF TypedPeople
  <2>2. /\ people' = ContactAct(turned, TRUE) /\ peopleCalls' = Send(peopleCalls, "list", Reading(people', None))
        /\ Room(people.acts, peopleDb.lost)
    BY <1>6, Zenon DEF TurnPage, ActsOnContacts
  <2>3. TypedPeople(people') /\ people'.acts = people.acts + 1
    <3> HIDE DEF turned
    <3>1. QED
      BY <1>1, <2>1, <2>2, TypedContactAct
  <2>4. Reading(people', None) \in ListRead
    BY <1>2, <2>3, Zenon
  <2>5. QED
    BY <1>4, <2>2, <2>3, <2>4
<1>7. CASE DeleteContactField
  <2> DEFINE none == [form |-> None]
  <2>1. /\ people' = ContactAct(people, FALSE) /\ peopleCalls' = Send(peopleCalls, "deleteField", none)
        /\ Room(people.acts, peopleDb.lost)
    BY <1>7, Zenon DEF DeleteContactField, ActsOnContacts
  <2>2. TypedPeople(people') /\ people'.acts = people.acts + 1
    BY <1>1, <2>1, TypedContactAct
  <2>3. QED
    <3> HIDE DEF none
    <3>1. "deleteField" \notin {"save", "list"} /\ people'.acts \in {people.acts, people.acts + 1}
      BY <2>2
    <3>2. QED
      BY <1>4, <2>1, <2>2, <3>1, Zenon
<1>8. CASE SaveDialog
  <2> DEFINE page == [people EXCEPT !.submitting = TRUE]
             about == Reading(people, people.modal)
             reads == people.modal # "field"
  <2>1. TypedPeople(page) /\ page.acts = people.acts
    BY <1>1 DEF TypedPeople
  <2>2. /\ people' = ContactAct(page, reads) /\ peopleCalls' = Send(peopleCalls, "save", about)
        /\ Room(people.acts, peopleDb.lost) /\ people.modal # None /\ people.mounted /\ ~people.submitting
    BY <1>8, Zenon DEF SaveDialog, ActsOnContacts
  <2>3. TypedPeople(people') /\ people'.acts = people.acts + 1
    <3>1. reads \in BOOLEAN
      OBVIOUS
    <3> HIDE DEF page, reads
    <3>2. QED
      BY <1>1, <2>1, <2>2, <3>1, TypedContactAct
  <2>4. about \in ListRead /\ about.form # None
    <3>1. people.modal \in Dialogs \cup {None} /\ about.form = people.modal
      BY <1>1 DEF TypedPeople, Reading
    <3>2. QED
      <4>1. about \in ListRead
        BY <1>1, <1>2, <3>1, Zenon
      <4>2. QED
        BY <2>2, <3>1, <4>1, Zenon
  <2>5. \A c \in peopleCalls : ~Saving(c)
    <3>1. \A c \in peopleCalls : c.about.form = None
      BY <2>2, NoFormIsOut DEF PeopleInv
    <3>2. QED
      BY <3>1 DEF ContactsTyped, ContactCall, Saving
  <2> DEFINE new == [slot |-> FreeSlot(peopleCalls), op |-> "save", about |-> about, answer |-> Waiting]
  <2>6. peopleCalls' = peopleCalls \cup {new}
    BY <2>2, Zenon DEF Send
  <2>7. ContactCall(new)
    <3>1. new.op = "save" /\ new.about = about /\ new.answer = Waiting
      OBVIOUS
    <3> HIDE DEF new, about
    <3>2. QED
      BY <2>4, <3>1, ContactCallSent
  <2>8. QED
    <3> HIDE DEF new, about
    <3>1. SavesAreCounted(people', peopleCalls', peopleDb')
      BY <1>1, <1>3, <2>3, <2>5, <2>6 DEF ContactsTyped, SavesAreCounted
    <3>2. \A c \in peopleCalls' : ContactCall(c)
      BY <2>6, <2>7 DEF ContactsTyped
    <3>3. QED
      BY <1>1, <2>3, <3>1, <3>2, Zenon DEF ContactsTyped
<1>9. QED
  BY <1>5, <1>6, <1>7, <1>8

LEMMA ContactServerKeepsTypes ==
  ASSUME ContactsTyped, PeopleInv, NEW call \in peopleCalls, ContactServer(call) \/ ContactCallFails(call)
  PROVE  ContactsTyped'
<1>1. TypedPeople(people) /\ TypedPeopleDb(peopleDb) /\ IsCall(call) /\ ContactCall(call)
  BY Zenon DEF ContactsTyped, PeopleInv, Held
<1>2. people.acts \in 0..MaxActs /\ peopleDb.changes \in Nat /\ peopleDb.changes <= people.acts
  BY <1>1 DEF TypedPeople, TypedPeopleDb, ContactsTyped, SavesAreCounted
<1>3. TypedPeople(people') /\ people'.acts = people.acts
  <2>1. people' = people \/ people' = [people EXCEPT !.muddled = TRUE]
    BY Zenon DEF ContactServer, ContactCallFails
  <2>2. QED
    BY <1>1, <2>1 DEF TypedPeople
<1>4. /\ TypedPeopleDb(peopleDb')
      /\ \/ peopleDb'.changes = peopleDb.changes
         \/ peopleDb'.changes = peopleDb.changes + 1 /\ Saving(call)
  <2> DEFINE more == peopleDb.fields + 1
             fewer == peopleDb.fields - 1
             changed == peopleDb.changes + 1
             lost == peopleDb.lost + 1
  <2>1. \/ peopleDb' = peopleDb
        \/ peopleDb' = [peopleDb EXCEPT !.fields = more]
        \/ peopleDb' = [peopleDb EXCEPT !.fields = fewer]
        \/ peopleDb' = [peopleDb EXCEPT !.changes = changed] /\ Saving(call)
        \/ peopleDb' = [peopleDb EXCEPT !.lost = lost] /\ peopleDb.lost < MaxLost
    BY Zenon DEF ContactServer, ContactCallFails, MayFail, Saving
  <2>2. changed \in Nat /\ (peopleDb.lost < MaxLost => lost \in 0..MaxLost)
    BY <1>1, PanelCallsAssumption DEF TypedPeopleDb
  <2>3. \/ TypedPeopleDb(peopleDb') /\ peopleDb'.changes = peopleDb.changes
        \/ TypedPeopleDb(peopleDb') /\ peopleDb'.changes = changed /\ Saving(call)
    <3> HIDE DEF more, fewer, changed, lost
    <3>1. QED
      BY <1>1, <2>1, <2>2 DEF TypedPeopleDb
  <2> HIDE DEF more, fewer, lost
  <2>4. changed = peopleDb.changes + 1
    OBVIOUS
  <2> HIDE DEF changed
  <2>5. QED
    BY <2>3, <2>4
<1>5. PICK answer : /\ peopleCalls' = Answered(peopleCalls, call, answer) /\ answer # Waiting
                    /\ call.op = "list" /\ answer # Failed => PeopleListed(answer.result)
  <2>1. CASE ContactServer(call) /\ call.op = "list"
    <3> DEFINE about == call.about
               list == [search |-> about.search, page |-> about.page, changes |-> peopleDb.changes]
    <3>1. PICK pages \in 1..MaxPages : peopleCalls' = Answered(peopleCalls, call, Ok([list |-> list, pages |-> pages]))
      BY <2>1 DEF ContactServer
    <3>2. list \in ListShown
      <4>1. about.search \in Searches /\ about.page \in 0..MaxPages
        BY <1>1, <2>1 DEF ContactCall, ListRead
      <4>2. peopleDb.changes \in 0..MaxActs
        BY <1>2, PanelCallsAssumption
      <4>3. QED
        BY <4>1, <4>2 DEF ListShown
    <3>3. PeopleListed([list |-> list, pages |-> pages])
      <4> HIDE DEF list
      <4>1. QED
        BY <3>2 DEF PeopleListed
    <3>4. QED
      <4> HIDE DEF list
      <4>1. QED
        BY <3>1, <3>3, AnswersDiffer, Zenon
  <2>2. CASE ContactServer(call) /\ call.op # "list"
    <3> DEFINE fields == Ok([fields |-> peopleDb.fields])
               done == Ok([done |-> TRUE])
    <3>1. \E answer \in {fields, done, Failed} : peopleCalls' = Answered(peopleCalls, call, answer)
      BY <2>2, Zenon DEF ContactServer
    <3>2. \A answer \in {fields, done, Failed} : answer # Waiting
      BY AnswersDiffer
    <3>3. QED
      BY <2>2, <3>1, <3>2, Zenon
  <2>3. CASE ContactCallFails(call)
    BY <2>3, AnswersDiffer, Zenon DEF ContactCallFails
  <2>4. QED
    BY <2>1, <2>2, <2>3
<1>6. \A c \in peopleCalls' : c \in peopleCalls \ {call} \/ (~Saving(c) /\ ContactCall(c))
  <2>1. \A c \in peopleCalls' : \/ c \in peopleCalls \ {call}
                                \/ c.op = call.op /\ c.about = call.about /\ c.answer = answer
    BY <1>1, <1>5, AnsweredReplaces
  <2>2. ASSUME NEW c, c.op = call.op, c.about = call.about, c.answer = answer
        PROVE  ~Saving(c) /\ ContactCall(c)
    BY <1>1, <1>5, <2>2 DEF Saving, ContactCall, IsDone
  <2>3. QED
    BY <2>1, <2>2, Zenon
<1>7. SavesAreCounted(people', peopleCalls', peopleDb')
  <2>1. \A c \in peopleCalls' : Saving(c) => c \in peopleCalls \ {call}
    BY <1>6, Zenon
  <2>2. CASE peopleDb'.changes = peopleDb.changes
    BY <1>3, <2>1, <2>2 DEF ContactsTyped, SavesAreCounted
  <2>3. CASE peopleDb'.changes = peopleDb.changes + 1 /\ Saving(call)
    <3>1. peopleDb.changes < people.acts /\ \A c \in peopleCalls' : ~Saving(c)
      BY <2>1, <2>3 DEF ContactsTyped, SavesAreCounted
    <3>2. QED
      BY <1>2, <1>3, <2>3, <3>1 DEF SavesAreCounted
  <2>4. QED
    BY <1>4, <2>2, <2>3
<1>8. QED
  BY <1>3, <1>4, <1>6, <1>7, Zenon DEF ContactsTyped

LEMMA ContactsTypedStep ==
  ASSUME ContactsTyped, PeopleInv, [ContactsNext]_peopleVars
  PROVE  ContactsTyped'
<1>1. CASE UNCHANGED peopleVars
  BY <1>1, Zenon DEF peopleVars, ContactsTyped
<1>2. CASE ContactsNext
  BY <1>2, ContactReadsKeepTypes, ContactWritesKeepTypes, ContactDialogsKeepTypes, ContactActsKeepTypes,
     ContactServerKeepsTypes, Zenon DEF ContactsNext
<1>3. QED
  BY <1>1, <1>2

LEMMA ContactsTypedInit ==
  ASSUME ContactsInit \/ ContactsClosed
  PROVE  ContactsTyped
<1>1. /\ "" \in Searches /\ 1 \in 1..MaxPages /\ 0 \in 0..MaxPages /\ 0 \in 0..MaxActs /\ 0 \in 0..MaxLost
  <2>1. MaxPages \in Nat \ {0} /\ "" \in Searches
    BY ContactsPageAssumption, Zenon
  <2>2. MaxPages \in Nat \ {0} => 1 \in 1..MaxPages /\ 0 \in 0..MaxPages
    OBVIOUS
  <2>3. 0 \in 0..MaxActs /\ 0 \in 0..MaxLost
    BY PanelCallsAssumption
  <2>4. QED
    BY <2>1, <2>2, <2>3, Zenon
<1> DEFINE searched == ""
           none == [search |-> searched, page |-> 0, changes |-> 0]
           opened == [mounted |-> TRUE, view |-> "contacts", input |-> searched, typed |-> TRUE,
                      search |-> searched, page |-> 1, pages |-> 1, list |-> none, fields |-> 0, modal |-> None,
                      submitting |-> FALSE, acts |-> 0, muddled |-> FALSE]
<1>2. TypedPeople(ContactsOpened) /\ ContactsOpened.acts = 0
  <2>1. searched \in Searches
    BY <1>1, Zenon
  <2>2. ContactsOpened = opened
    BY Zenon DEF ContactsOpened, NoList
  <2> HIDE DEF searched
  <2>3. none \in ListShown
    <3>1. 0 \in 0..MaxPages /\ 0 \in 0..MaxActs
      BY <1>1, Zenon
    <3>2. QED
      BY <2>1, <3>1 DEF ListShown
  <2> HIDE DEF none
  <2>4. TypedPeople(opened) /\ opened.acts = 0
    <3>1. 1 \in 1..MaxPages /\ 0 \in 0..MaxActs
      BY <1>1, Zenon
    <3>2. QED
      BY <2>1, <2>3, <3>1 DEF TypedPeople
  <2>5. QED
    BY <2>2, <2>4, Zenon
<1>3. /\ people = ContactsOpened \/ people = [ContactsOpened EXCEPT !.mounted = FALSE]
      /\ peopleDb = [changes |-> 0, fields |-> 0, lost |-> 0]
  BY Zenon DEF ContactsInit, ContactsClosed
<1>4. TypedPeople(people) /\ people.acts = 0
  <2> DEFINE first == ContactsOpened
  <2>1. TypedPeople(first) /\ first.acts = 0
    BY <1>2, Zenon
  <2>2. people = first \/ people = [first EXCEPT !.mounted = FALSE]
    BY <1>3, Zenon
  <2> HIDE DEF first
  <2>3. QED
    BY <2>1, <2>2 DEF TypedPeople
<1>5. TypedPeopleDb(peopleDb) /\ peopleDb.changes = 0
  <2>1. peopleDb = [changes |-> 0, fields |-> 0, lost |-> 0] /\ 0 \in 0..MaxLost
    BY <1>1, <1>3, Zenon
  <2>2. QED
    BY <2>1 DEF TypedPeopleDb
<1>6. \A c \in peopleCalls : c.answer = Waiting /\
        ((c.op = "list" /\ c.about \in ListRead) \/ c.op = "fields")
  <2> DEFINE about == Reading(people, None)
             noForm == [form |-> None]
  <2>1. about \in ListRead
    BY <1>4 DEF Reading, TypedPeople, ListRead
  <2>2. peopleCalls = {} \/ peopleCalls = Send(Send({}, "list", about), "fields", noForm)
    BY Zenon DEF ContactsInit, ContactsClosed
  <2> HIDE DEF about, noForm
  <2>3. QED
    BY <2>1, <2>2, SendAddsWaiting
<1>7. \A c \in peopleCalls : ContactCall(c) /\ ~Saving(c)
  BY <1>6, ContactCallSent DEF Saving
<1>8. SavesAreCounted(people, peopleCalls, peopleDb)
  BY <1>4, <1>5, <1>7 DEF SavesAreCounted
<1>9. QED
  BY <1>4, <1>5, <1>7, <1>8, Zenon DEF ContactsTyped

LEMMA ContactTypes == ContactsTyped => ContactsTypeOK
<1>1. ASSUME ContactsTyped PROVE ContactsTypeOK
  <2>1. TypedPeople(people) /\ TypedPeopleDb(peopleDb)
    BY <1>1, Zenon DEF ContactsTyped
  <2>2. QED
    BY <2>1 DEF TypedPeople, TypedPeopleDb, ContactsTypeOK, ListShown
<1>2. QED
  BY <1>1

-----------------------------------------------------------------------------
(* The types of the page of deals *)

(* The server numbers the pipelines of a company.                          *)
Numbered(pipelines) == \E n \in Nat : pipelines = 1..n

AreShown(cards) == \A i \in DOMAIN cards : cards[i].status \in DealStatuses

TypedCrm(m) ==
  /\ m \in [mounted : BOOLEAN, loading : BOOLEAN, pipelines : SUBSET Nat, pipeline : Nat, stages : {m.stages},
            cards : {m.cards}, fields : {m.fields}, modal : Forms \cup {None}, card : {m.card},
            submitting : BOOLEAN, acts : {m.acts}, muddled : BOOLEAN]
  /\ AreShown(m.cards)

TypedCrmDb(db) == Numbered(db.pipelines) /\ AreShown(db.cards) /\ db.lost \in 0..MaxLost

CrmCall(c) ==
  /\ c.op = "pipelines" => c.about.select \in Nat
  /\ c.op = "move" => c.about.status \in DealStatuses
  /\ c.op = "pipelines" /\ IsDone(c) => Numbered(c.answer.result.pipelines)
  /\ c.op = "pipeline" /\ IsDone(c) => c.answer.result.pipeline \in Nat
  /\ c.op = "board" /\ IsDone(c) => AreShown(c.answer.result.cards)

CrmTyped == TypedCrm(crm) /\ TypedCrmDb(crmDb) /\ \A c \in crmCalls : CrmCall(c)

LEMMA CrmCallSent ==
  ASSUME NEW c, c.answer = Waiting, c.op = "pipelines" => c.about.select \in Nat,
         c.op = "move" => c.about.status \in DealStatuses
  PROVE  CrmCall(c)
  BY DEF CrmCall, IsDone

LEMMA CrmTypedNext ==
  ASSUME CrmTyped, TypedCrm(crm'), UNCHANGED crmDb, \A c \in crmCalls' : c \in crmCalls \/ CrmCall(c)
  PROVE  CrmTyped'
  BY Zenon DEF CrmTyped

LEMMA TypedCrmAct ==
  ASSUME NEW page, TypedCrm(page)
  PROVE  TypedCrm(CrmAct(page))
<1> DEFINE busy == crmCalls # {}
           behind == page.card.behind \/ busy
           acts == page.acts + 1
           half == [page EXCEPT !.acts = acts, !.muddled = busy]
           card == [half.card EXCEPT !.behind = half.card.behind \/ busy]
<1>1. TypedCrm(half)
  <2>1. busy \in BOOLEAN
    OBVIOUS
  <2> HIDE DEF busy, acts
  <2>2. QED
    BY <2>1 DEF TypedCrm
<1>2. CrmAct(page) = [half EXCEPT !.card = card]
  <2>1. CrmAct(page) = [half EXCEPT !.card.behind = half.card.behind \/ busy]
    BY Zenon DEF CrmAct
  <2> HIDE DEF half, busy
  <2>2. [half EXCEPT !.card.behind = half.card.behind \/ busy] = [half EXCEPT !.card = card]
    BY Zenon
  <2>3. QED
    BY <2>1, <2>2, Zenon
<1>3. QED
  <2> HIDE DEF half, card
  <2>1. QED
    BY <1>1, <1>2 DEF TypedCrm

LEMMA TypedEnds ==
  ASSUME NEW page, TypedCrm(page), NEW form
  PROVE  TypedCrm(Ends(page, form))
<1> DEFINE modal == IF form = "fields" THEN page.modal ELSE None
<1>1. Ends(page, form) = page \/ Ends(page, form) = [page EXCEPT !.submitting = FALSE, !.modal = modal]
  BY Zenon DEF Ends
<1>2. modal \in Forms \cup {None}
  BY DEF TypedCrm
<1>3. QED
  <2> HIDE DEF modal
  <2>1. QED
    BY <1>1, <1>2 DEF TypedCrm

(* Of numbered pipelines the first is the least.                           *)
LEMMA FirstPipeline ==
  ASSUME NEW found, Numbered(found), found # {}
  PROVE  (CHOOSE p \in found : \A q \in found : p <= q) \in Nat
<1>1. PICK n \in Nat : found = 1..n
  BY DEF Numbered
<1>2. \E p \in found : \A q \in found : p <= q
  <2>1. 1 \in found /\ \A q \in found : 1 <= q
    BY <1>1
  <2>2. QED
    BY <2>1
<1>3. (CHOOSE p \in found : \A q \in found : p <= q) \in found
  BY <1>2, Zenon
<1>4. QED
  BY <1>1, <1>3

LEMMA CrmReadsKeepTypes ==
  ASSUME CrmTyped, NEW call \in crmCalls, PipelinesArrive(call) \/ BoardArrives(call)
  PROVE  CrmTyped'
<1>1. TypedCrm(crm) /\ CrmCall(call) /\ UNCHANGED crmDb
  BY Zenon DEF CrmTyped, PipelinesArrive, BoardArrives
<1>2. CASE PipelinesArrive(call)
  <2> DEFINE form == call.about.form
             found == call.answer.result.pipelines
             next == IF call.about.select # 0 THEN call.about.select
                     ELSE IF found = {} THEN 0 ELSE CHOOSE p \in found : \A q \in found : p <= q
             page == [crm EXCEPT !.pipelines = found, !.pipeline = next]
             failed == [crm EXCEPT !.loading = FALSE]
             none == <<>>
             empty == [page EXCEPT !.loading = FALSE, !.stages = {}, !.cards = none]
             about == [pipeline |-> next, form |-> form]
  <2>1. TypedCrm(failed)
    BY <1>1 DEF TypedCrm
  <2>2. ASSUME call.answer # Failed
        PROVE  TypedCrm(page) /\ TypedCrm(empty)
    <3>1. Numbered(found) /\ call.about.select \in Nat
      BY <1>1, <1>2, <2>2 DEF CrmCall, IsDone, PipelinesArrive, Done
    <3>2. found \subseteq Nat
      BY <3>1 DEF Numbered
    <3>3. next \in Nat
      BY <3>1, FirstPipeline
    <3> HIDE DEF found, next
    <3>4. TypedCrm(page)
      BY <1>1, <3>2, <3>3 DEF TypedCrm
    <3>5. AreShown(none)
      BY DEF AreShown
    <3> HIDE DEF page, none
    <3>6. TypedCrm(empty)
      BY <3>4, <3>5 DEF TypedCrm
    <3>7. QED
      BY <3>4, <3>6
  <2>3. \/ crm' = Ends(failed, form) /\ crmCalls' = crmCalls \ {call}
        \/ call.answer # Failed /\ crm' = page /\ crmCalls' = Chain(crmCalls, call, "board", about)
        \/ call.answer # Failed /\ crm' = Ends(empty, form) /\ crmCalls' = crmCalls \ {call}
    BY <1>2, Zenon DEF PipelinesArrive
  <2>4. TypedCrm(crm')
    <3> HIDE DEF failed, page, empty, form
    <3>1. QED
      BY <2>1, <2>2, <2>3, TypedEnds, Zenon
  <2>5. \A c \in crmCalls' : c \in crmCalls \/ (c.answer = Waiting /\ c.op = "board")
    <3> HIDE DEF about
    <3>1. crmCalls' = crmCalls \ {call} \/ crmCalls' = Chain(crmCalls, call, "board", about)
      BY <2>3, Zenon
    <3>2. QED
      BY <3>1, ChainAdds
  <2>6. \A c \in crmCalls' : c \in crmCalls \/ CrmCall(c)
    BY <2>5, CrmCallSent
  <2>7. QED
    BY <1>1, <2>4, <2>6, CrmTypedNext
<1>3. CASE BoardArrives(call)
  <2> DEFINE board == call.answer.result
             cards == board.cards
             stages == board.stages
             fields == board.fields
             page == [crm EXCEPT !.loading = FALSE]
             full == [page EXCEPT !.stages = stages, !.cards = cards, !.fields = fields]
  <2>1. TypedCrm(page)
    BY <1>1 DEF TypedCrm
  <2>2. ASSUME call.answer # Failed
        PROVE  TypedCrm(full)
    <3>1. AreShown(cards)
      BY <1>1, <1>3, <2>2 DEF CrmCall, IsDone, BoardArrives, Done
    <3> HIDE DEF cards, stages, fields, page
    <3>2. QED
      BY <2>1, <3>1 DEF TypedCrm
  <2>3. \/ crm' = Ends(page, call.about.form)
        \/ call.answer # Failed /\ crm' = Ends(full, call.about.form)
    BY <1>3, Zenon DEF BoardArrives
  <2>4. TypedCrm(crm')
    <3> HIDE DEF page, full
    <3>1. QED
      BY <2>1, <2>2, <2>3, TypedEnds, Zenon
  <2>5. crmCalls' = crmCalls \ {call}
    BY <1>3, Zenon DEF BoardArrives
  <2>6. QED
    BY <1>1, <2>4, <2>5, CrmTypedNext
<1>4. QED
  BY <1>2, <1>3

LEMMA CrmWritesKeepTypes ==
  ASSUME CrmTyped, NEW call \in crmCalls, CrmWriteAnswered(call)
  PROVE  CrmTyped'
<1> DEFINE busy == crm.submitting /\ call.about.form = None
           half == [crm EXCEPT !.submitting = busy, !.muddled = TRUE]
           selects == [select |-> call.answer.result.pipeline, form |-> call.about.form]
           reads == [pipeline |-> call.about.pipeline, form |-> call.about.form]
           card == [half.card EXCEPT !.behind = TRUE]
           staged == [crm.card EXCEPT !.stage = call.about.stage]
           moved == [crm EXCEPT !.card = staged]
           there == [moved.card EXCEPT !.status = call.about.status]
<1>1. TypedCrm(crm) /\ CrmCall(call) /\ UNCHANGED crmDb
  BY Zenon DEF CrmTyped, CrmWriteAnswered
<1>2. TypedCrm(half)
  <2>1. busy \in BOOLEAN
    BY <1>1 DEF TypedCrm
  <2> HIDE DEF busy
  <2>2. QED
    BY <1>1, <2>1 DEF TypedCrm
<1>3. TypedCrm(moved)
  <2> HIDE DEF staged
  <2>1. QED
    BY <1>1 DEF TypedCrm
<1>4. \/ crm' = crm
      \/ crm' = [half EXCEPT !.card = card]
      \/ crm' = [moved EXCEPT !.card = there]
  <2>1. \/ crm' = crm
        \/ crm' = [crm EXCEPT !.card.stage = call.about.stage, !.card.status = call.about.status]
        \/ crm' = [crm EXCEPT !.submitting = busy, !.muddled = TRUE, !.card.behind = TRUE]
    BY Zenon DEF CrmWriteAnswered, Moved
  <2>2. [crm EXCEPT !.card.stage = call.about.stage, !.card.status = call.about.status] = [moved EXCEPT !.card = there]
    BY Zenon
  <2>3. [crm EXCEPT !.submitting = busy, !.muddled = TRUE, !.card.behind = TRUE] = [half EXCEPT !.card = card]
    BY Zenon
  <2>4. QED
    BY <2>1, <2>2, <2>3, Zenon
<1>5. TypedCrm(crm')
  <2> HIDE DEF half, moved, card, there
  <2>1. QED
    BY <1>1, <1>2, <1>3, <1>4 DEF TypedCrm
<1>6. \/ crmCalls' = crmCalls \ {call}
      \/ /\ call.op = "pipeline" /\ call.answer \notin {Waiting, Failed}
         /\ crmCalls' = Chain(crmCalls, call, "pipelines", selects)
      \/ crmCalls' = Chain(crmCalls, call, "board", reads)
  <2>1. call.answer # Waiting
    BY DEF CrmWriteAnswered, Done
  <2>2. QED
    BY <2>1 DEF CrmWriteAnswered
<1>7. call.op = "pipeline" /\ call.answer \notin {Waiting, Failed} => selects.select \in Nat
  BY <1>1 DEF CrmCall, IsDone
<1>8. \A c \in crmCalls' : \/ c \in crmCalls
                           \/ c.answer = Waiting /\ c.op = "board"
                           \/ c.answer = Waiting /\ c.op = "pipelines" /\ c.about.select \in Nat
  <2> HIDE DEF selects, reads
  <2>1. QED
    BY <1>6, <1>7, ChainAdds
<1>9. \A c \in crmCalls' : c \in crmCalls \/ CrmCall(c)
  BY <1>8, CrmCallSent
<1>10. QED
  BY <1>1, <1>5, <1>9, CrmTypedNext

LEMMA CrmDialogsKeepTypes ==
  ASSUME CrmTyped,
         CloseForm \/ LeaveCrm \/ (\E form \in Forms : OpenForm(form)) \/ (\E c \in DOMAIN crmDb.cards : OpenCard(c))
  PROVE  CrmTyped'
<1>1. TypedCrm(crm)
  BY Zenon DEF CrmTyped
<1>2. UNCHANGED crmDb /\ \A c \in crmCalls' : c \in crmCalls
  <2>1. UNCHANGED crmDb /\ (LeaveCrm \/ crmCalls' = crmCalls)
    BY Zenon DEF CloseForm, LeaveCrm, OpenForm, OpenCard
  <2>2. LeaveCrm => \A c \in crmCalls' : c \in crmCalls
    BY DEF LeaveCrm
  <2>3. QED
    BY <2>1, <2>2, Zenon
<1>3. TypedCrm(crm')
  <2>1. CASE CloseForm \/ LeaveCrm
    <3>1. \/ crm' = [crm EXCEPT !.modal = None]
          \/ crm' = [crm EXCEPT !.mounted = FALSE, !.modal = None, !.submitting = FALSE]
      BY <2>1, Zenon DEF CloseForm, LeaveCrm
    <3>2. QED
      BY <1>1, <3>1 DEF TypedCrm
  <2>2. ASSUME NEW form \in Forms, OpenForm(form)
        PROVE  TypedCrm(crm')
    <3>1. crm' = [crm EXCEPT !.modal = form]
      BY <2>2, Zenon DEF OpenForm
    <3>2. QED
      BY <1>1, <3>1 DEF TypedCrm
  <2>3. ASSUME NEW c, OpenCard(c)
        PROVE  TypedCrm(crm')
    <3> DEFINE card == [id |-> c, stage |-> crm.cards[c].stage, status |-> crm.cards[c].status,
                        behind |-> crmCalls # {}]
               modal == "card"
    <3>1. crm' = [crm EXCEPT !.modal = modal, !.card = card]
      BY <2>3, Zenon DEF OpenCard
    <3>2. modal \in Forms
      BY DEF Forms
    <3> HIDE DEF card, modal
    <3>3. QED
      BY <1>1, <3>1, <3>2 DEF TypedCrm
  <2>4. QED
    BY <2>1, <2>2, <2>3
<1>4. QED
  BY <1>2, <1>3, CrmTypedNext

(* What the operator sends.                                                *)
LEMMA CrmSendKeepsTypes ==
  ASSUME CrmTyped, NEW page, TypedCrm(page), crm' = CrmAct(page), UNCHANGED crmDb,
         NEW op, NEW about, crmCalls' = Send(crmCalls, op, about),
         op # "pipelines", op = "move" => about.status \in DealStatuses
  PROVE  CrmTyped'
<1>1. TypedCrm(crm')
  BY TypedCrmAct
<1>2. \A c \in crmCalls' : c \in crmCalls \/ (c.answer = Waiting /\ c.op = op /\ c.about = about)
  BY SendAddsWaiting
<1>3. \A c \in crmCalls' : c \in crmCalls \/ CrmCall(c)
  BY <1>2, CrmCallSent
<1>4. QED
  BY <1>1, <1>3, CrmTypedNext

LEMMA SubmitKeepsTypes ==
  ASSUME CrmTyped, NEW op, NEW about, Submits(op, about), op \notin {"pipelines", "move"}
  PROVE  CrmTyped'
<1> DEFINE page == [crm EXCEPT !.submitting = TRUE]
<1>1. TypedCrm(page)
  BY DEF CrmTyped, TypedCrm
<1>2. crm' = CrmAct(page) /\ crmCalls' = Send(crmCalls, op, about) /\ UNCHANGED crmDb
  BY Zenon DEF Submits
<1>3. QED
  <2> HIDE DEF page
  <2>1. QED
    BY <1>1, <1>2, CrmSendKeepsTypes

LEMMA CrmOperatorKeepsTypes ==
  ASSUME CrmTyped,
         \/ CreatePipeline \/ CreateStage \/ CreateField \/ SaveCardFields
         \/ \E stage \in crm.stages : CreateDeal(stage)
         \/ \E p \in crm.pipelines : SelectPipeline(p)
         \/ \E field \in crm.fields : DeleteField(field)
         \/ \E c \in DOMAIN crmDb.cards, stage \in crm.stages, status \in DealStatuses : MoveCard(c, stage, status)
  PROVE  CrmTyped'
<1>1. TypedCrm(crm)
  BY Zenon DEF CrmTyped
<1>2. CASE CreatePipeline
  BY <1>2, SubmitKeepsTypes DEF CreatePipeline
<1>3. CASE CreateStage
  BY <1>3, SubmitKeepsTypes DEF CreateStage
<1>4. CASE CreateField
  BY <1>4, SubmitKeepsTypes DEF CreateField
<1>5. CASE SaveCardFields
  BY <1>5, SubmitKeepsTypes DEF SaveCardFields
<1>6. ASSUME NEW stage, CreateDeal(stage)
      PROVE  CrmTyped'
  BY <1>6, SubmitKeepsTypes DEF CreateDeal
<1>7. ASSUME NEW p \in crm.pipelines, SelectPipeline(p)
      PROVE  CrmTyped'
  <2> DEFINE page == [crm EXCEPT !.pipeline = p]
             about == [pipeline |-> p, form |-> None]
  <2>1. TypedCrm(page)
    BY <1>1 DEF TypedCrm
  <2>2. crm' = CrmAct(page) /\ crmCalls' = Send(crmCalls, "board", about) /\ UNCHANGED crmDb
    BY <1>7, Zenon DEF SelectPipeline
  <2>3. "board" \notin {"pipelines", "move"}
    OBVIOUS
  <2>4. QED
    <3> HIDE DEF page, about
    <3>1. QED
      BY <2>1, <2>2, <2>3, CrmSendKeepsTypes
<1>8. ASSUME NEW field, DeleteField(field)
      PROVE  CrmTyped'
  <2> DEFINE about == [field |-> field, pipeline |-> crm.pipeline, form |-> None]
  <2>1. crm' = CrmAct(crm) /\ crmCalls' = Send(crmCalls, "deleteField", about) /\ UNCHANGED crmDb
    BY <1>8, Zenon DEF DeleteField
  <2>2. "deleteField" \notin {"pipelines", "move"}
    OBVIOUS
  <2>3. QED
    <3> HIDE DEF about
    <3>1. QED
      BY <1>1, <2>1, <2>2, CrmSendKeepsTypes
<1>9. ASSUME NEW c, NEW stage, NEW status \in DealStatuses, MoveCard(c, stage, status)
      PROVE  CrmTyped'
  <2> DEFINE about == [card |-> c, stage |-> stage, status |-> status, shown |-> crm.card.id = c,
                       pipeline |-> crm.pipeline, form |-> None]
  <2>1. crm' = CrmAct(crm) /\ crmCalls' = Send(crmCalls, "move", about) /\ UNCHANGED crmDb
    BY <1>9, Zenon DEF MoveCard
  <2>2. about.status \in DealStatuses /\ "move" # "pipelines"
    BY <1>9
  <2>3. QED
    <3> HIDE DEF about
    <3>1. QED
      BY <1>1, <2>1, <2>2, CrmSendKeepsTypes
<1>10. QED
  BY <1>2, <1>3, <1>4, <1>5, <1>6, <1>7, <1>8, <1>9

LEMMA NumberedGrows ==
  ASSUME NEW pipelines, Numbered(pipelines)
  PROVE  Cardinality(pipelines) \in Nat /\ Numbered(pipelines \cup {Cardinality(pipelines) + 1})
<1>1. PICK n \in Nat : pipelines = 1..n
  BY DEF Numbered
<1>2. Cardinality(pipelines) = n
  BY <1>1, FS_Interval
<1>3. pipelines \cup {n + 1} = 1..(n + 1)
  BY <1>1
<1>4. QED
  BY <1>2, <1>3 DEF Numbered

LEMMA CrmWritesTyped ==
  ASSUME IsCrmDb(crmDb), TypedCrmDb(crmDb), NEW call, call.op \in Writes, CrmCall(call)
  PROVE  TypedCrmDb(CrmWrites(call))
<1> DEFINE about == call.about
           p == Cardinality(crmDb.pipelines) + 1
           n == Cardinality(StagesOf(about.pipeline)) + 1
           next == CrmWrites(call)
<1>1. AreShown(next.cards)
  <2>1. StatusesComeFrom(crmDb.cards, next.cards, call)
    BY CrmWritesDeals
  <2>2. "open" \in DealStatuses /\ AreShown(crmDb.cards) /\ (call.op = "move" => call.about.status \in DealStatuses)
    BY DEF DealStatuses, TypedCrmDb, CrmCall
  <2> HIDE DEF next
  <2>3. QED
    BY <2>1, <2>2 DEF StatusesComeFrom, AreShown
<1>2. Numbered(next.pipelines) /\ next.lost = crmDb.lost
  <2> DEFINE cards == Append(crmDb.cards, NewCard(about.stage))
             pipelines == crmDb.pipelines \cup {p}
             first == crmDb.stages \cup {<<p, 1>>}
             stages == crmDb.stages \cup {<<about.pipeline, n>>}
             more == crmDb.fields \cup {about.new}
             fewer == crmDb.fields \ {about.field}
             filled == [crmDb.cards EXCEPT ![about.id].values = about.values]
             half == [crmDb EXCEPT !.cards[about.card].stage = about.stage]
             staged == [crmDb.cards EXCEPT ![about.card].stage = about.stage]
             there == [half.cards EXCEPT ![about.card].status = about.status]
  <2>1. \/ next = [crmDb EXCEPT !.cards = cards]
        \/ next = [crmDb EXCEPT !.pipelines = pipelines, !.stages = first]
        \/ next = [crmDb EXCEPT !.stages = stages]
        \/ next = [crmDb EXCEPT !.fields = more]
        \/ next = [crmDb EXCEPT !.fields = fewer]
        \/ next = [crmDb EXCEPT !.cards = filled]
        \/ next = [half EXCEPT !.cards = there]
    <3>1. CASE call.op = "card"
      <4>1. next = [crmDb EXCEPT !.cards[about.id].values = about.values]
        BY <3>1 DEF CrmWrites
      <4>2. QED
        BY <4>1, Zenon
    <3>2. CASE call.op = "move"
      <4>1. next = [crmDb EXCEPT !.cards[about.card].stage = about.stage, !.cards[about.card].status = about.status]
        BY <3>2 DEF CrmWrites
      <4>2. QED
        BY <4>1, Zenon
    <3>3. CASE call.op \notin {"card", "move"}
      <4>1. next \in {[crmDb EXCEPT !.cards = cards], [crmDb EXCEPT !.pipelines = pipelines, !.stages = first],
                      [crmDb EXCEPT !.stages = stages], [crmDb EXCEPT !.fields = more],
                      [crmDb EXCEPT !.fields = fewer]}
        BY <3>3 DEF CrmWrites, Writes
      <4> HIDE DEF next, cards, pipelines, first, stages, more, fewer
      <4>2. QED
        BY <4>1
    <3>4. QED
      BY <3>1, <3>2, <3>3
  <2>2. half = [crmDb EXCEPT !.cards = staged]
    BY Zenon
  <2>3. Numbered(pipelines) /\ Numbered(crmDb.pipelines)
    BY NumberedGrows DEF TypedCrmDb
  <2> HIDE DEF next, cards, pipelines, first, stages, more, fewer, filled, staged, there, half
  <2>4. half.pipelines = crmDb.pipelines /\ half.lost = crmDb.lost
    BY <2>2 DEF IsCrmDb
  <2>5. next.pipelines \in {crmDb.pipelines, pipelines} /\ next.lost = crmDb.lost
    <3>1. CASE next = [half EXCEPT !.cards = there]
      BY <2>2, <2>4, <3>1 DEF IsCrmDb
    <3>2. CASE ~(next = [half EXCEPT !.cards = there])
      BY <2>1, <3>2 DEF IsCrmDb
    <3>3. QED
      BY <3>1, <3>2
  <2>6. QED
    BY <2>3, <2>5
<1>3. QED
  <2> HIDE DEF next
  <2>1. TypedCrmDb(next)
    BY <1>1, <1>2 DEF TypedCrmDb
  <2>2. QED
    BY <2>1, Zenon DEF next

LEMMA CrmServerKeepsTypes ==
  ASSUME CrmTyped, BoardInv, NEW call \in crmCalls, CrmServer(call) \/ CrmCallFails(call)
  PROVE  CrmTyped'
<1> DEFINE pipelines == [pipelines |-> crmDb.pipelines]
           board == Board(call.about.pipeline)
           made == [pipeline |-> Cardinality(crmDb.pipelines) + 1]
           lost == crmDb.lost + 1
<1>1. /\ TypedCrm(crm) /\ TypedCrmDb(crmDb) /\ CrmCall(call) /\ IsCall(call) /\ IsCrmDb(crmDb)
  BY Zenon DEF CrmTyped, BoardInv, CrmInv, Held
<1>2. TypedCrm(crm')
  <2> DEFINE half == [crm EXCEPT !.muddled = TRUE]
             card == [half.card EXCEPT !.behind = TRUE]
  <2>1. crm' = crm \/ crm' = [half EXCEPT !.card = card]
    BY Zenon DEF CrmServer, CrmCallFails
  <2>2. TypedCrm(half)
    BY <1>1 DEF TypedCrm
  <2> HIDE DEF half, card
  <2>3. QED
    BY <1>1, <2>1, <2>2 DEF TypedCrm
<1>3. \/ call.op = "pipelines" /\ crmCalls' = Answered(crmCalls, call, Ok(pipelines)) /\ crmDb' = crmDb
      \/ call.op = "board" /\ crmCalls' = Answered(crmCalls, call, Ok(board)) /\ crmDb' = crmDb
      \/ crmCalls' = Answered(crmCalls, call, Failed) /\ crmDb' = crmDb
      \/ call.op \in Writes /\ crmCalls' = Answered(crmCalls, call, Ok(made)) /\ crmDb' = CrmWrites(call)
      \/ /\ crmCalls' = Answered(crmCalls, call, Failed)
         /\ crmDb' = [crmDb EXCEPT !.lost = lost] /\ crmDb.lost < MaxLost
  BY Zenon DEF CrmServer, CrmCallFails, MayFail
<1>4. TypedCrmDb(crmDb')
  <2>1. call.op \in Writes => TypedCrmDb(CrmWrites(call))
    BY <1>1, CrmWritesTyped, Zenon
  <2>2. crmDb.lost < MaxLost => TypedCrmDb([crmDb EXCEPT !.lost = lost])
    <3>1. crmDb.lost < MaxLost => lost \in 0..MaxLost
      BY <1>1, PanelCallsAssumption DEF TypedCrmDb
    <3> HIDE DEF lost
    <3>2. QED
      BY <1>1, <3>1 DEF TypedCrmDb, IsCrmDb
  <2>3. QED
    <3> HIDE DEF lost
    <3>1. QED
      BY <1>1, <1>3, <2>1, <2>2, Zenon
<1>5. \E answer : /\ crmCalls' = Answered(crmCalls, call, answer)
                  /\ \A c : c.op = call.op /\ c.about = call.about /\ c.answer = answer => CrmCall(c)
  <2>1. ASSUME NEW c, c.op = call.op, c.about = call.about, c.answer = Failed
        PROVE  CrmCall(c)
    BY <1>1, <2>1 DEF CrmCall, IsDone
  <2>2. ASSUME NEW c, c.op = call.op, c.about = call.about, call.op = "pipelines", c.answer = Ok(pipelines)
        PROVE  CrmCall(c)
    <3>1. c.answer.result.pipelines = crmDb.pipelines
      BY <2>2 DEF Ok
    <3>2. QED
      BY <1>1, <2>2, <3>1 DEF CrmCall, TypedCrmDb
  <2>3. ASSUME NEW c, c.op = call.op, c.about = call.about, call.op = "board", c.answer = Ok(board)
        PROVE  CrmCall(c)
    <3>1. AreShown(board.cards)
      BY <1>1 DEF Board, CardsOf, TypedCrmDb, AreShown
    <3>2. c.answer.result = board
      BY <2>3, AnswersDiffer, Zenon
    <3> HIDE DEF board
    <3>3. QED
      BY <1>1, <2>3, <3>1, <3>2 DEF CrmCall
  <2>4. ASSUME NEW c, c.op = call.op, c.about = call.about, call.op \in Writes, c.answer = Ok(made)
        PROVE  CrmCall(c)
    <3>1. c.answer.result = made /\ made.pipeline = Cardinality(crmDb.pipelines) + 1
      BY <2>4 DEF Ok
    <3>2. made.pipeline \in Nat
      <4>1. Cardinality(crmDb.pipelines) \in Nat
        BY <1>1, NumberedGrows DEF TypedCrmDb
      <4>2. QED
        BY <3>1, <4>1
    <3> HIDE DEF made
    <3>3. QED
      BY <1>1, <2>4, <3>1, <3>2 DEF CrmCall, Writes
  <2>5. QED
    <3> HIDE DEF pipelines, board, made
    <3>1. QED
      BY <1>3, <2>1, <2>2, <2>3, <2>4, Zenon
<1>6. \A c \in crmCalls' : c \in crmCalls \/ CrmCall(c)
  BY <1>1, <1>5, AnsweredReplaces
<1>7. QED
  BY <1>2, <1>4, <1>6, Zenon DEF CrmTyped

LEMMA CrmTypedStep ==
  ASSUME CrmTyped, BoardInv, [CrmNext]_crmVars
  PROVE  CrmTyped'
<1>1. CASE UNCHANGED crmVars
  BY <1>1, Zenon DEF crmVars, CrmTyped
<1>2. CASE CrmNext
  BY <1>2, CrmReadsKeepTypes, CrmWritesKeepTypes, CrmDialogsKeepTypes, CrmOperatorKeepsTypes, CrmServerKeepsTypes,
     Zenon DEF CrmNext
<1>3. QED
  BY <1>1, <1>2

LEMMA CompanyTyped ==
  ASSUME NEW pipelines, Numbered(pipelines), NEW stages, NEW cards \in Nat
  PROVE  TypedCrmDb(Company(pipelines, stages, cards))
<1> DEFINE first == [c \in 1..cards |-> NewCard(<<1, 1>>)]
<1>1. AreShown(first)
  BY DEF AreShown, NewCard, DealStatuses
<1>2. 0 \in 0..MaxLost
  BY PanelCallsAssumption
<1>3. /\ Company(pipelines, stages, cards).pipelines = pipelines
      /\ Company(pipelines, stages, cards).cards = first
      /\ Company(pipelines, stages, cards).lost = 0
  <2>1. Company(pipelines, stages, cards)
          = [pipelines |-> pipelines, stages |-> stages, fields |-> {0}, cards |-> first, lost |-> 0]
    BY Zenon DEF Company
  <2> HIDE DEF first
  <2>2. QED
    BY <2>1
<1>4. QED
  <2> HIDE DEF first
  <2>1. QED
    BY <1>1, <1>2, <1>3 DEF TypedCrmDb

LEMMA CrmTypedInit ==
  ASSUME CrmInit \/ CrmClosed
  PROVE  CrmTyped
<1> DEFINE opened == CrmOpened
           about == [select |-> 0, form |-> None]
<1>1. TypedCrm(opened)
  <2> DEFINE none == <<>>
             card == NoCard
  <2>1. AreShown(none)
    BY DEF AreShown
  <2>2. opened = [mounted |-> TRUE, loading |-> TRUE, pipelines |-> {}, pipeline |-> 0, stages |-> {}, cards |-> none,
                  fields |-> {}, modal |-> None, card |-> card, submitting |-> FALSE, acts |-> 0, muddled |-> FALSE]
    BY Zenon DEF CrmOpened
  <2> HIDE DEF none, card, opened
  <2>3. QED
    BY <2>1, <2>2 DEF TypedCrm
<1>2. crm = opened \/ crm = [opened EXCEPT !.mounted = FALSE]
  BY Zenon DEF CrmInit, CrmClosed
<1>3. TypedCrm(crm)
  <2> HIDE DEF opened
  <2>1. QED
    BY <1>1, <1>2 DEF TypedCrm
<1>4. TypedCrmDb(crmDb)
  <2>1. crmDb \in {Company({}, {}, 0), Company({1, 2}, {<<1, 1>>, <<1, 2>>, <<2, 1>>}, FirstCards)}
    BY DEF CrmInit, CrmClosed
  <2>2. Numbered({}) /\ Numbered({1, 2})
    <3>1. {} = 1..0 /\ {1, 2} = 1..2
      OBVIOUS
    <3>2. QED
      BY <3>1 DEF Numbered
  <2>3. QED
    BY <2>1, <2>2, CompanyTyped, CrmPageAssumption
<1>5. \A c \in crmCalls : c.answer = Waiting /\ c.op = "pipelines" /\ c.about.select = 0
  <2>1. crmCalls = {} \/ crmCalls = Send({}, "pipelines", about)
    BY Zenon DEF CrmInit, CrmClosed
  <2>2. about.select = 0
    OBVIOUS
  <2> HIDE DEF about
  <2>3. QED
    BY <2>1, <2>2, SendAddsWaiting
<1>6. \A c \in crmCalls : CrmCall(c)
  BY <1>5, CrmCallSent
<1>7. QED
  BY <1>3, <1>4, <1>6 DEF CrmTyped

LEMMA CrmTypes == CrmTyped => CrmTypeOK
<1>1. ASSUME CrmTyped PROVE CrmTypeOK
  <2>1. TypedCrm(crm) /\ TypedCrmDb(crmDb)
    BY <1>1, Zenon DEF CrmTyped
  <2>2. QED
    BY <2>1 DEF TypedCrm, TypedCrmDb, AreShown, CrmTypeOK
<1>2. QED
  BY <1>1
=============================================================================
