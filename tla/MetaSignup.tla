----------------------------- MODULE MetaSignup -----------------------------
(***************************************************************************)
(* Connecting an official channel in Meta's popup                          *)
(* (web/src/components/MetaEmbeddedSignupButton.jsx and                    *)
(* api/metaSignup.js).  An attempt collects a code, from the callback of   *)
(* FB.login, and the number, from a message of a popup, in either order,   *)
(* and then posts both.  Timers end what Meta never answers; the operator  *)
(* may close the form, which unmounts the button, and open it again while  *)
(* an earlier attempt is still posting.                                    *)
(*                                                                         *)
(* signupInProgress outlives the button: 0 stands for null.                *)
(***************************************************************************)
EXTENDS PanelCalls

CONSTANT MaxAttempts   \* bound: attempts; MaxActs bounds how often the form opens

ASSUME MetaSignupAssumption == MaxAttempts \in Nat

VARIABLES button,        \* the mounted button and signupInProgress
          attempts,      \* the closures of the attempts so far
          signupCalls    \* calls in flight

signupVars == <<button, attempts, signupCalls>>

NewAttempt == [ended |-> FALSE, code |-> FALSE, number |-> 0, timer |-> "long", listening |-> TRUE,
               mine |-> TRUE, back |-> FALSE, told |-> FALSE, posts |-> 0]

Attempts == DOMAIN attempts

SignupInit ==
  /\ button = [mounted |-> FALSE, ready |-> FALSE, connecting |-> FALSE, inProgress |-> 0, opened |-> 0, lost |-> 0]
  /\ attempts = <<>>
  /\ signupCalls = {}

MountButton ==
  /\ ~button.mounted /\ button.opened < MaxActs /\ CanCall(signupCalls)
  /\ button' = [button EXCEPT !.mounted = TRUE, !.opened = @ + 1]
  /\ signupCalls' = Send(signupCalls, "config", [attempt |-> 0])
  /\ UNCHANGED attempts

(* The configuration is complete and the SDK loads within 20 seconds.      *)
ConfigArrives(call) ==
  /\ button.mounted /\ call \in Done(signupCalls, "config")
  /\ button' = [button EXCEPT !.ready = call.answer # Failed]
  /\ signupCalls' = signupCalls \ {call}
  /\ UNCHANGED attempts

(* Mutant of Released: whoever cleans up frees the panel for the next one. *)
Released_Whoever(n) == [button EXCEPT !.inProgress = 0]

(* An attempt frees the panel unless a later one has taken it.             *)
Released(n) == [button EXCEPT !.inProgress = IF @ = n THEN 0 ELSE @]

Closed(a) == [a EXCEPT !.ended = TRUE, !.timer = "off", !.listening = FALSE]
Posted(a) == [Closed(a) EXCEPT !.posts = a.posts + 1]

(* fail: clean up, and tell the operator if the button is still there.     *)
Fails(all, n) ==
  /\ attempts' = [all EXCEPT ![n] = Closed(@)]
  /\ button' = [Released(n) EXCEPT !.connecting = @ /\ ~all[n].mine]

(* cleanupRef is the last attempt of the button that goes away.            *)
UnmountButton ==
  /\ button.mounted
  /\ LET last == Len(attempts)
         freed == IF last > 0 /\ attempts[last].mine THEN Released(last) ELSE button
     IN /\ button' = [freed EXCEPT !.mounted = FALSE, !.ready = FALSE, !.connecting = FALSE]
        /\ attempts' = [n \in Attempts |-> IF attempts[n].mine
                                           THEN [Closed(attempts[n]) EXCEPT !.mine = FALSE]
                                           ELSE attempts[n]]
  /\ signupCalls' = {c \in signupCalls : c.op # "config"}

HandleClick ==
  /\ button.ready /\ ~button.connecting /\ button.inProgress = 0
  /\ Len(attempts) < MaxAttempts /\ CanCall(signupCalls)
  /\ button' = [button EXCEPT !.connecting = TRUE, !.inProgress = Len(attempts) + 1]
  /\ attempts' = Append(attempts, NewAttempt)
  /\ UNCHANGED signupCalls

(* finish: the first time that both are there, listening and timers end    *)
(* and they are posted.                                                    *)
Collected(all, n) ==
  LET both == ~all[n].ended /\ all[n].code /\ all[n].number > 0
  IN /\ attempts' = IF both THEN [all EXCEPT ![n] = Posted(@)] ELSE all
     /\ signupCalls' = IF both THEN Send(signupCalls, "signup", [attempt |-> n]) ELSE signupCalls
     /\ UNCHANGED button

(* The callback of FB.login.  A code ends the long timer; the number is    *)
(* then due within 15 seconds, if the attempt is still the one in progress.*)
PopupAnswers(n, granted) ==
  /\ n \in Attempts /\ ~attempts[n].back /\ CanCall(signupCalls)
  /\ LET due == granted /\ button.inProgress = n /\ ~attempts[n].ended
         all == [attempts EXCEPT ![n] = [@ EXCEPT !.back = TRUE, !.code = granted,
                                                  !.timer = IF due THEN "short" ELSE "off"]]
     IN IF ~granted /\ ~attempts[n].ended THEN Fails(all, n) /\ UNCHANGED signupCalls ELSE Collected(all, n)

(* A popup tells whoever listens, by then perhaps another attempt.         *)
PopupTells(popup, n, finished) ==
  /\ popup \in Attempts /\ ~attempts[popup].told
  /\ n \in Attempts /\ attempts[n].listening /\ CanCall(signupCalls)
  /\ LET told == [attempts EXCEPT ![popup].told = TRUE]
     IN IF finished THEN Collected([told EXCEPT ![n].number = popup], n)
        ELSE Fails(told, n) /\ UNCHANGED signupCalls

(* Ten minutes for the popup, 15 seconds for the number after its code.    *)
TimerFires(n) ==
  /\ n \in Attempts /\ attempts[n].timer # "off"
  /\ Fails(attempts, n)
  /\ UNCHANGED signupCalls

SignupAnswered(call) ==
  /\ call \in Done(signupCalls, "signup")
  /\ signupCalls' = signupCalls \ {call}
  /\ Fails(attempts, call.about.attempt)

SignupServer(call) ==
  /\ call \in signupCalls /\ call.answer = Waiting
  /\ \/ /\ signupCalls' = Answered(signupCalls, call, Ok([done |-> TRUE]))
        /\ UNCHANGED <<button, attempts>>
     \/ /\ button.lost < MaxLost
        /\ signupCalls' = Answered(signupCalls, call, Failed)
        /\ button' = [button EXCEPT !.lost = @ + 1]
        /\ UNCHANGED attempts

SignupNext ==
  \/ MountButton \/ UnmountButton \/ HandleClick
  \/ \E n \in 1..MaxAttempts :
       \/ TimerFires(n)
       \/ \E granted \in BOOLEAN : PopupAnswers(n, granted)
       \/ \E popup \in 1..MaxAttempts, finished \in BOOLEAN : PopupTells(popup, n, finished)
  \/ \E call \in signupCalls : ConfigArrives(call) \/ SignupAnswered(call) \/ SignupServer(call)

SignupSpec == SignupInit /\ [][SignupNext]_signupVars

(* Timers fire and calls are answered; Meta's popup may never say a word.  *)
SignupFair ==
  /\ \A n \in 1..MaxAttempts : WF_signupVars(TimerFires(n))
  /\ WF_signupVars(\E call \in signupCalls : SignupServer(call))
  /\ WF_signupVars(\E call \in signupCalls : ConfigArrives(call) \/ SignupAnswered(call))

-----------------------------------------------------------------------------
SignupTypeOK ==
  /\ {button.mounted, button.ready, button.connecting} \subseteq BOOLEAN
  /\ button.inProgress \in 0..Len(attempts)
  /\ attempts \in Seq([ended : BOOLEAN, code : BOOLEAN, number : 0..MaxAttempts, timer : {"off", "long", "short"},
                       listening : BOOLEAN, mine : BOOLEAN, back : BOOLEAN,
                       told : BOOLEAN, posts : Nat])

(* One attempt collects at a time, the one in progress, and none posts     *)
(* twice, whatever order the popups, timers and answers come in and        *)
(* however often the form is closed meanwhile.                             *)
OneSignupAtATime ==
  \A n \in Attempts : attempts[n].posts <= 1 /\ (~attempts[n].ended => button.inProgress = n)

(* No attempt waits for ever, even if Meta never answers.                  *)
SignupEnds == \A n \in 1..MaxAttempts : []<>(n \in Attempts => attempts[n].ended)

(* Nor does the button stay busy.                                          *)
ButtonComesBack == []<>(~button.connecting)
=============================================================================
