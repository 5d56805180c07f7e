-------------------------- MODULE ConversationSlot --------------------------
(***************************************************************************)
(* What the automation engine promises about a conversation, with no       *)
(* statement, goroutine or scheduler in sight: at most one bot is at work  *)
(* on it; the bot alternates between acting and waiting until it is over;  *)
(* what is over stays over, except that a step already under way may still *)
(* take effect, once.  FlowEngine implements this specification.           *)
(***************************************************************************)
EXTENDS Naturals

CONSTANTS Execs, Convs, NoConv

VARIABLES
  stage,   \* how far each bot is
  place,   \* the conversation it works on
  extra    \* steps that took effect after it was over

vars == <<stage, place, extra>>

Init ==
  /\ stage = [x \in Execs |-> "unused"]
  /\ place = [x \in Execs |-> NoConv]
  /\ extra = [x \in Execs |-> 0]

AtWork(x) == stage[x] \in {"acting", "waiting"}

Begin(x, c) ==
  /\ stage[x] = "unused"
  /\ \A y \in Execs : AtWork(y) => place[y] # c
  /\ stage' = [stage EXCEPT ![x] = "acting"]
  /\ place' = [place EXCEPT ![x] = c]
  /\ UNCHANGED extra

Suspend(x) ==
  /\ stage[x] = "acting"
  /\ stage' = [stage EXCEPT ![x] = "waiting"]
  /\ UNCHANGED <<place, extra>>

Resume(x) ==
  /\ stage[x] = "waiting"
  /\ stage' = [stage EXCEPT ![x] = "acting"]
  /\ UNCHANGED <<place, extra>>

(* A flow that is turned off or deleted ends all of its bots together.     *)
End(X) ==
  /\ \A x \in X : AtWork(x)
  /\ stage' = [x \in Execs |-> IF x \in X THEN "over" ELSE stage[x]]
  /\ UNCHANGED <<place, extra>>

LateStep(x) ==
  /\ stage[x] = "over"
  /\ extra[x] = 0
  /\ extra' = [extra EXCEPT ![x] = 1]
  /\ UNCHANGED <<stage, place>>

Next ==
  \/ \E x \in Execs, c \in Convs : Begin(x, c)
  \/ \E x \in Execs : Suspend(x) \/ Resume(x) \/ LateStep(x)
  \/ \E X \in SUBSET Execs : End(X)

Spec == Init /\ [][Next]_vars
=============================================================================
