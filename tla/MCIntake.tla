------------------------------ MODULE MCIntake ------------------------------
(***************************************************************************)
(* Two messages of one phone, one reply, one attendant.                    *)
(***************************************************************************)
EXTENDS Intake, TLC

CONSTANTS p1, i1, i2, o1, k1, v1, d1, l1, l2

Crowd(who, f, a) == [who |-> who, faults |-> f, acts |-> a]
Together ==
  {Crowd({i1, i2}, 0, 2), Crowd({i1, i2, d1}, 0, 0), Crowd({i1, i2}, 1, 0), Crowd({i1, d1}, 1, 1),
   Crowd({i1, o1}, 1, 1)}
=============================================================================
