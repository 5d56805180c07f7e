------------------------------ MODULE Positions ------------------------------
(***************************************************************************)
(* Lists in the order of their positions: what the code selects or filters *)
(* in order is the sequence over a set of positions.  SelectSeq and        *)
(* SortSeq compute the same, but have no definition one can prove about.   *)
(***************************************************************************)
EXTENDS Naturals, FiniteSets

(* The members of a finite set of numbers, in order.                       *)
Ordered(S) == [k \in 1..Cardinality(S) |-> CHOOSE n \in S : Cardinality({m \in S : m <= n}) = k]

(* What a sequence has at the positions of a set, and what it has left     *)
(* without them, in order.                                                 *)
At(s, S) == [k \in 1..Cardinality(S) |-> s[Ordered(S)[k]]]
Without(s, S) == At(s, DOMAIN s \ S)
=============================================================================
