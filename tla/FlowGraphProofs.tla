-------------------------- MODULE FlowGraphProofs --------------------------
(***************************************************************************)
(* What the operators of FlowGraph return, for every definition, however   *)
(* long: positions of the definition or the nil pointer, and for a         *)
(* definition that passes Validate never the nil pointer on an edge.  And  *)
(* what the operators of FlowCanvas return, for every drawing: which of    *)
(* its steps and edges an edit leaves or adds, that a drawing stays        *)
(* legible, and that one which is saved and opened again is the same.      *)
(***************************************************************************)
EXTENDS FlowCanvas, FiniteSetTheorems, FunctionTheorems, SequenceTheorems,
        WellFoundedInduction, TLAPS

LEMMA LeastPosition ==
  ASSUME NEW S \in SUBSET Nat, S # {}
  PROVE  \E i \in S : \A j \in S : i <= j
<1> DEFINE Less == OpToRel(<, Nat)
<1>1. IsWellFoundedOn(Less, Nat)
  BY NatLessThanWellFounded, Zenon
<1>2. PICK x \in S : \A y \in S : ~(<<y, x>> \in Less)
  <2> HIDE DEF Less
  <2>1. QED
    BY <1>1, WFMin, Zenon
<1>3. \A y \in S : ~(y < x)
  BY <1>2, Zenon DEF Less, OpToRel
<1>4. QED
  BY <1>3

LEMMA FirstOfIsFirst ==
  ASSUME NEW S \in SUBSET (Nat \ {0})
  PROVE  /\ S = {} => FirstOf(S) = NoNode
         /\ S # {} => FirstOf(S) \in S /\ FirstOf(S) # NoNode
         /\ FirstOf(S) \in Nat
<1>1. CASE S = {}
  BY <1>1 DEF FirstOf, NoNode
<1>2. CASE S # {}
  <2>1. \E i \in S : \A j \in S : i <= j
    BY <1>2, LeastPosition
  <2>2. FirstOf(S) \in S
    BY <1>2, <2>1, Zenon DEF FirstOf
  <2>3. QED
    BY <1>2, <2>2 DEF NoNode
<1>3. QED
  BY <1>1, <1>2

LEMMA PositionsAreNumbers ==
  ASSUME NEW def \in FlowDefinition
  PROVE  /\ DOMAIN def.nodes \in SUBSET (Nat \ {0})
         /\ DOMAIN def.edges \in SUBSET (Nat \ {0})
         /\ \A i \in DOMAIN def.nodes : def.nodes[i] \in FlowNode
         /\ \A k \in DOMAIN def.edges : def.edges[k] \in FlowEdge
  BY DEF FlowDefinition

LEMMA FindNodeFinds ==
  ASSUME NEW def \in FlowDefinition, NEW id
  PROVE  /\ FindNode(def, id) \in DOMAIN def.nodes \cup {NoNode}
         /\ id \in NodeIds(def) =>
              /\ FindNode(def, id) # NoNode
              /\ def.nodes[FindNode(def, id)].id = id
<1> DEFINE S == {i \in DOMAIN def.nodes : def.nodes[i].id = id}
<1>1. S \in SUBSET (Nat \ {0})
  BY PositionsAreNumbers
<1>2. /\ S = {} => FirstOf(S) = NoNode
      /\ S # {} => FirstOf(S) \in S /\ FirstOf(S) # NoNode
  BY <1>1, FirstOfIsFirst
<1>3. id \in NodeIds(def) => S # {}
  BY DEF NodeIds
<1>4. QED
  BY <1>2, <1>3 DEF FindNode

LEMMA StartNodeStarts ==
  ASSUME NEW def \in FlowDefinition
  PROVE  /\ StartNode(def) \in DOMAIN def.nodes \cup {NoNode}
         /\ def.nodes # <<>> => StartNode(def) # NoNode
         /\ (\E i \in DOMAIN def.nodes : def.nodes[i].type = "trigger") =>
              /\ StartNode(def) \in DOMAIN def.nodes
              /\ def.nodes[StartNode(def)].type = "trigger"
<1> DEFINE T == {i \in DOMAIN def.nodes : def.nodes[i].type = "trigger"}
           Targets == {def.edges[k].target : k \in DOMAIN def.edges}
           R == {i \in DOMAIN def.nodes : def.nodes[i].id \notin Targets}
           D == DOMAIN def.nodes
<1>1. T \in SUBSET (Nat \ {0}) /\ R \in SUBSET (Nat \ {0}) /\ D \in SUBSET (Nat \ {0})
  BY PositionsAreNumbers
<1>2. /\ T = {} => FirstOf(T) = NoNode
      /\ T # {} => FirstOf(T) \in T /\ FirstOf(T) # NoNode
  BY <1>1, FirstOfIsFirst
<1>3. /\ R = {} => FirstOf(R) = NoNode
      /\ R # {} => FirstOf(R) \in R /\ FirstOf(R) # NoNode
  BY <1>1, FirstOfIsFirst
<1>4. /\ D = {} => FirstOf(D) = NoNode
      /\ D # {} => FirstOf(D) \in D /\ FirstOf(D) # NoNode
  BY <1>1, FirstOfIsFirst
<1>5. def.nodes # <<>> => D # {}
  <2>1. def.nodes \in Seq(FlowNode)
    BY DEF FlowDefinition
  <2>2. def.nodes # <<>> => Len(def.nodes) \in Nat \ {0}
    BY <2>1, EmptySeq
  <2>3. D = 1..Len(def.nodes)
    BY <2>1, LenProperties
  <2>4. \A m \in Nat \ {0} : 1 \in 1..m
    OBVIOUS
  <2>5. QED
    BY <2>2, <2>3, <2>4, Zenon
<1>6. StartNode(def) = CASE FirstOf(T) # NoNode -> FirstOf(T)
                         [] FirstOf(T) = NoNode /\ FirstOf(R) # NoNode -> FirstOf(R)
                         [] OTHER -> FirstOf(D)
  BY DEF StartNode
<1>7. (\E i \in DOMAIN def.nodes : def.nodes[i].type = "trigger") => T # {}
  OBVIOUS
<1> HIDE DEF D
<1>8. QED
  BY <1>2, <1>3, <1>4, <1>5, <1>6, <1>7 DEF D

(* An edge that carries the wanted handle, or an unlabelled edge that      *)
(* leads somewhere when the default output is wanted, is enough to get on. *)
LEMMA NextNodeFollowsAnEdge ==
  ASSUME NEW def \in FlowDefinition, NEW n, NEW handle
  PROVE  /\ NextNode(def, n, handle) \in DOMAIN def.nodes \cup {NoNode}
         /\ \A k \in DOMAIN def.edges :
              /\ def.edges[k].source = def.nodes[n].id
              /\ def.edges[k].handle = handle
              /\ \A j \in DOMAIN def.edges : def.edges[j].target \in NodeIds(def)
              => NextNode(def, n, handle) # NoNode
<1> DEFINE default == DefaultHandle(def.nodes[n].type)
           wanted == IF handle = "" THEN default ELSE handle
           Leaving == {k \in DOMAIN def.edges : def.edges[k].source = def.nodes[n].id}
           N == {k \in Leaving : def.edges[k].handle = wanted}
           P == {k \in Leaving : /\ def.edges[k].handle = ""
                                 /\ wanted = default
                                 /\ def.edges[k].target \in NodeIds(def)}
<1>1. N \in SUBSET (Nat \ {0}) /\ P \in SUBSET (Nat \ {0})
  BY PositionsAreNumbers
<1>2. /\ N = {} => FirstOf(N) = NoNode
      /\ N # {} => FirstOf(N) \in N /\ FirstOf(N) # NoNode
  BY <1>1, FirstOfIsFirst
<1>3. /\ P = {} => FirstOf(P) = NoNode
      /\ P # {} => FirstOf(P) \in P /\ FirstOf(P) # NoNode
  BY <1>1, FirstOfIsFirst
<1>4. NextNode(def, n, handle) =
        CASE FirstOf(N) # 0 -> FindNode(def, def.edges[FirstOf(N)].target)
          [] FirstOf(N) = 0 /\ FirstOf(P) # 0 -> FindNode(def, def.edges[FirstOf(P)].target)
          [] OTHER -> NoNode
  BY DEF NextNode
<1>5. \A k \in DOMAIN def.edges :
        /\ FindNode(def, def.edges[k].target) \in DOMAIN def.nodes \cup {NoNode}
        /\ def.edges[k].target \in NodeIds(def) =>
             FindNode(def, def.edges[k].target) # NoNode
  BY FindNodeFinds
<1>6. NextNode(def, n, handle) \in DOMAIN def.nodes \cup {NoNode}
  BY <1>2, <1>3, <1>4, <1>5 DEF NoNode
<1>7. ASSUME NEW k \in DOMAIN def.edges, k \in Leaving, def.edges[k].handle = handle,
             \A j \in DOMAIN def.edges : def.edges[j].target \in NodeIds(def)
      PROVE  NextNode(def, n, handle) # NoNode
  <2>1. k \in N \/ k \in P
    BY <1>7
  <2>2. QED
    BY <2>1, <1>2, <1>3, <1>4, <1>5, <1>7 DEF NoNode
<1>8. QED
  BY <1>6, <1>7

LEMMA NormalizedType ==
  ASSUME NEW type \in NodeTypes \cup OldTypes \cup {"unknown"}
  PROVE  Normalize(type) \in NodeTypes \cup OldTypes \cup {"unknown"}
<1>1. Normalize(type) \in {"send_message", "ask", "wait", "webhook", "crm_move", type}
  BY Zenon DEF Normalize
<1>2. QED
  BY <1>1 DEF NodeTypes

LEMMA NormalizeKeepsShape ==
  ASSUME NEW def \in FlowDefinition
  PROVE  NormalizeDefinition(def) \in FlowDefinition
<1> DEFINE N == [i \in DOMAIN def.nodes |-> [def.nodes[i] EXCEPT !.type = Normalize(@)]]
<1>1. def.nodes \in Seq(FlowNode)
  BY DEF FlowDefinition
<1>2. Len(def.nodes) \in Nat /\ DOMAIN def.nodes = 1..Len(def.nodes)
  BY <1>1, LenProperties
<1>3. \A i \in DOMAIN def.nodes : N[i] \in FlowNode
  BY PositionsAreNumbers, NormalizedType DEF FlowNode
<1>4. N \in [1..Len(def.nodes) -> FlowNode]
  BY <1>2, <1>3
<1>5. N \in Seq(FlowNode)
  BY <1>2, <1>4, SeqDef
<1>6. NormalizeDefinition(def) = [def EXCEPT !.nodes = N]
  BY DEF NormalizeDefinition
<1> HIDE DEF N
<1>7. QED
  BY <1>5, <1>6 DEF FlowDefinition

(* The flow that answers a message has a node to start at.                 *)
LEMMA BestFlowStarts ==
  ASSUME NEW F \in SUBSET (Nat \ {0}), NEW defs \in [F -> FlowDefinition], NEW ev
  PROVE  /\ BestFlow(defs, ev) \in F \cup {0}
         /\ BestFlow(defs, ev) # 0 => StartNode(defs[BestFlow(defs, ev)]) # NoNode
<1> DEFINE B == {i \in F : /\ Priority(defs[i], ev) > 0
                           /\ \A j \in F : Priority(defs[j], ev) <= Priority(defs[i], ev)}
<1>1. B \in SUBSET (Nat \ {0}) /\ BestFlow(defs, ev) = FirstOf(B)
  BY DEF BestFlow
<1>2. \A i \in F : StartNode(defs[i]) = NoNode => Priority(defs[i], ev) = 0
  BY Zenon DEF Priority
<1>3. \A i \in B : StartNode(defs[i]) # NoNode
  BY <1>2
<1> HIDE DEF B
<1>4. FirstOf(B) \in B \cup {0}
  BY <1>1, FirstOfIsFirst DEF NoNode
<1>5. 0 \notin B /\ B \subseteq F
  BY DEF B
<1>6. QED
  BY <1>1, <1>3, <1>4, <1>5

-----------------------------------------------------------------------------
(* What Validate lets an operator activate starts at its trigger and has   *)
(* no edge into nowhere, for definitions of any size.                      *)
THEOREM ValidFlowLeadsSomewhere ==
  ASSUME NEW def \in FlowDefinition, Valid(def)
  PROVE  LeadsSomewhere(def)
<1> DEFINE Triggers == {i \in DOMAIN def.nodes : def.nodes[i].type = "trigger"}
<1>1. Triggers # {}
  <2>1. Cardinality(Triggers) = 1
    BY Zenon DEF Valid
  <2>2. QED
    BY <2>1, FS_EmptySet
<1>2. /\ StartNode(def) \in DOMAIN def.nodes
      /\ def.nodes[StartNode(def)].type = "trigger"
  BY <1>1, StartNodeStarts
<1>3. \A k \in DOMAIN def.edges :
        def.edges[k].source \in NodeIds(def) /\ def.edges[k].target \in NodeIds(def)
  BY DEF Valid
<1>4. ASSUME NEW k \in DOMAIN def.edges
      PROVE  NextNode(def, FindNode(def, def.edges[k].source), def.edges[k].handle) # NoNode
  <2>1. def.nodes[FindNode(def, def.edges[k].source)].id = def.edges[k].source
    BY <1>3, FindNodeFinds
  <2>2. QED
    BY <1>3, <2>1, NextNodeFollowsAnEdge
<1>5. QED
  BY <1>2, <1>4 DEF LeadsSomewhere

-----------------------------------------------------------------------------
(* Lists in the order of their positions *)

(* Every member of a set of numbers has a place of its own in its order.   *)
LEMMA PlacesAreTaken ==
  ASSUME NEW S \in SUBSET Nat, IsFiniteSet(S)
  PROVE  /\ Cardinality(S) \in Nat
         /\ \A n \in S : Cardinality({m \in S : m <= n}) \in 1..Cardinality(S)
         /\ \A n, l \in S : n < l => Cardinality({m \in S : m <= n}) < Cardinality({m \in S : m <= l})
         /\ \A k \in 1..Cardinality(S) : \E n \in S : Cardinality({m \in S : m <= n}) = k
<1> DEFINE UpTo(n) == {m \in S : m <= n}
           place == [n \in S |-> Cardinality(UpTo(n))]
           size == Cardinality(S)
<1>1. size \in Nat
  BY FS_CardinalityType
<1>2. \A n \in S : IsFiniteSet(UpTo(n)) /\ Cardinality(UpTo(n)) \in 1..size
  <2> TAKE n \in S
  <2>1. UpTo(n) \in SUBSET S /\ UpTo(n) # {}
    OBVIOUS
  <2> HIDE DEF UpTo
  <2>2. IsFiniteSet(UpTo(n)) /\ Cardinality(UpTo(n)) <= size
    BY <2>1, FS_Subset
  <2>3. Cardinality(UpTo(n)) \in Nat /\ Cardinality(UpTo(n)) # 0
    BY <2>1, <2>2, FS_CardinalityType, FS_EmptySet
  <2>4. QED
    BY <1>1, <2>2, <2>3
<1>3. ASSUME NEW n \in S, NEW l \in S, n < l
      PROVE  Cardinality(UpTo(n)) < Cardinality(UpTo(l))
  <2>1. UpTo(n) \in SUBSET UpTo(l) /\ UpTo(n) # UpTo(l)
    <3>1. l \in UpTo(l) /\ l \notin UpTo(n)
      BY <1>3
    <3>2. UpTo(n) \in SUBSET UpTo(l)
      <4>1. \A m \in S : m <= n => m <= l
        BY <1>3
      <4>2. QED
        BY <4>1, Zenon
    <3>3. QED
      BY <3>1, <3>2, Zenon
  <2> HIDE DEF UpTo
  <2>2. Cardinality(UpTo(n)) <= Cardinality(UpTo(l)) /\ Cardinality(UpTo(l)) # Cardinality(UpTo(n))
    BY <1>2, <2>1, FS_Subset
  <2>3. QED
    BY <1>1, <1>2, <2>2
<1>4. \A k \in 1..size : \E n \in S : Cardinality(UpTo(n)) = k
  <2> HIDE DEF UpTo
  <2>1. place \in [S -> 1..size]
    BY <1>2
  <2>2. \A n, l \in S : place[n] = place[l] => n = l
    <3> TAKE n, l \in S
    <3>1. n < l \/ l < n \/ n = l
      OBVIOUS
    <3>2. Cardinality(UpTo(n)) \in Nat /\ Cardinality(UpTo(l)) \in Nat
      BY <1>1, <1>2
    <3>3. QED
      BY <1>3, <3>1, <3>2
  <2>3. place \in Injection(S, 1..size)
    BY <2>1, <2>2 DEF Injection, IsInjective
  <2>4. IsFiniteSet(1..size) /\ Cardinality(1..size) = size
    BY <1>1, FS_Interval
  <2>5. place \in Surjection(S, 1..size)
    <3> HIDE DEF place
    <3>1. QED
      BY <2>3, <2>4, FS_Injection
  <2>6. QED
    BY <2>5 DEF Surjection
<1>5. QED
  BY <1>1, <1>2, <1>3, <1>4

LEMMA OrderedEnumerates ==
  ASSUME NEW S \in SUBSET Nat, IsFiniteSet(S)
  PROVE  /\ Cardinality(S) \in Nat
         /\ Ordered(S) \in [1..Cardinality(S) -> S]
         /\ \A j, k \in 1..Cardinality(S) : j < k => Ordered(S)[j] < Ordered(S)[k]
         /\ \A j, k \in 1..Cardinality(S) : Ordered(S)[j] = Ordered(S)[k] => j = k
         /\ \A n \in S : \E k \in 1..Cardinality(S) : Ordered(S)[k] = n
<1> DEFINE Place(n) == Cardinality({m \in S : m <= n})
           size == Cardinality(S)
           order == Ordered(S)
<1>1. /\ size \in Nat
      /\ \A n \in S : Place(n) \in 1..size
      /\ \A n, l \in S : n < l => Place(n) < Place(l)
      /\ \A k \in 1..size : \E n \in S : Place(n) = k
  BY PlacesAreTaken
<1>2. order = [k \in 1..size |-> CHOOSE n \in S : Place(n) = k]
  BY Zenon DEF Ordered
<1> HIDE DEF Place, size, order
<1>3. \A k \in 1..size : order[k] \in S /\ Place(order[k]) = k
  <2> TAKE k \in 1..size
  <2>1. \E n \in S : Place(n) = k
    BY <1>1
  <2>2. order[k] = CHOOSE n \in S : Place(n) = k
    BY <1>2
  <2>3. QED
    BY <2>1, <2>2, Zenon
<1>4. order \in [1..size -> S]
  BY <1>2, <1>3
<1>5. \A n, l \in S : Place(n) = Place(l) => n = l
  <2> TAKE n, l \in S
  <2>1. n < l \/ l < n \/ n = l
    OBVIOUS
  <2>2. Place(n) \in Nat /\ Place(l) \in Nat /\ (n < l => Place(n) < Place(l)) /\ (l < n => Place(l) < Place(n))
    BY <1>1
  <2>3. QED
    BY <2>1, <2>2
<1>6. \A n \in S : order[Place(n)] = n
  BY <1>1, <1>3, <1>5
<1>7. \A j, k \in 1..size : j < k => order[j] < order[k]
  <2> SUFFICES ASSUME NEW j \in 1..size, NEW k \in 1..size, j < k
               PROVE  order[j] < order[k]
    OBVIOUS
  <2>1. order[j] \in S /\ order[k] \in S /\ Place(order[j]) = j /\ Place(order[k]) = k
    BY <1>3
  <2>2. order[k] < order[j] => Place(order[k]) < Place(order[j])
    BY <1>1, <2>1
  <2>3. j \in Nat /\ k \in Nat /\ ~(k < j) /\ k # j
    BY <1>1
  <2>4. order[k] # order[j] /\ ~(order[k] < order[j])
    BY <2>1, <2>2, <2>3, Zenon
  <2>5. order[k] \in Nat /\ order[j] \in Nat
    BY <2>1
  <2>6. QED
    BY <2>4, <2>5
<1>8. \A j, k \in 1..size : order[j] = order[k] => j = k
  BY <1>3, Zenon
<1>9. \A n \in S : \E k \in 1..size : order[k] = n
  BY <1>1, <1>6, Zenon
<1>10. QED
  BY <1>1, <1>4, <1>7, <1>8, <1>9, Zenon DEF size, order

(* A sequence t has what s has at the positions of S, one after the other. *)
Selects(t, s, S) ==
  \E o \in [DOMAIN t -> S] :
    /\ \A k \in DOMAIN t : t[k] = s[o[k]]
    /\ \A j, k \in DOMAIN t : o[j] = o[k] => j = k
    /\ \A n \in S : \E k \in DOMAIN t : o[k] = n

LEMMA AtSelects ==
  ASSUME NEW X, NEW s \in Seq(X), NEW S \in SUBSET DOMAIN s
  PROVE  At(s, S) \in Seq(X) /\ Selects(At(s, S), s, S)
<1> DEFINE size == Cardinality(S)
           o == Ordered(S)
           t == At(s, S)
<1>1. DOMAIN s = 1..Len(s) /\ Len(s) \in Nat
  OBVIOUS
<1>2. IsFiniteSet(1..Len(s)) /\ S \in SUBSET (1..Len(s))
  BY <1>1, FS_Interval
<1>3. IsFiniteSet(S)
  BY <1>2, FS_Subset, Zenon
<1>4. S \in SUBSET Nat
  BY <1>1
<1>5. /\ size \in Nat /\ o \in [1..size -> S]
      /\ \A j, k \in 1..size : o[j] = o[k] => j = k
      /\ \A n \in S : \E k \in 1..size : o[k] = n
  BY <1>3, <1>4, OrderedEnumerates, Zenon
<1>6. t = [k \in 1..size |-> s[o[k]]]
  BY Zenon DEF At
<1> HIDE DEF o, size, t
<1>7. \A k \in 1..size : s[o[k]] \in X
  BY <1>5
<1>8. t \in [1..size -> X]
  BY <1>6, <1>7
<1>9. t \in Seq(X)
  BY <1>5, <1>8
<1>10. DOMAIN t = 1..size /\ \A k \in 1..size : t[k] = s[o[k]]
  BY <1>6, Zenon
<1>11. /\ o \in [DOMAIN t -> S]
       /\ \A k \in DOMAIN t : t[k] = s[o[k]]
       /\ \A j, k \in DOMAIN t : o[j] = o[k] => j = k
       /\ \A n \in S : \E k \in DOMAIN t : o[k] = n
  BY <1>5, <1>10
<1>12. Selects(t, s, S)
  BY <1>11, Zenon DEF Selects
<1>13. QED
  BY <1>9, <1>12, Zenon DEF t

(* All positions of a sequence are the sequence.                           *)
LEMMA AtAll ==
  ASSUME NEW X, NEW s \in Seq(X)
  PROVE  At(s, DOMAIN s) = s
<1> DEFINE n == Len(s)
           S == DOMAIN s
           t == At(s, S)
<1>1. S = 1..n /\ n \in Nat
  OBVIOUS
<1>2. Cardinality(S) = n
  <2>1. n \in Int /\ 1 \in Int
    BY <1>1
  <2>2. Cardinality(1..n) = IF 1 > n THEN 0 ELSE n-1+1
    BY <2>1, FS_Interval, Zenon
  <2> HIDE DEF n, S
  <2>3. Cardinality(1..n) = n
    BY <2>2, <1>1
  <2>4. QED
    BY <2>3, <1>1
<1>3. ASSUME NEW m \in 1..n
      PROVE  Cardinality({j \in S : j <= m}) = m
  <2>1. m \in Int /\ 1 \in Int /\ m >= 1
    BY <1>1
  <2>2. Cardinality(1..m) = IF 1 > m THEN 0 ELSE m-1+1
    BY <2>1, FS_Interval, Zenon
  <2>3. {j \in S : j <= m} = 1..m
    BY <1>1
  <2> HIDE DEF S, n
  <2>4. Cardinality(1..m) = m
    BY <2>1, <2>2
  <2>5. QED
    BY <2>3, <2>4
<1>4. Ordered(S) = [k \in 1..n |-> CHOOSE m \in S : Cardinality({j \in S : j <= m}) = k]
  BY <1>2, Zenon DEF Ordered
<1>5. ASSUME NEW k \in 1..n
      PROVE  Ordered(S)[k] = k
  <2>1. Ordered(S)[k] = CHOOSE m \in S : Cardinality({j \in S : j <= m}) = k
    BY <1>4, Zenon
  <2> HIDE DEF n
  <2>2. \A m \in S : Cardinality({j \in S : j <= m}) = k <=> m = k
    BY <1>1, <1>3
  <2>3. k \in S
    BY <1>1
  <2> DEFINE P(m) == Cardinality({j \in S : j <= m}) = k
  <2> HIDE DEF S, P
  <2>4. \A m \in S : P(m) <=> m = k
    BY <2>2, Zenon DEF P
  <2>5. (CHOOSE m \in S : P(m)) = k
    BY <2>3, <2>4
  <2>6. QED
    BY <2>1, <2>5, Zenon DEF P
<1>6. t = [k \in 1..n |-> s[Ordered(S)[k]]]
  BY <1>2, Zenon DEF At
<1>7. DOMAIN t = 1..n
  BY <1>6, Zenon
<1>8. \A k \in 1..n : t[k] = s[k]
  BY <1>5, <1>6, Zenon
<1>9. s = [k \in 1..n |-> s[k]]
  BY <1>1
<1>10. t = [k \in 1..n |-> s[k]]
  BY <1>6, <1>5, Zenon
<1>11. QED
  BY <1>9, <1>10, Zenon

-----------------------------------------------------------------------------
(* The canvas *)

(* A canvas in parts: its steps N and its edges E.                         *)
Ids == Names \cup {"n1", "n2", "n3", "start"}
AStep == [id : Ids, type : NodeTypes, complete : SUBSET Readers]
AnEdge == [source : Ids, target : Ids, handle : Handles, exact : {TRUE}]

LeavesBy(handle, type) == handle \in StepOutputs(type) \/ (handle = "" /\ StepOutputs(type) = {})
From(N, e) == \E i \in DOMAIN N : N[i].id = e.source /\ LeavesBy(e.handle, N[i].type)
To(N, e) == \E i \in DOMAIN N : N[i].id = e.target /\ ~IsStart(N[i])
Joins(N, e) == From(N, e) /\ To(N, e)
Distinct(N) == \A i, j \in DOMAIN N : N[i].id = N[j].id => i = j
OneStart(N) == \E i \in DOMAIN N : \A j \in DOMAIN N : IsStart(N[j]) <=> j = i
OneEach(E) == \A k, j \in DOMAIN E :
                E[j].source = E[k].source /\ E[j].handle = E[k].handle => j = k

Drawing(N, E) ==
  /\ N \in Seq(AStep) /\ Distinct(N) /\ OneStart(N)
  /\ E \in Seq(AnEdge) /\ OneEach(E) /\ \A k \in DOMAIN E : Joins(N, E[k])

Drawn(c) == Drawing(c.nodes, c.edges)

LEMMA WellDrawnParts ==
  ASSUME NEW c, c.nodes \in Seq(AStep), c.edges \in Seq(AnEdge), WellDrawn(c)
  PROVE  Drawn(c)
<1>1. Distinct(c.nodes) /\ OneStart(c.nodes)
  BY Zenon DEF WellDrawn, Distinct, OneStart
<1>2. OneEach(c.edges)
  BY Zenon DEF WellDrawn, OneEach
<1>3. \A k \in DOMAIN c.edges : From(c.nodes, c.edges[k])
  BY Zenon DEF WellDrawn, From, LeavesBy
<1>4. \A k \in DOMAIN c.edges : To(c.nodes, c.edges[k])
  BY Zenon DEF WellDrawn, To
<1>5. QED
  BY <1>1, <1>2, <1>3, <1>4, Zenon DEF Drawing, Drawn, Joins

(* The catalogue of the browser and that of the engine agree.              *)
LEMMA CataloguesAgree ==
  /\ DOMAIN NODE_SPECS = NodeTypes
  /\ \A type \in NodeTypes :
       /\ NODE_SPECS[type].outputs = NodeHandles[type]
       /\ NODE_SPECS[type].ready \in BOOLEAN
       /\ NODE_SPECS[type].offered => type # "trigger"
       /\ NodeHandles[type] \in Seq(Handles \ {""})
<1> DEFINE H == {"next", "reply", "timeout", "true", "false", "error", "done", "handoff"}
           L == {<<"next">>, <<"reply", "timeout">>, <<"true", "false">>, <<"next", "error">>,
                 <<"done", "handoff">>, <<>>}
<1>1. DOMAIN NODE_SPECS = NodeTypes
  BY DEF NODE_SPECS, NodeTypes
<1>2. \A type \in NodeTypes : NODE_SPECS[type].outputs = NodeHandles[type]
  BY SMTT(30) DEF NODE_SPECS, NodeTypes, NodeHandles
<1>3. \A type \in NodeTypes : NODE_SPECS[type].ready = TRUE \/ NODE_SPECS[type].ready = FALSE
  BY SMTT(30) DEF NODE_SPECS, NodeTypes
<1>4. \A type \in NodeTypes : NODE_SPECS[type].ready \in BOOLEAN
  BY <1>3, Zenon
<1>5. ~NODE_SPECS["trigger"].offered
  BY Zenon DEF NODE_SPECS
<1>6. \A type \in NodeTypes : NodeHandles[type] \in L
  BY DEF NodeHandles, NodeTypes
<1>7. L \in SUBSET Seq(H)
  OBVIOUS
<1>8. H = Handles \ {""}
  BY DEF Handles
<1> HIDE DEF H, L
<1>9. QED
  BY <1>1, <1>2, <1>4, <1>5, <1>6, <1>7, <1>8, Zenon

LEMMA OutputsAreHandles ==
  ASSUME NEW type \in NodeTypes
  PROVE  /\ StepOutputs(type) \in SUBSET (Handles \ {""})
         /\ StepOutputs(type) = {} => DefaultHandle(type) = "" /\ FirstOutput(type) = ""
         /\ FirstOutput(type) \in Handles
         /\ StepOutputs(type) # {} => FirstOutput(type) \in StepOutputs(type)
<1> DEFINE outs == NodeHandles[type]
<1>1. outs \in Seq(Handles \ {""})
  BY CataloguesAgree
<1>2. FirstOutput(type) = IF outs = <<>> THEN "" ELSE outs[1]
  BY CataloguesAgree, Zenon DEF FirstOutput
<1>3. DefaultHandle(type) = IF outs = <<>> THEN "" ELSE outs[1]
  BY Zenon DEF DefaultHandle
<1>4. StepOutputs(type) = {outs[i] : i \in DOMAIN outs}
  BY CataloguesAgree, Zenon DEF StepOutputs
<1>5. "" \in Handles
  BY DEF Handles
<1> DEFINE H == Handles \ {""}
<1> HIDE DEF outs, H
<1>6. \A i \in DOMAIN outs : outs[i] \in H
  <2>1. outs \in Seq(H)
    BY <1>1 DEF H
  <2>2. QED
    BY <2>1
<1>7. outs # <<>> => 1 \in DOMAIN outs
  <2>1. outs \in Seq(H)
    BY <1>1 DEF H
  <2>2. QED
    BY <2>1
<1>8. outs = <<>> => StepOutputs(type) = {}
  BY <1>4
<1>9. QED
  BY <1>2, <1>3, <1>4, <1>5, <1>6, <1>7, <1>8 DEF H

LEMMA StepOfFinds ==
  ASSUME NEW c, c.nodes \in Seq(AStep), NEW id \in CanvasIds(c)
  PROVE  \E i \in DOMAIN c.nodes : StepOf(c, id) = c.nodes[i] /\ c.nodes[i].id = id
<1> DEFINE S == {i \in DOMAIN c.nodes : c.nodes[i].id = id}
<1>1. \E i \in DOMAIN c.nodes : c.nodes[i].id = id
  BY Zenon DEF CanvasIds
<1>2. S # {}
  BY <1>1
<1>3. DOMAIN c.nodes \in SUBSET (Nat \ {0})
  OBVIOUS
<1>4. S \in SUBSET (Nat \ {0})
  BY <1>3
<1>5. StepOf(c, id) = c.nodes[FirstOf(S)]
  BY Zenon DEF StepOf
<1> HIDE DEF S
<1>6. FirstOf(S) \in S
  BY <1>2, <1>4, FirstOfIsFirst, Zenon
<1>7. FirstOf(S) \in DOMAIN c.nodes /\ c.nodes[FirstOf(S)].id = id
  BY <1>6 DEF S
<1>8. QED
  BY <1>5, <1>7, Zenon

-----------------------------------------------------------------------------
(* What an edit makes of a drawing is a drawing *)

(* A step is added that nothing mentions yet.                              *)
LEMMA StepAdded ==
  ASSUME NEW N, NEW E, Drawing(N, E), NEW s \in AStep,
         ~IsStart(s), \A i \in DOMAIN N : N[i].id # s.id
  PROVE  Drawing(Append(N, s), E)
<1> DEFINE M == Append(N, s)
<1>1. N \in Seq(AStep)
  BY Zenon DEF Drawing
<1>2. /\ M \in Seq(AStep) /\ Len(N) \in Nat
      /\ DOMAIN N = 1..Len(N) /\ DOMAIN M = 1..(Len(N) + 1)
      /\ \A i \in DOMAIN N : M[i] = N[i]
      /\ M[Len(N) + 1] = s
  BY <1>1
<1> HIDE DEF M
<1>3. \A i \in DOMAIN M : i \in DOMAIN N \/ (i \notin DOMAIN N /\ i = Len(N) + 1)
  BY <1>2
<1>4. \A i \in DOMAIN N : i \in DOMAIN M
  BY <1>2
<1>5. Distinct(M)
  <2>1. Distinct(N)
    BY Zenon DEF Drawing
  <2>2. QED
    BY <2>1, <1>2, <1>3 DEF Distinct
<1>6. OneStart(M)
  <2>1. OneStart(N)
    BY Zenon DEF Drawing
  <2>2. QED
    BY <2>1, <1>2, <1>3, <1>4 DEF OneStart
<1>7. ASSUME NEW k \in DOMAIN E
      PROVE  Joins(M, E[k])
  <2>1. From(N, E[k]) /\ To(N, E[k])
    BY Zenon DEF Drawing, Joins
  <2>2. From(M, E[k])
    BY <2>1, <1>2, <1>4 DEF From
  <2>3. To(M, E[k])
    BY <2>1, <1>2, <1>4 DEF To
  <2>4. QED
    BY <2>2, <2>3 DEF Joins
<1>8. E \in Seq(AnEdge) /\ OneEach(E)
  BY Zenon DEF Drawing
<1>9. QED
  BY <1>2, <1>5, <1>6, <1>7, <1>8, Zenon DEF Drawing, M

(* An edge is added by an output no edge leaves by.                        *)
LEMMA EdgeAdded ==
  ASSUME NEW N, NEW E, Drawing(N, E), NEW e \in AnEdge, Joins(N, e),
         \A k \in DOMAIN E : E[k].source = e.source /\ E[k].handle = e.handle => FALSE
  PROVE  Drawing(N, Append(E, e))
<1> DEFINE F == Append(E, e)
<1>1. E \in Seq(AnEdge) /\ OneEach(E) /\ \A k \in DOMAIN E : Joins(N, E[k])
  BY Zenon DEF Drawing
<1>2. /\ F \in Seq(AnEdge) /\ Len(E) \in Nat
      /\ DOMAIN E = 1..Len(E) /\ DOMAIN F = 1..(Len(E) + 1)
      /\ \A i \in DOMAIN E : F[i] = E[i]
      /\ F[Len(E) + 1] = e
  BY <1>1
<1> HIDE DEF F
<1>3. \A i \in DOMAIN F : i \in DOMAIN E \/ (i \notin DOMAIN E /\ i = Len(E) + 1)
  BY <1>2
<1>4. OneEach(F)
  BY <1>1, <1>2, <1>3 DEF OneEach
<1>5. \A k \in DOMAIN F : Joins(N, F[k])
  BY <1>1, <1>2, <1>3
<1>6. N \in Seq(AStep) /\ Distinct(N) /\ OneStart(N)
  BY Zenon DEF Drawing
<1>7. QED
  BY <1>2, <1>4, <1>5, <1>6, Zenon DEF Drawing, F

(* Some of the edges are kept.                                             *)
Among(F, E, S) == \A k \in DOMAIN F : \E n \in S : F[k] = E[n]

LEMMA EdgesKept ==
  ASSUME NEW N, NEW E, Drawing(N, E), NEW S \in SUBSET DOMAIN E
  PROVE  Drawing(N, At(E, S)) /\ Among(At(E, S), E, S)
<1> DEFINE F == At(E, S)
<1>1. E \in Seq(AnEdge) /\ OneEach(E) /\ \A k \in DOMAIN E : Joins(N, E[k])
  BY Zenon DEF Drawing
<1>2. F \in Seq(AnEdge) /\ Selects(F, E, S)
  BY <1>1, AtSelects, Zenon
<1> HIDE DEF F
<1>3. PICK o \in [DOMAIN F -> S] :
          /\ \A k \in DOMAIN F : F[k] = E[o[k]]
          /\ \A j, k \in DOMAIN F : o[j] = o[k] => j = k
  BY <1>2, Zenon DEF Selects
<1>4. \A k \in DOMAIN F : o[k] \in S /\ o[k] \in DOMAIN E
  BY <1>3
<1>5. OneEach(F)
  BY <1>1, <1>3, <1>4 DEF OneEach
<1>6. (\A k \in DOMAIN F : Joins(N, F[k])) /\ Among(F, E, S)
  BY <1>1, <1>3, <1>4 DEF Among
<1>7. N \in Seq(AStep) /\ Distinct(N) /\ OneStart(N)
  BY Zenon DEF Drawing
<1>8. QED
  BY <1>2, <1>5, <1>6, <1>7, Zenon DEF Drawing, F

(* Some of the steps are kept: the start, and all that an edge mentions.   *)
LEMMA StepsKept ==
  ASSUME NEW N, NEW E, Drawing(N, E), NEW S \in SUBSET DOMAIN N,
         \A i \in DOMAIN N : IsStart(N[i]) => i \in S,
         \A i \in DOMAIN N, k \in DOMAIN E : N[i].id \in {E[k].source, E[k].target} => i \in S
  PROVE  Drawing(At(N, S), E)
<1> DEFINE M == At(N, S)
<1>1. N \in Seq(AStep) /\ Distinct(N) /\ OneStart(N) /\ \A k \in DOMAIN E : Joins(N, E[k])
  BY Zenon DEF Drawing
<1>2. M \in Seq(AStep) /\ Selects(M, N, S)
  BY <1>1, AtSelects, Zenon
<1> HIDE DEF M
<1>3. PICK o \in [DOMAIN M -> S] :
          /\ \A k \in DOMAIN M : M[k] = N[o[k]]
          /\ \A j, k \in DOMAIN M : o[j] = o[k] => j = k
          /\ \A n \in S : \E k \in DOMAIN M : o[k] = n
  BY <1>2, Zenon DEF Selects
<1>4. \A k \in DOMAIN M : o[k] \in S /\ o[k] \in DOMAIN N
  BY <1>3
<1>5. Distinct(M)
  BY <1>1, <1>3, <1>4 DEF Distinct
<1>6. OneStart(M)
  <2>1. PICK i \in DOMAIN N : \A j \in DOMAIN N : IsStart(N[j]) <=> j = i
    BY <1>1 DEF OneStart
  <2>2. i \in S
    BY <2>1
  <2>3. PICK k \in DOMAIN M : o[k] = i
    BY <2>2, <1>3
  <2>4. \A j \in DOMAIN M : IsStart(M[j]) <=> j = k
    BY <2>1, <2>3, <1>3, <1>4
  <2>5. QED
    BY <2>4 DEF OneStart
<1>7. \A n \in S : \E k \in DOMAIN M : M[k] = N[n]
  BY <1>3
<1>8. ASSUME NEW k \in DOMAIN E
      PROVE  Joins(M, E[k])
  <2>1. From(N, E[k]) /\ To(N, E[k])
    BY <1>1, Zenon DEF Joins
  <2>2. \A i \in DOMAIN N : N[i].id = E[k].source \/ N[i].id = E[k].target => i \in S
    OBVIOUS
  <2>3. From(M, E[k])
    BY <2>1, <2>2, <1>7 DEF From
  <2>4. To(M, E[k])
    BY <2>1, <2>2, <1>7 DEF To
  <2>5. QED
    BY <2>3, <2>4 DEF Joins
<1>9. E \in Seq(AnEdge) /\ OneEach(E)
  BY Zenon DEF Drawing
<1>10. QED
  BY <1>2, <1>5, <1>6, <1>8, <1>9, Zenon DEF Drawing, M

(* Steps change in what they are set to do.                                *)
LEMMA StepsFilled ==
  ASSUME NEW N, NEW E, Drawing(N, E), NEW M \in Seq(AStep), DOMAIN M = DOMAIN N,
         \A i \in DOMAIN N : M[i].id = N[i].id /\ M[i].type = N[i].type
  PROVE  Drawing(M, E)
<1>1. Distinct(N) /\ OneStart(N) /\ \A k \in DOMAIN E : Joins(N, E[k])
  BY Zenon DEF Drawing
<1>2. Distinct(M)
  BY <1>1 DEF Distinct
<1>3. OneStart(M)
  BY <1>1 DEF OneStart, IsStart
<1>4. ASSUME NEW k \in DOMAIN E
      PROVE  Joins(M, E[k])
  <2>1. From(N, E[k]) /\ To(N, E[k])
    BY <1>1, Zenon DEF Joins
  <2>2. From(M, E[k])
    BY <2>1 DEF From
  <2>3. To(M, E[k])
    BY <2>1 DEF To, IsStart
  <2>4. QED
    BY <2>2, <2>3 DEF Joins
<1>5. E \in Seq(AnEdge) /\ OneEach(E)
  BY Zenon DEF Drawing
<1>6. QED
  BY <1>2, <1>3, <1>4, <1>5, Zenon DEF Drawing

-----------------------------------------------------------------------------
(* What is drawn is what is saved *)

(* A drawing has one step for an identifier, and an edge carries the       *)
(* handle it leaves by.                                                    *)
LEMMA StepsAreNamed ==
  ASSUME NEW N, NEW E, Drawing(N, E), NEW k \in DOMAIN E,
         NEW i \in DOMAIN N, N[i].id = E[k].source
  PROVE  /\ LeavesBy(E[k].handle, N[i].type)
         /\ FirstOf({j \in DOMAIN N : N[j].id = E[k].source}) = i
<1> DEFINE S == {j \in DOMAIN N : N[j].id = E[k].source}
<1>1. N \in Seq(AStep) /\ Distinct(N) /\ From(N, E[k])
  BY Zenon DEF Drawing, Joins
<1>2. \A j \in DOMAIN N : N[j].id = E[k].source => j = i
  BY <1>1, Zenon DEF Distinct
<1>3. LeavesBy(E[k].handle, N[i].type)
  BY <1>1, <1>2 DEF From
<1>4. S = {i}
  BY <1>2
<1>5. DOMAIN N \in SUBSET (Nat \ {0})
  BY <1>1
<1>6. S \in SUBSET (Nat \ {0}) /\ S # {}
  BY <1>4, <1>5
<1> HIDE DEF S
<1>7. FirstOf(S) \in S
  BY <1>6, FirstOfIsFirst, Zenon
<1>8. FirstOf(S) = i
  BY <1>4, <1>7
<1>9. QED
  BY <1>3, <1>8, Zenon DEF S

(* The engine reads a drawing as it is drawn; nothing leads to the start.  *)
StartsAlone(N, E) ==
  \E i \in DOMAIN N : /\ \A j \in DOMAIN N : IsStart(N[j]) <=> j = i
                      /\ \A k \in DOMAIN E : E[k].target # N[i].id

LEMMA DrawingIsLegible ==
  ASSUME NEW N, NEW E, NEW t, Drawing(N, E)
  PROVE  Legible([nodes |-> N, edges |-> E, trigger |-> t]) /\ StartsAlone(N, E)
<1> DEFINE def == [nodes |-> N, edges |-> E, trigger |-> t]
           names == {N[i].id : i \in DOMAIN N}
           Type(e) == N[FindNode(def, e.source)].type
           Out(e) == IF e.handle = "" THEN DefaultHandle(Type(e)) ELSE e.handle
<1>1. N \in Seq(AStep) /\ Distinct(N) /\ OneStart(N) /\ OneEach(E)
  BY Zenon DEF Drawing
<1>2. def.nodes = N /\ def.edges = E
  BY Zenon
<1>3. NodeIds(def) = names
  BY <1>2, Zenon DEF NodeIds
<1>4. \A k \in DOMAIN E : From(N, E[k]) /\ To(N, E[k])
  BY Zenon DEF Drawing, Joins
<1>5. \A i \in DOMAIN N : N[i].type \in NodeTypes
  <2>1. \A s \in AStep : s.type \in NodeTypes
    BY Zenon DEF AStep
  <2>2. N \in Seq(AStep)
    BY <1>1
  <2>3. \A i \in DOMAIN N : N[i] \in AStep
    BY <2>2
  <2>4. QED
    BY <2>1, <2>3, Zenon
<1>6. Cardinality(names) = Len(N)
  <2> DEFINE f == [i \in 1..Len(N) |-> N[i].id]
  <2>1. DOMAIN N = 1..Len(N) /\ Len(N) \in Nat
    BY <1>1
  <2>2. f \in [1..Len(N) -> names]
    BY <2>1
  <2>3. \A a, b \in 1..Len(N) : f[a] = f[b] => a = b
    BY <1>1, <2>1, Zenon DEF Distinct
  <2>4. \A n \in names : \E i \in 1..Len(N) : f[i] = n
    BY <2>1, Zenon
  <2> HIDE DEF f, names
  <2>5. f \in Bijection(1..Len(N), names)
    BY <2>2, <2>3, <2>4, Fun_IsBij, Zenon
  <2>6. ExistsBijection(1..Len(N), names)
    BY <2>5 DEF ExistsBijection
  <2>7. IsFiniteSet(1..Len(N)) /\ Cardinality(1..Len(N)) = Len(N)
    <3>1. Len(N) \in Int /\ 1 \in Int
      BY <2>1
    <3>2. IsFiniteSet(1..Len(N)) /\ Cardinality(1..Len(N)) = IF 1 > Len(N) THEN 0 ELSE Len(N)-1+1
      BY <3>1, FS_Interval, Zenon
    <3>3. QED
      BY <3>2, <2>1
  <2>8. QED
    BY <2>6, <2>7, FS_Bijection, Zenon
<1>7. ASSUME NEW k \in DOMAIN E
      PROVE  /\ {E[k].source, E[k].target} \subseteq names
             /\ Out(E[k]) \in StepOutputs(Type(E[k])) \cup {""}
             /\ Out(E[k]) = E[k].handle
  <2>1. PICK i \in DOMAIN N : N[i].id = E[k].source
    BY <1>4, Zenon DEF From
  <2>2. LeavesBy(E[k].handle, N[i].type) /\ FirstOf({j \in DOMAIN N : N[j].id = E[k].source}) = i
    BY <2>1, StepsAreNamed, Zenon
  <2>3. FindNode(def, E[k].source) = i
    BY <1>2, <2>2, Zenon DEF FindNode
  <2>4. Type(E[k]) = N[i].type /\ N[i].type \in NodeTypes
    BY <2>3, <1>5, Zenon
  <2>5. PICK j \in DOMAIN N : N[j].id = E[k].target
    BY <1>4, Zenon DEF To
  <2>6. {E[k].source, E[k].target} \subseteq names
    BY <2>1, <2>5
  <2> DEFINE type == N[i].type
             handle == E[k].handle
             outs == StepOutputs(type)
  <2>7. /\ outs \in SUBSET (Handles \ {""})
        /\ outs = {} => DefaultHandle(type) = ""
    BY <2>4, OutputsAreHandles, Zenon
  <2>8. handle \in outs \/ (handle = "" /\ outs = {})
    BY <2>2, Zenon DEF LeavesBy
  <2>9. Out(E[k]) = IF handle = "" THEN DefaultHandle(type) ELSE handle
    BY <2>4, Zenon
  <2>10. StepOutputs(Type(E[k])) = outs
    BY <2>4, Zenon
  <2> HIDE DEF outs, handle, type, Out, Type
  <2>11. Out(E[k]) = handle /\ Out(E[k]) \in outs \cup {""}
    BY <2>7, <2>8, <2>9
  <2>12. QED
    BY <2>6, <2>10, <2>11, Zenon DEF handle
<1>8. \A k, j \in DOMAIN E : E[j].source = E[k].source /\ Out(E[j]) = Out(E[k]) => j = k
  <2> HIDE DEF Out
  <2>1. \A k \in DOMAIN E : Out(E[k]) = E[k].handle
    BY <1>7
  <2>2. ASSUME NEW k \in DOMAIN E, NEW j \in DOMAIN E, E[j].source = E[k].source, Out(E[j]) = Out(E[k])
        PROVE  j = k
    <3>1. E[j].handle = E[k].handle
      BY <2>1, <2>2
    <3>2. QED
      BY <1>1, <2>2, <3>1, Zenon DEF OneEach
  <2>3. QED
    BY <2>2
<1>9. Legible(def)
  <2> HIDE DEF names, Out
  <2>1. /\ Cardinality(NodeIds(def)) = Len(def.nodes)
        /\ \A i \in DOMAIN def.nodes : def.nodes[i].type \in NodeTypes
    BY <1>2, <1>3, <1>5, <1>6
  <2>2. /\ \A k \in DOMAIN def.edges : {def.edges[k].source, def.edges[k].target} \subseteq NodeIds(def)
    BY <1>2, <1>3, <1>7
  <2>3. \A k \in DOMAIN def.edges :
          Out(def.edges[k]) \in StepOutputs(def.nodes[FindNode(def, def.edges[k].source)].type) \cup {""}
    BY <1>2, <1>7
  <2>4. \A k, j \in DOMAIN def.edges :
          def.edges[j].source = def.edges[k].source /\ Out(def.edges[j]) = Out(def.edges[k]) => j = k
    BY <1>2, <1>8
  <2>5. \A e : Out(e) = LET type == def.nodes[FindNode(def, e.source)].type
                        IN IF e.handle = "" THEN DefaultHandle(type) ELSE e.handle
    BY <1>2, Zenon DEF Out
  <2> HIDE DEF def
  <2>6. QED
    BY <2>1, <2>2, <2>3, <2>4, <2>5, Zenon DEF Legible
<1>10. StartsAlone(N, E)
  <2>1. PICK i \in DOMAIN N : \A j \in DOMAIN N : IsStart(N[j]) <=> j = i
    BY <1>1, Zenon DEF OneStart
  <2>2. ASSUME NEW k \in DOMAIN E, E[k].target = N[i].id
        PROVE  FALSE
    <3>1. PICK j \in DOMAIN N : N[j].id = E[k].target /\ ~IsStart(N[j])
      BY <1>4, Zenon DEF To
    <3>2. j = i
      BY <1>1, <2>2, <3>1, Zenon DEF Distinct
    <3>3. QED
      BY <2>1, <3>1, <3>2, Zenon
  <2>3. QED
    BY <2>1, <2>2, Zenon DEF StartsAlone
<1>11. QED
  BY <1>9, <1>10, Zenon

LEMMA CanvasTypes ==
  /\ \A type : CanvasType(type) \in NodeTypes
  /\ \A type \in NodeTypes : CanvasType(type) = type
<1>1. "send_message" \in NodeTypes
  BY DEF NodeTypes
<1>2. \A type : CanvasType(type) \in NodeTypes
  <2>1. \A type : \E today : CanvasType(type) = IF today \in DOMAIN NODE_SPECS THEN today ELSE "send_message"
    BY Zenon DEF CanvasType
  <2>2. QED
    BY <1>1, <2>1, CataloguesAgree
<1>3. \A type \in NodeTypes : type \notin DOMAIN LEGACY_TYPES
  BY DEF NodeTypes, LEGACY_TYPES
<1>4. \A type \in NodeTypes : CanvasType(type) = type
  BY <1>3, CataloguesAgree, Zenon DEF CanvasType
<1>5. QED
  BY <1>2, <1>4

(* A drawing that is saved and opened again is the same drawing.           *)
LEMMA SavedIsDrawnAgain ==
  ASSUME NEW N, NEW E, NEW t, Drawing(N, E)
  PROVE  ToCanvas(ToDefinition([nodes |-> N, edges |-> E], t), "start") = [nodes |-> N, edges |-> E]
<1> DEFINE def == [nodes |-> N, edges |-> E, trigger |-> t]
           nodes == [i \in DOMAIN def.nodes |-> [def.nodes[i] EXCEPT !.type = CanvasType(@)]]
           drawn == [nodes |-> nodes, edges |-> <<>>]
           ids == CanvasIds(drawn)
           kept == At(def.edges, {k \in DOMAIN def.edges :
                                    {def.edges[k].source, def.edges[k].target} \subseteq ids})
           Handle(e) == LET type == StepOf(drawn, e.source).type
                        IN IF e.exact /\ e.handle \in StepOutputs(type) THEN e.handle ELSE FirstOutput(type)
           edges == [k \in DOMAIN kept |-> [kept[k] EXCEPT !.handle = Handle(kept[k]), !.exact = TRUE]]
<1>1. N \in Seq(AStep) /\ E \in Seq(AnEdge) /\ OneStart(N)
  BY Zenon DEF Drawing
<1>2. \A k \in DOMAIN E : From(N, E[k]) /\ To(N, E[k])
  BY Zenon DEF Drawing, Joins
<1>3. \A i \in DOMAIN N : N[i] \in AStep
  BY <1>1
<1>4. \A k \in DOMAIN E : E[k] \in AnEdge
  BY <1>1
<1>5. def.nodes = N /\ def.edges = E
  BY Zenon
<1>6. nodes = N
  <2>1. \A s \in AStep : [s EXCEPT !.type = CanvasType(@)] = s
    <3>1. ASSUME NEW s \in AStep
          PROVE  [s EXCEPT !.type = CanvasType(s.type)] = s
      <4>1. s.type \in NodeTypes
        BY Zenon DEF AStep
      <4>2. CanvasType(s.type) = s.type
        BY <4>1, CanvasTypes, Zenon
      <4>3. [s EXCEPT !.type = s.type] = s
        BY DEF AStep
      <4>4. QED
        BY <4>2, <4>3, Zenon
    <3>2. QED
      BY <3>1
  <2>2. nodes = [i \in DOMAIN N |-> [N[i] EXCEPT !.type = CanvasType(@)]]
    BY <1>5, Zenon
  <2>3. nodes = [i \in DOMAIN N |-> N[i]]
    BY <1>3, <2>1, <2>2, Zenon
  <2>4. N = [i \in DOMAIN N |-> N[i]]
    BY <1>1
  <2>5. QED
    BY <2>3, <2>4, Zenon
<1> HIDE DEF nodes
<1>7. drawn.nodes = N
  BY <1>6, Zenon
<1>8. \A k \in DOMAIN E : {E[k].source, E[k].target} \subseteq ids
  <2>1. ids = {N[i].id : i \in DOMAIN N}
    BY <1>7, Zenon DEF CanvasIds
  <2> HIDE DEF ids
  <2>2. QED
    BY <1>2, <2>1 DEF From, To
<1>9. kept = E
  <2> DEFINE S == {k \in DOMAIN E : {E[k].source, E[k].target} \subseteq ids}
  <2>1. S = DOMAIN E
    <3> HIDE DEF ids
    <3>1. QED
      BY <1>8
  <2>2. kept = At(E, S)
    BY <1>5, Zenon
  <2>3. QED
    BY <1>1, <2>1, <2>2, AtAll, Zenon
<1> HIDE DEF kept
<1>10. ASSUME NEW k \in DOMAIN E
       PROVE  Handle(E[k]) = E[k].handle
  <2>1. PICK i \in DOMAIN N : N[i].id = E[k].source
    BY <1>2, Zenon DEF From
  <2>2. LeavesBy(E[k].handle, N[i].type) /\ FirstOf({j \in DOMAIN N : N[j].id = E[k].source}) = i
    BY <2>1, StepsAreNamed, Zenon
  <2>3. StepOf(drawn, E[k].source) = N[i]
    BY <1>7, <2>2, Zenon DEF StepOf
  <2> DEFINE type == N[i].type
             handle == E[k].handle
  <2>4. Handle(E[k]) = IF E[k].exact /\ handle \in StepOutputs(type) THEN handle ELSE FirstOutput(type)
    BY <2>3, Zenon
  <2>5. type \in NodeTypes
    BY <1>3, Zenon DEF AStep
  <2>6. StepOutputs(type) = {} => FirstOutput(type) = ""
    BY <2>5, OutputsAreHandles, Zenon
  <2>7. E[k].exact
    BY <1>4 DEF AnEdge
  <2>8. QED
    BY <2>2, <2>4, <2>6, <2>7, Zenon DEF LeavesBy
<1>11. edges = E
  <2> HIDE DEF Handle
  <2>1. edges = [k \in DOMAIN E |-> [E[k] EXCEPT !.handle = Handle(E[k]), !.exact = TRUE]]
    BY <1>9, Zenon
  <2>2. ASSUME NEW k \in DOMAIN E
        PROVE  [E[k] EXCEPT !.handle = Handle(E[k]), !.exact = TRUE] = E[k]
    <3>1. \A e \in AnEdge : [e EXCEPT !.handle = e.handle, !.exact = TRUE] = e
      BY DEF AnEdge
    <3>2. QED
      BY <1>4, <1>10, <3>1, Zenon
  <2>3. edges = [k \in DOMAIN E |-> E[k]]
    BY <2>1, <2>2, Zenon
  <2>4. E = [k \in DOMAIN E |-> E[k]]
    BY <1>1
  <2>5. QED
    BY <2>3, <2>4, Zenon
<1>12. \E i \in DOMAIN nodes : IsStart(nodes[i])
  BY <1>1, <1>6, Zenon DEF OneStart
<1>13. ToCanvas(def, "start") = [nodes |-> nodes, edges |-> edges]
  BY <1>12, Zenon DEF ToCanvas, nodes, kept
<1>14. ToDefinition([nodes |-> N, edges |-> E], t) = def
  BY Zenon DEF ToDefinition
<1>15. QED
  BY <1>6, <1>11, <1>13, <1>14, Zenon

(* A canvas as it should be, and a definition that the editor draws as     *)
(* such a canvas.                                                          *)
Legal(c) == c = [nodes |-> c.nodes, edges |-> c.edges] /\ Drawn(c)
Drawable(def) == Legal(ToCanvas(def, "start"))

LEMMA SavedIsDrawable ==
  ASSUME NEW c, NEW t, Legal(c)
  PROVE  Drawable(ToDefinition(c, t))
<1>1. c = [nodes |-> c.nodes, edges |-> c.edges] /\ Drawing(c.nodes, c.edges)
  BY Zenon DEF Legal, Drawn
<1>2. ToCanvas(ToDefinition([nodes |-> c.nodes, edges |-> c.edges], t), "start")
        = [nodes |-> c.nodes, edges |-> c.edges]
  BY <1>1, SavedIsDrawnAgain, Zenon
<1>3. ToCanvas(ToDefinition(c, t), "start") = c
  BY <1>1, <1>2
<1>4. QED
  BY <1>3, Zenon DEF Drawable

-----------------------------------------------------------------------------
(* What the editor opens *)

(* The parts of ToCanvas: the steps in today's types, the edges between    *)
(* steps, and these by an output of their source.                          *)
Retyped(def) == [i \in DOMAIN def.nodes |-> [def.nodes[i] EXCEPT !.type = CanvasType(@)]]
Bare(N) == [nodes |-> N, edges |-> <<>>]
Kept(def) ==
  At(def.edges, {k \in DOMAIN def.edges :
                   {def.edges[k].source, def.edges[k].target} \subseteq CanvasIds(Bare(Retyped(def)))})
OutputOf(N, e) ==
  LET type == StepOf(Bare(N), e.source).type
  IN IF e.exact /\ e.handle \in StepOutputs(type) THEN e.handle ELSE FirstOutput(type)
Rehandled(def) ==
  [k \in DOMAIN Kept(def) |-> [Kept(def)[k] EXCEPT !.handle = OutputOf(Retyped(def), Kept(def)[k]), !.exact = TRUE]]

(* A start of its own for steps that have none, before their root.         *)
First == [id |-> "start", type |-> "trigger", complete |-> Readers]
Roots(N, E) == {i \in DOMAIN N : N[i].id \notin {E[k].target : k \in DOMAIN E}}
RootId(N, E) == N[IF Roots(N, E) = {} THEN 1 ELSE FirstOf(Roots(N, E))].id
ToRoot(N, E) == [source |-> "start", target |-> RootId(N, E), handle |-> "next", exact |-> TRUE]
Started(N) == N = <<>> \/ \E i \in DOMAIN N : IsStart(N[i])

LEMMA CanvasParts ==
  ASSUME NEW def
  PROVE  ToCanvas(def, "start") =
           IF Started(Retyped(def))
           THEN [nodes |-> Retyped(def), edges |-> Rehandled(def)]
           ELSE [nodes |-> <<First>> \o Retyped(def),
                 edges |-> Append(Rehandled(def), ToRoot(Retyped(def), Rehandled(def)))]
  BY Zenon DEF ToCanvas, Retyped, Bare, Kept, OutputOf, Rehandled, First, Roots, RootId, ToRoot, Started

LEMMA StepsOfStored ==
  ASSUME NEW def \in FlowDefinition
  PROVE  /\ Retyped(def) \in Seq(AStep)
         /\ DOMAIN Retyped(def) = DOMAIN def.nodes
         /\ \A i \in DOMAIN def.nodes : Retyped(def)[i].id = def.nodes[i].id
<1> DEFINE nodes == Retyped(def)
<1>1. def.nodes \in Seq(FlowNode)
  BY DEF FlowDefinition
<1>2. \A s \in FlowNode : /\ [s EXCEPT !.type = CanvasType(s.type)] \in AStep
                          /\ [s EXCEPT !.type = CanvasType(s.type)].id = s.id
  <2>1. ASSUME NEW s \in FlowNode, NEW type \in NodeTypes
        PROVE  [s EXCEPT !.type = type] \in AStep /\ [s EXCEPT !.type = type].id = s.id
    BY DEF FlowNode, AStep, Ids
  <2>2. QED
    BY <2>1, CanvasTypes, Zenon
<1>3. /\ DOMAIN def.nodes = 1..Len(def.nodes) /\ Len(def.nodes) \in Nat
      /\ \A i \in DOMAIN def.nodes : def.nodes[i] \in FlowNode
  BY <1>1
<1>4. \A i \in DOMAIN def.nodes :
        /\ [def.nodes[i] EXCEPT !.type = CanvasType(@)] \in AStep
        /\ [def.nodes[i] EXCEPT !.type = CanvasType(@)].id = def.nodes[i].id
  BY <1>2, <1>3, Zenon
<1>5. /\ nodes = [i \in DOMAIN nodes |-> nodes[i]]
      /\ DOMAIN nodes = DOMAIN def.nodes
      /\ \A i \in DOMAIN nodes : nodes[i] \in AStep /\ nodes[i].id = def.nodes[i].id
  BY <1>4, Zenon DEF Retyped
<1> HIDE DEF nodes
<1>6. nodes \in [1..Len(def.nodes) -> AStep]
  BY <1>3, <1>5
<1>7. nodes \in Seq(AStep)
  BY <1>3, <1>6
<1>8. QED
  BY <1>5, <1>7, Zenon DEF nodes

(* An edge of the drawing joins two steps by an output of the first.       *)
Leads(c, e) ==
  /\ e.source \in CanvasIds(c) /\ e.target \in CanvasIds(c)
  /\ LeavesBy(e.handle, StepOf(c, e.source).type)

LEMMA EdgesOfStored ==
  ASSUME NEW def \in FlowDefinition
  PROVE  /\ Rehandled(def) \in Seq(AnEdge)
         /\ \A k \in DOMAIN Rehandled(def) : Leads(Bare(Retyped(def)), Rehandled(def)[k])
<1> DEFINE nodes == Retyped(def)
           drawn == Bare(nodes)
           ids == CanvasIds(drawn)
           S == {k \in DOMAIN def.edges : {def.edges[k].source, def.edges[k].target} \subseteq ids}
           kept == Kept(def)
           edges == Rehandled(def)
<1>1. def.edges \in Seq(FlowEdge) /\ nodes \in Seq(AStep) /\ drawn.nodes = nodes
  <2>1. drawn.nodes = nodes
    BY Zenon DEF Bare
  <2>2. nodes \in Seq(AStep)
    BY StepsOfStored, Zenon
  <2>3. def.edges \in Seq(FlowEdge)
    BY DEF FlowDefinition
  <2>4. QED
    BY <2>1, <2>2, <2>3, Zenon
<1>2. kept = At(def.edges, S)
  BY Zenon DEF Kept
<1> HIDE DEF drawn
<1>3. \A k \in DOMAIN kept : /\ kept[k] \in FlowEdge
                             /\ kept[k].source \in ids /\ kept[k].target \in ids
  <2> HIDE DEF ids
  <2>1. /\ S \in SUBSET DOMAIN def.edges
        /\ \A n \in S : def.edges[n].source \in ids /\ def.edges[n].target \in ids
        /\ \A n \in S : def.edges[n] \in FlowEdge
    BY <1>1
  <2> HIDE DEF S
  <2>2. Selects(kept, def.edges, S)
    BY <1>1, <1>2, <2>1, AtSelects, Zenon
  <2> HIDE DEF kept
  <2>3. PICK o \in [DOMAIN kept -> S] : \A k \in DOMAIN kept : kept[k] = def.edges[o[k]]
    BY <2>2, Zenon DEF Selects
  <2>4. QED
    BY <2>1, <2>3
<1>4. kept \in Seq(FlowEdge)
  <2>1. S \in SUBSET DOMAIN def.edges
    <3> HIDE DEF ids
    <3>1. QED
      OBVIOUS
  <2> HIDE DEF S
  <2>2. QED
    BY <1>1, <1>2, <2>1, AtSelects, Zenon
<1> HIDE DEF kept
<1>5. ASSUME NEW k \in DOMAIN kept
      PROVE  /\ OutputOf(nodes, kept[k]) \in Handles
             /\ LeavesBy(OutputOf(nodes, kept[k]), StepOf(drawn, kept[k].source).type)
  <2>1. \E i \in DOMAIN nodes : StepOf(drawn, kept[k].source) = nodes[i]
    <3>1. drawn.nodes \in Seq(AStep) /\ kept[k].source \in CanvasIds(drawn)
      BY <1>1, <1>3
    <3>2. \E i \in DOMAIN drawn.nodes : StepOf(drawn, kept[k].source) = drawn.nodes[i]
      BY <3>1, StepOfFinds, Zenon
    <3>3. QED
      BY <3>2, <1>1
  <2> DEFINE type == StepOf(drawn, kept[k].source).type
             handle == kept[k].handle
  <2>2. type \in NodeTypes
    <3>1. \A i \in DOMAIN nodes : nodes[i] \in AStep
      BY <1>1
    <3>2. QED
      BY <2>1, <3>1, Zenon DEF AStep
  <2>3. /\ FirstOutput(type) \in Handles
        /\ StepOutputs(type) = {} => FirstOutput(type) = ""
        /\ StepOutputs(type) # {} => FirstOutput(type) \in StepOutputs(type)
    BY <2>2, OutputsAreHandles, Zenon
  <2>4. handle \in Handles
    BY <1>3, Zenon DEF FlowEdge
  <2> DEFINE exact == kept[k].exact
  <2>5. OutputOf(nodes, kept[k]) = IF exact /\ handle \in StepOutputs(type) THEN handle ELSE FirstOutput(type)
    BY Zenon DEF OutputOf, drawn
  <2> HIDE DEF type, handle, exact
  <2>6. OutputOf(nodes, kept[k]) \in Handles /\ LeavesBy(OutputOf(nodes, kept[k]), type)
    BY <2>3, <2>4, <2>5, Zenon DEF LeavesBy
  <2>7. QED
    BY <2>6, Zenon DEF type
<1>6. ASSUME NEW e \in FlowEdge, NEW h \in Handles
      PROVE  /\ [e EXCEPT !.handle = h, !.exact = TRUE] \in AnEdge
             /\ [e EXCEPT !.handle = h, !.exact = TRUE].handle = h
             /\ [e EXCEPT !.handle = h, !.exact = TRUE].source = e.source
             /\ [e EXCEPT !.handle = h, !.exact = TRUE].target = e.target
  BY DEF FlowEdge, AnEdge, Ids
<1>7. edges = [k \in DOMAIN kept |-> [kept[k] EXCEPT !.handle = OutputOf(nodes, kept[k]), !.exact = TRUE]]
  BY Zenon DEF Rehandled, kept
<1>8. ASSUME NEW k \in DOMAIN kept
      PROVE  edges[k] \in AnEdge /\ Leads(drawn, edges[k])
  <2> DEFINE h == OutputOf(nodes, kept[k])
             e == kept[k]
  <2>1. h \in Handles /\ LeavesBy(h, StepOf(drawn, e.source).type)
    BY <1>5, Zenon
  <2>2. e \in FlowEdge /\ e.source \in ids /\ e.target \in ids
    BY <1>3, Zenon
  <2>3. edges[k] = [e EXCEPT !.handle = h, !.exact = TRUE]
    BY <1>7, Zenon
  <2> HIDE DEF h, e
  <2>4. /\ edges[k] \in AnEdge
        /\ edges[k].handle = h /\ edges[k].source = e.source /\ edges[k].target = e.target
    <3> DEFINE f == [e EXCEPT !.handle = h, !.exact = TRUE]
    <3>1. f \in AnEdge /\ f.handle = h /\ f.source = e.source /\ f.target = e.target
      BY <1>6, <2>1, <2>2, Zenon
    <3>2. edges[k] = f
      BY <2>3, Zenon
    <3> HIDE DEF f, edges
    <3>3. QED
      BY <3>1, <3>2
  <2>5. QED
    BY <2>1, <2>2, <2>4 DEF Leads
<1>9. DOMAIN edges = DOMAIN kept /\ edges = [k \in DOMAIN edges |-> edges[k]]
  BY <1>7, Zenon
<1>10. DOMAIN kept = 1..Len(kept) /\ Len(kept) \in Nat
  BY <1>4
<1> HIDE DEF edges
<1>11. edges \in [1..Len(kept) -> AnEdge]
  BY <1>8, <1>9, <1>10
<1>12. edges \in Seq(AnEdge)
  BY <1>10, <1>11
<1>13. QED
  BY <1>8, <1>9, <1>12, Zenon DEF edges, drawn

LEMMA RootIsAStep ==
  ASSUME NEW N \in Seq(AStep), NEW E, N # <<>>
  PROVE  \E i \in DOMAIN N : RootId(N, E) = N[i].id
<1>1. Roots(N, E) \in SUBSET DOMAIN N /\ DOMAIN N \in SUBSET (Nat \ {0}) /\ 1 \in DOMAIN N
  BY DEF Roots
<1>2. Roots(N, E) # {} => FirstOf(Roots(N, E)) \in Roots(N, E)
  BY <1>1, FirstOfIsFirst
<1>3. QED
  BY <1>1, <1>2, Zenon DEF RootId

(* A definition is drawn as steps and edges of today's types.              *)
LEMMA CanvasOfStored ==
  ASSUME NEW def \in FlowDefinition
  PROVE  /\ ToCanvas(def, "start").nodes \in Seq(AStep)
         /\ ToCanvas(def, "start").edges \in Seq(AnEdge)
         /\ ToCanvas(def, "start")
              = [nodes |-> ToCanvas(def, "start").nodes, edges |-> ToCanvas(def, "start").edges]
<1> DEFINE c == ToCanvas(def, "start")
           N == Retyped(def)
           E == Rehandled(def)
           M == <<First>> \o N
           F == Append(E, ToRoot(N, E))
<1>1. N \in Seq(AStep) /\ E \in Seq(AnEdge)
  BY StepsOfStored, EdgesOfStored, Zenon
<1>2. c = IF Started(N) THEN [nodes |-> N, edges |-> E] ELSE [nodes |-> M, edges |-> F]
  BY CanvasParts, Zenon
<1> HIDE DEF c, N, E
<1>3. CASE Started(N)
  <2>1. c = [nodes |-> N, edges |-> E]
    BY <1>2, <1>3, Zenon
  <2>2. c.nodes = N /\ c.edges = E
    BY <2>1
  <2>3. QED
    BY <1>1, <2>1, <2>2 DEF c
<1>4. CASE ~Started(N)
  <2>1. c = [nodes |-> M, edges |-> F]
    BY <1>2, <1>4, Zenon
  <2>2. M \in Seq(AStep)
    <3>1. First \in AStep
      BY DEF First, AStep, Ids, NodeTypes
    <3>2. QED
      BY <1>1, <3>1
  <2>3. F \in Seq(AnEdge)
    <3>1. N # <<>>
      BY <1>4, Zenon DEF Started
    <3>2. PICK i \in DOMAIN N : RootId(N, E) = N[i].id
      BY <1>1, <3>1, RootIsAStep, Zenon
    <3>3. N[i] \in AStep
      BY <1>1
    <3>4. RootId(N, E) \in Ids
      BY <3>2, <3>3 DEF AStep
    <3> DEFINE root == RootId(N, E)
    <3> HIDE DEF root
    <3>5. [source |-> "start", target |-> root, handle |-> "next", exact |-> TRUE] \in AnEdge
      BY <3>4 DEF AnEdge, Ids, Handles, root
    <3>6. ToRoot(N, E) \in AnEdge
      BY <3>5, Zenon DEF root, ToRoot
    <3>7. QED
      BY <1>1, <3>6
  <2> HIDE DEF M, F
  <2>4. c.nodes = M /\ c.edges = F
    BY <2>1
  <2>5. QED
    BY <2>1, <2>2, <2>3, <2>4 DEF c
<1>5. QED
  BY <1>3, <1>4
=============================================================================
