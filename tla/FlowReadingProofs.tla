------------------------- MODULE FlowReadingProofs -------------------------
(***************************************************************************)
(* What the loops of FlowReading return for every list, and what the       *)
(* editor keeps of every definition: the loops compute the lookups the     *)
(* other modules use, the drawing of a definition runs like the definition *)
(* and the browser's validation decides like the engine's.                 *)
(*                                                                         *)
(* The inductive invariant says how far each loop has come: what it has    *)
(* found is what the part of the list before its place leads to.           *)
(***************************************************************************)
EXTENDS FlowReading, FlowGraphProofs

-----------------------------------------------------------------------------
(* The lookups in parts *)

LEMMA FirstOfIs ==
  ASSUME NEW S \in SUBSET (Nat \ {0}), NEW i \in S, \A j \in S : i <= j
  PROVE  FirstOf(S) = i
<1>1. FirstOf(S) = CHOOSE n \in S : \A j \in S : n <= j
  BY Zenon DEF FirstOf
<1>2. \A n \in S : (\A j \in S : n <= j) => n = i
  <2>1. \A n \in S : n <= i /\ i <= n => n = i
    OBVIOUS
  <2>2. QED
    BY <2>1
<1>3. QED
  BY <1>1, <1>2

(* A definition whose lists are lists; a canvas as it is saved is one.     *)
Listed(def) ==
  /\ DOMAIN def.nodes \in SUBSET (Nat \ {0})
  /\ DOMAIN def.edges \in SUBSET (Nat \ {0})

LEMMA NodeFound ==
  ASSUME NEW def, Listed(def), NEW id
  PROVE  /\ id \notin NodeIds(def) => FindNode(def, id) = NoNode
         /\ id \in NodeIds(def) => /\ FindNode(def, id) # NoNode
                                   /\ FindNode(def, id) \in DOMAIN def.nodes
                                   /\ def.nodes[FindNode(def, id)].id = id
<1> DEFINE S == {i \in DOMAIN def.nodes : def.nodes[i].id = id}
<1>1. S \in SUBSET (Nat \ {0})
  BY DEF Listed
<1>2. id \notin NodeIds(def) => S = {}
  BY DEF NodeIds
<1>3. id \in NodeIds(def) => S # {}
  BY DEF NodeIds
<1>4. FindNode(def, id) = FirstOf(S)
  BY Zenon DEF FindNode
<1>5. /\ S = {} => FirstOf(S) = NoNode
      /\ S # {} => FirstOf(S) \in S /\ FirstOf(S) # NoNode
  BY <1>1, FirstOfIsFirst, Zenon
<1>6. \A i \in S : i \in DOMAIN def.nodes /\ def.nodes[i].id = id
  OBVIOUS
<1> HIDE DEF S
<1>7. QED
  BY <1>2, <1>3, <1>4, <1>5, <1>6

(* The edges by which NextNode leaves node i: those that carry the wanted  *)
(* handle, and those without one that serve the default output.            *)
Wanted(def, i, handle) == IF handle = "" THEN DefaultHandle(def.nodes[i].type) ELSE handle
Named(def, i, handle) ==
  {k \in DOMAIN def.edges : /\ def.edges[k].source = def.nodes[i].id
                            /\ def.edges[k].handle = Wanted(def, i, handle)}
Plain(def, i, handle) ==
  {k \in DOMAIN def.edges : /\ def.edges[k].source = def.nodes[i].id
                            /\ def.edges[k].handle = ""
                            /\ Wanted(def, i, handle) = DefaultHandle(def.nodes[i].type)
                            /\ def.edges[k].target \in NodeIds(def)}
Behind(def, k) == FindNode(def, def.edges[k].target)
Foremost(S, k) == k \in S /\ \A j \in S : k <= j

LEMMA NextNodeParts ==
  ASSUME NEW def, Listed(def), NEW i, NEW handle
  PROVE  LET N == Named(def, i, handle)
             P == Plain(def, i, handle)
             next == NextNode(def, i, handle)
         IN /\ \A k \in N : Foremost(N, k) => next = Behind(def, k)
            /\ N = {} => \A k \in P : Foremost(P, k) => next = Behind(def, k)
            /\ N = {} /\ P = {} => next = NoNode
<1> DEFINE N == Named(def, i, handle)
           P == Plain(def, i, handle)
           next == NextNode(def, i, handle)
<1>1. N \in SUBSET (Nat \ {0}) /\ P \in SUBSET (Nat \ {0})
  <2>1. N \subseteq DOMAIN def.edges /\ P \subseteq DOMAIN def.edges
    BY Zenon DEF Named, Plain
  <2> HIDE DEF N, P
  <2>2. QED
    BY <2>1 DEF Listed
<1>2. next = CASE FirstOf(N) # 0 -> FindNode(def, def.edges[FirstOf(N)].target)
               [] FirstOf(N) = 0 /\ FirstOf(P) # 0 -> FindNode(def, def.edges[FirstOf(P)].target)
               [] OTHER -> NoNode
  <2> DEFINE wanted == Wanted(def, i, handle)
             Leaving == {k \in DOMAIN def.edges : def.edges[k].source = def.nodes[i].id}
             M == {k \in Leaving : def.edges[k].handle = wanted}
             Q == {k \in Leaving : /\ def.edges[k].handle = ""
                                   /\ wanted = DefaultHandle(def.nodes[i].type)
                                   /\ def.edges[k].target \in NodeIds(def)}
  <2>1. next = CASE FirstOf(M) # 0 -> FindNode(def, def.edges[FirstOf(M)].target)
                 [] FirstOf(M) = 0 /\ FirstOf(Q) # 0 -> FindNode(def, def.edges[FirstOf(Q)].target)
                 [] OTHER -> NoNode
    BY Zenon DEF NextNode, Wanted
  <2>2. M = N
    BY DEF Named
  <2>3. Q = P
    BY DEF Plain
  <2> HIDE DEF M, Q, N, P
  <2>4. QED
    BY <2>1, <2>2, <2>3
<1>3. /\ N = {} => FirstOf(N) = 0
      /\ P = {} => FirstOf(P) = 0
  BY <1>1, FirstOfIsFirst DEF NoNode
<1>4. ASSUME NEW S \in SUBSET (Nat \ {0}), NEW k \in S, Foremost(S, k)
      PROVE  FirstOf(S) = k /\ FirstOf(S) # 0
  BY <1>4, FirstOfIs DEF Foremost
<1> HIDE DEF N, P, next
<1>5. \A k \in N : Foremost(N, k) => next = Behind(def, k)
  BY <1>1, <1>2, <1>4 DEF Behind
<1>6. N = {} => \A k \in P : Foremost(P, k) => next = Behind(def, k)
  BY <1>1, <1>2, <1>3, <1>4 DEF Behind
<1>7. N = {} /\ P = {} => next = NoNode
  BY <1>2, <1>3
<1>8. QED
  BY <1>5, <1>6, <1>7, Zenon DEF N, P, next

LEMMA ForemostExists ==
  ASSUME NEW S \in SUBSET (Nat \ {0}), S # {}
  PROVE  \E k \in S : Foremost(S, k)
<1>1. S \in SUBSET Nat
  OBVIOUS
<1>2. QED
  BY <1>1, LeastPosition DEF Foremost

-----------------------------------------------------------------------------
(* How far the loops have come *)

(* NextNode: no named edge so far; the fallback is what the first plain    *)
(* edge so far leads to.                                                   *)
WalkSoFar(def, i, handle) ==
  /\ \A k \in Named(def, i, handle) : place <= k
  /\ (\A k \in Plain(def, i, handle) : place <= k) => found = NoNode
  /\ \A k \in Plain(def, i, handle) :
       Foremost(Plain(def, i, handle), k) /\ k < place => found = Behind(def, k)

WalkInv ==
  input.kind = "walk" =>
    /\ input \in Walks /\ place \in Nat \ {0}
    /\ ~ended => WalkSoFar(input.def, input.node, input.handle)
    /\ ended => found = NextNode(input.def, input.node, input.handle)

(* HandleInbound: the first of the highest priority among the flows so far. *)
ArrivalSoFar(defs, ev) ==
  /\ \A j \in DOMAIN defs : j < place => Priority(defs[j], ev) <= priority
  /\ found = NoNode => priority = 0
  /\ found # NoNode =>
       /\ found \in DOMAIN defs /\ found < place
       /\ Priority(defs[found], ev) = priority /\ priority > 0
       /\ \A j \in DOMAIN defs : j < found => Priority(defs[j], ev) < priority

ArrivalInv ==
  input.kind = "arrival" =>
    /\ input \in Arrivals /\ place \in Nat \ {0} /\ priority \in Nat
    /\ ArrivalSoFar(input.defs, input.ev)
    /\ ended => place \notin DOMAIN input.defs

(* validateFlow: the steps reached so far are steps, every set that holds  *)
(* the start and what its members lead to holds them, and they lead to     *)
(* nothing else but from the queue.                                        *)
Closed(c, S) == \A k \in DOMAIN c.edges : c.edges[k].source \in S => c.edges[k].target \in S

SearchInv ==
  input.kind = "drawing" =>
    /\ input \in Drawings
    /\ Start(Canvas) \subseteq reach /\ queue \subseteq reach /\ reach \subseteq CanvasIds(Canvas)
    /\ \A S \in SUBSET CanvasIds(Canvas) : Start(Canvas) \subseteq S /\ Closed(Canvas, S) => reach \subseteq S
    /\ \A k \in DOMAIN Canvas.edges :
         Canvas.edges[k].source \in reach \ queue => Canvas.edges[k].target \in reach
    /\ ended => queue = {}

ReadingInv ==
  /\ input \in Walks \cup Arrivals \cup Drawings
  /\ ended \in BOOLEAN
  /\ WalkInv /\ ArrivalInv /\ SearchInv

LEMMA InputsAreOfAKind ==
  ASSUME input \in Walks \cup Arrivals \cup Drawings
  PROVE  /\ input \in Walks <=> input.kind = "walk"
         /\ input \in Arrivals <=> input.kind = "arrival"
         /\ input \in Drawings <=> input.kind = "drawing"
<1>1. /\ input \in Walks => input.kind = "walk"
      /\ input \in Arrivals => input.kind = "arrival"
      /\ input \in Drawings => input.kind = "drawing"
  BY ReadingAssumption
<1>2. "walk" # "arrival" /\ "walk" # "drawing" /\ "arrival" # "drawing"
  OBVIOUS
<1>3. QED
  BY <1>1, <1>2

LEMMA StoredAreListed ==
  ASSUME NEW def \in FlowDefinition
  PROVE  Listed(def) /\ Listed(ToCanvas(def, "start"))
<1>1. Listed(def)
  BY PositionsAreNumbers, Zenon DEF Listed
<1> DEFINE c == ToCanvas(def, "start")
<1>2. c.nodes \in Seq(AStep) /\ c.edges \in Seq(AnEdge)
  BY CanvasOfStored, Zenon
<1> HIDE DEF c
<1>3. DOMAIN c.nodes \in SUBSET (Nat \ {0}) /\ DOMAIN c.edges \in SUBSET (Nat \ {0})
  BY <1>2
<1>4. QED
  BY <1>1, <1>3, Zenon DEF Listed, c

LEMMA PriorityRange ==
  ASSUME NEW def, NEW ev
  PROVE  Priority(def, ev) \in 0..3
<1>1. \/ Priority(def, ev) = 0 \/ Priority(def, ev) = 1
      \/ Priority(def, ev) = 2 \/ Priority(def, ev) = 3
  BY Zenon DEF Priority
<1>2. QED
  BY <1>1

(* The flow that HandleInbound means: no other has a higher priority, none *)
(* before it the same.                                                     *)
LEMMA BestFlowIs ==
  ASSUME NEW defs, DOMAIN defs \in SUBSET (Nat \ {0}), NEW ev
  PROVE  /\ \A i \in DOMAIN defs :
              /\ Priority(defs[i], ev) > 0
              /\ \A j \in DOMAIN defs : /\ Priority(defs[j], ev) <= Priority(defs[i], ev)
                                        /\ j < i => Priority(defs[j], ev) < Priority(defs[i], ev)
              => BestFlow(defs, ev) = i
         /\ (\A j \in DOMAIN defs : Priority(defs[j], ev) = 0) => BestFlow(defs, ev) = NoNode
<1> DEFINE B == {i \in DOMAIN defs : /\ Priority(defs[i], ev) > 0
                                     /\ \A j \in DOMAIN defs : Priority(defs[j], ev) <= Priority(defs[i], ev)}
<1>1. BestFlow(defs, ev) = FirstOf(B)
  BY Zenon DEF BestFlow
<1>2. B \in SUBSET (Nat \ {0})
  OBVIOUS
<1>3. ASSUME NEW i \in DOMAIN defs, Priority(defs[i], ev) > 0,
             \A j \in DOMAIN defs : /\ Priority(defs[j], ev) <= Priority(defs[i], ev)
                                    /\ j < i => Priority(defs[j], ev) < Priority(defs[i], ev)
      PROVE  FirstOf(B) = i
  <2>1. i \in B
    BY <1>3
  <2>2. ASSUME NEW j \in B
        PROVE  i <= j
    <3>1. j \in DOMAIN defs /\ Priority(defs[i], ev) <= Priority(defs[j], ev)
      BY <1>3
    <3>2. Priority(defs[i], ev) \in Nat /\ Priority(defs[j], ev) \in Nat
      BY PriorityRange
    <3>3. ~(j < i)
      BY <1>3, <3>1, <3>2
    <3>4. QED
      BY <3>1, <3>3
  <2> HIDE DEF B
  <2>3. QED
    BY <1>2, <2>1, <2>2, FirstOfIs
<1>4. ASSUME \A j \in DOMAIN defs : Priority(defs[j], ev) = 0
      PROVE  FirstOf(B) = NoNode
  <2>1. B = {}
    BY <1>4
  <2> HIDE DEF B
  <2>2. QED
    BY <1>2, <2>1, FirstOfIsFirst
<1>5. QED
  BY <1>1, <1>3, <1>4

(* The start is a step of the canvas.                                      *)
LEMMA StartIsDrawn ==
  ASSUME NEW c, Listed(c)
  PROVE  LET triggers == {i \in DOMAIN c.nodes : IsStart(c.nodes[i])}
         IN /\ triggers = {} => Start(c) = {}
            /\ triggers # {} => /\ FirstOf(triggers) \in triggers
                                /\ Start(c) = {c.nodes[FirstOf(triggers)].id}
            /\ Start(c) \subseteq CanvasIds(c)
<1> DEFINE triggers == {i \in DOMAIN c.nodes : IsStart(c.nodes[i])}
<1>1. triggers \in SUBSET (Nat \ {0})
  BY DEF Listed
<1>2. Start(c) = IF triggers = {} THEN {} ELSE {c.nodes[FirstOf(triggers)].id}
  BY Zenon DEF Start
<1>3. triggers \subseteq DOMAIN c.nodes
  OBVIOUS
<1> HIDE DEF triggers
<1>4. triggers # {} => FirstOf(triggers) \in triggers
  BY <1>1, FirstOfIsFirst, Zenon
<1>5. Start(c) \subseteq CanvasIds(c)
  BY <1>2, <1>3, <1>4 DEF CanvasIds
<1>6. QED
  BY <1>2, <1>4, <1>5, Zenon DEF triggers

-----------------------------------------------------------------------------
(* The invariant of the loops is inductive *)

LEMMA ReadingInit ==
  ASSUME Init
  PROVE  ReadingInv
<1>1. input \in Walks \cup Arrivals \cup Drawings /\ ended = FALSE /\ place = 1 /\ found = NoNode /\ priority = 0
  BY DEF Init
<1>2. ASSUME input.kind = "walk"
      PROVE  WalkInv
  <2> DEFINE def == input.def
             i == input.node
             h == input.handle
  <2>1. input \in Walks /\ def \in FlowDefinition
    BY <1>1, <1>2, InputsAreOfAKind, ReadingAssumption
  <2>2. DOMAIN def.edges \in SUBSET (Nat \ {0})
    BY <2>1, StoredAreListed DEF Listed
  <2>3. Named(def, i, h) \subseteq DOMAIN def.edges /\ Plain(def, i, h) \subseteq DOMAIN def.edges
    BY Zenon DEF Named, Plain
  <2> HIDE DEF def, i, h
  <2>4. \A k \in Named(def, i, h) \cup Plain(def, i, h) : place <= k /\ ~(k < place)
    BY <1>1, <2>2, <2>3
  <2>5. WalkSoFar(def, i, h)
    BY <1>1, <2>4, Zenon DEF WalkSoFar
  <2>6. QED
    BY <1>1, <2>1, <2>5 DEF WalkInv, def, i, h
<1>3. ASSUME input.kind = "arrival"
      PROVE  ArrivalInv
  <2>1. input \in Arrivals /\ input.defs \in Seq(FlowDefinition)
    BY <1>1, <1>3, InputsAreOfAKind, ReadingAssumption
  <2>2. \A j \in DOMAIN input.defs : ~(j < place)
    BY <1>1, <2>1
  <2>3. QED
    BY <1>1, <2>1, <2>2 DEF ArrivalInv, ArrivalSoFar
<1>4. ASSUME input.kind = "drawing"
      PROVE  SearchInv
  <2>1. input \in Drawings /\ input.def \in FlowDefinition
    BY <1>1, <1>4, InputsAreOfAKind, ReadingAssumption
  <2>2. Start(Canvas) \subseteq CanvasIds(Canvas)
    BY <2>1, StoredAreListed, StartIsDrawn, Zenon DEF Canvas
  <2>3. reach = Start(Canvas) /\ queue = reach
    BY <1>4, Zenon DEF Init
  <2>4. QED
    BY <1>1, <2>1, <2>2, <2>3 DEF SearchInv
<1>5. QED
  BY <1>1, <1>2, <1>3, <1>4 DEF ReadingInv, WalkInv, ArrivalInv, SearchInv

(* One edge of NextNode's loop.                                            *)
LEMMA FollowEdgeStep ==
  ASSUME ReadingInv, FollowEdge
  PROVE  ReadingInv'
<1> DEFINE def == input.def
           i == input.node
           h == input.handle
           N == Named(def, i, h)
           P == Plain(def, i, h)
           e == def.edges[place]
           default == DefaultHandle(def.nodes[i].type)
           wanted == Wanted(def, i, h)
<1>1. /\ input.kind = "walk" /\ ended = FALSE /\ place \in DOMAIN def.edges
      /\ place' = place + 1 /\ input' = input
      /\ \/ e.source # def.nodes[i].id /\ found' = found /\ ended' = ended
         \/ /\ e.source = def.nodes[i].id /\ e.handle = wanted
            /\ found' = Behind(def, place) /\ ended' = TRUE
         \/ /\ e.source = def.nodes[i].id /\ e.handle # wanted /\ ended' = ended
            /\ found' = IF e.handle = "" /\ wanted = default /\ found = NoNode
                        THEN Behind(def, place) ELSE found
  BY Zenon DEF FollowEdge, Wanted, Behind, ReadingInv
<1>2. /\ input \in Walks /\ place \in Nat \ {0} /\ WalkSoFar(def, i, h)
  BY <1>1, Zenon DEF ReadingInv, WalkInv
<1>3. def \in FlowDefinition /\ Listed(def)
  BY <1>2, ReadingAssumption, StoredAreListed
<1>4. /\ N \subseteq DOMAIN def.edges /\ P \subseteq DOMAIN def.edges
      /\ N \in SUBSET (Nat \ {0}) /\ P \in SUBSET (Nat \ {0})
  <2>1. N \subseteq DOMAIN def.edges /\ P \subseteq DOMAIN def.edges
    BY Zenon DEF Named, Plain
  <2> HIDE DEF N, P, def
  <2>2. QED
    BY <1>3, <2>1 DEF Listed
<1>5. /\ \A k \in N : place <= k
      /\ (\A k \in P : place <= k) => found = NoNode
      /\ \A k \in P : Foremost(P, k) /\ k < place => found = Behind(def, k)
  BY <1>2, Zenon DEF WalkSoFar
<1>6. /\ place \in N <=> e.source = def.nodes[i].id /\ e.handle = wanted
      /\ place \in P <=> /\ e.source = def.nodes[i].id /\ e.handle = ""
                         /\ wanted = default /\ e.target \in NodeIds(def)
  BY <1>1, Zenon DEF Named, Plain
<1>7. \A k \in DOMAIN def.edges : /\ def.edges[k].target \in NodeIds(def) => Behind(def, k) # NoNode
                                  /\ def.edges[k].target \notin NodeIds(def) => Behind(def, k) = NoNode
  BY <1>3, NodeFound, Zenon DEF Behind
<1>8. \A k \in P : Behind(def, k) # NoNode
  BY <1>7, Zenon DEF Plain
<1>9. \A k \in Nat : (place + 1 <= k <=> place <= k /\ k # place) /\ (k < place + 1 <=> k < place \/ k = place)
  BY <1>2
<1> HIDE DEF def, i, h, N, P, e, default, wanted
<1>10. /\ input \in Walks /\ input' \in Walks /\ input' = input /\ input' \in Walks \cup Arrivals \cup Drawings
        /\ place' \in Nat \ {0} /\ ArrivalInv' /\ SearchInv'
  <2>1. input' = input /\ input' \in Walks /\ place' \in Nat \ {0}
    <3>1. place + 1 \in Nat \ {0}
      BY <1>2
    <3>2. QED
      BY <1>1, <1>2, <3>1, Zenon
  <2>2. input'.kind = "walk" /\ input'.kind # "arrival" /\ input'.kind # "drawing"
    <3>1. input'.kind = "walk"
      BY <1>1, <2>1, Zenon
    <3>2. QED
      BY <3>1
  <2>3. ArrivalInv' /\ SearchInv'
    BY <2>2, Zenon DEF ArrivalInv, SearchInv
  <2>4. QED
    BY <1>2, <2>1, <2>3, Zenon
<1>11. CASE place \in N
  <2>1. found' = Behind(def, place) /\ ended' = TRUE
    BY <1>1, <1>6, <1>11, Zenon
  <2>2. Foremost(N, place)
    BY <1>5, <1>11 DEF Foremost
  <2>3. found' = NextNode(def, i, h)
    BY <1>3, <1>11, <2>1, <2>2, NextNodeParts, Zenon DEF N
  <2>4. WalkInv'
    BY <1>10, <2>1, <2>3, Zenon DEF WalkInv, def, i, h
  <2>5. QED
    BY <1>10, <2>1, <2>4, Zenon DEF ReadingInv
<1>12. CASE place \notin N
  <2>1. ended' = FALSE
    BY <1>1, <1>6, <1>12, Zenon
  <2>2. \A k \in N : place + 1 <= k
    BY <1>4, <1>5, <1>9, <1>12
  <2>3. ASSUME \A k \in P : place + 1 <= k
        PROVE  found' = NoNode
    <3>1. \A k \in P : place <= k /\ k # place
      BY <1>4, <1>9, <2>3
    <3>2. found = NoNode /\ place \notin P
      BY <1>5, <3>1
    <3>3. e.target \notin NodeIds(def) => Behind(def, place) = NoNode
      BY <1>1, <1>7, Zenon DEF e
    <3>4. QED
      BY <1>1, <1>6, <1>12, <3>2, <3>3, Zenon
  <2>4. ASSUME NEW k \in P, Foremost(P, k), k < place + 1
        PROVE  found' = Behind(def, k)
    <3>1. CASE k < place
      <4>1. found = Behind(def, k) /\ found # NoNode
        BY <1>5, <1>8, <2>4, <3>1
      <4>2. QED
        BY <1>1, <1>6, <1>12, <4>1, Zenon
    <3>2. CASE k = place
      <4>1. \A j \in P : place <= j
        BY <2>4, <3>2 DEF Foremost
      <4>2. found = NoNode
        BY <1>5, <4>1
      <4>3. QED
        BY <1>1, <1>6, <1>12, <2>4, <3>2, <4>2, Zenon
    <3>3. QED
      BY <1>4, <1>9, <2>4, <3>1, <3>2
  <2>5. WalkSoFar(def, i, h)'
    <3>1. /\ \A k \in N : place' <= k
          /\ (\A k \in P : place' <= k) => found' = NoNode
          /\ \A k \in P : Foremost(P, k) /\ k < place' => found' = Behind(def, k)
      BY <1>1, <2>2, <2>3, <2>4, Zenon
    <3>2. def' = def /\ i' = i /\ h' = h
      BY <1>10, Zenon DEF def, i, h
    <3>3. QED
      BY <3>1, <3>2, Zenon DEF WalkSoFar, N, P
  <2>6. WalkInv'
    BY <1>10, <2>1, <2>5, Zenon DEF WalkInv, def, i, h
  <2>7. QED
    BY <1>10, <2>1, <2>6, Zenon DEF ReadingInv
<1>13. QED
  BY <1>11, <1>12

(* One flow of HandleInbound's loop.                                       *)
LEMMA MatchFlowStep ==
  ASSUME ReadingInv, MatchFlow
  PROVE  ReadingInv'
<1> DEFINE defs == input.defs
           ev == input.ev
           p == Priority(defs[place], ev)
<1>1. /\ input.kind = "arrival" /\ ended = FALSE /\ ended' = FALSE /\ place \in DOMAIN defs
      /\ place' = place + 1 /\ input' = input
      /\ p > priority => found' = place /\ priority' = p
      /\ ~(p > priority) => found' = found /\ priority' = priority
  BY Zenon DEF MatchFlow, ReadingInv
<1>2. input \in Arrivals /\ place \in Nat \ {0} /\ priority \in Nat /\ ArrivalSoFar(defs, ev)
  BY <1>1, Zenon DEF ReadingInv, ArrivalInv
<1>3. DOMAIN defs \in SUBSET (Nat \ {0})
  <2>1. defs \in Seq(FlowDefinition)
    BY <1>2, ReadingAssumption
  <2> HIDE DEF defs
  <2>2. QED
    BY <2>1
<1>4. /\ \A j \in DOMAIN defs : j < place => Priority(defs[j], ev) <= priority
      /\ found = NoNode => priority = 0
      /\ found # NoNode =>
           /\ found \in DOMAIN defs /\ found < place
           /\ Priority(defs[found], ev) = priority /\ priority > 0
           /\ \A j \in DOMAIN defs : j < found => Priority(defs[j], ev) < priority
  BY <1>2, Zenon DEF ArrivalSoFar
<1>5. \A j : Priority(defs[j], ev) \in Nat
  BY PriorityRange
<1> HIDE DEF defs, ev
<1>6. priority' \in Nat /\ p <= priority' /\ priority <= priority'
  BY <1>1, <1>2, <1>5
<1>7. /\ \A j \in DOMAIN defs : j < place' => Priority(defs[j], ev) <= priority'
      /\ found' = NoNode => priority' = 0
      /\ found' # NoNode =>
           /\ found' \in DOMAIN defs /\ found' < place'
           /\ Priority(defs[found'], ev) = priority' /\ priority' > 0
           /\ \A j \in DOMAIN defs : j < found' => Priority(defs[j], ev) < priority'
  <2>1. ASSUME NEW j \in DOMAIN defs, j < place'
        PROVE  Priority(defs[j], ev) <= priority'
    <3>1. j < place \/ j = place
      BY <1>1, <1>2, <1>3, <2>1
    <3>2. QED
      BY <1>2, <1>4, <1>5, <1>6, <3>1
  <2>2. CASE p > priority
    <3>1. found' = place /\ priority' = p /\ place # NoNode
      BY <1>1, <1>2, <2>2 DEF NoNode
    <3>2. \A j \in DOMAIN defs : j < place => Priority(defs[j], ev) < p
      BY <1>2, <1>4, <1>5, <2>2
    <3>3. place < place' /\ p > 0
      BY <1>1, <1>2, <1>5, <2>2
    <3>4. QED
      BY <1>1, <2>1, <3>1, <3>2, <3>3
  <2>3. CASE ~(p > priority)
    <3>1. found' = found /\ priority' = priority
      BY <1>1, <2>3
    <3>2. found # NoNode => found < place'
      BY <1>1, <1>2, <1>3, <1>4
    <3>3. QED
      BY <1>4, <2>1, <3>1, <3>2
  <2>4. QED
    BY <2>2, <2>3
<1>8. ArrivalSoFar(defs, ev)'
  BY <1>1, <1>7, Zenon DEF ArrivalSoFar, defs, ev
<1>9. ArrivalInv'
  BY <1>1, <1>2, <1>6, <1>8 DEF ArrivalInv, defs, ev
<1>10. QED
  BY <1>1, <1>2, <1>9 DEF ReadingInv, WalkInv, SearchInv

LEMMA ListEndsStep ==
  ASSUME ReadingInv, ListEnds
  PROVE  ReadingInv'
<1>1. /\ ended = FALSE /\ ended' = TRUE /\ input' = input /\ place' = place /\ found' = found /\ priority' = priority
      /\ \/ input.kind = "walk" /\ place \notin DOMAIN input.def.edges
         \/ input.kind = "arrival" /\ place \notin DOMAIN input.defs
  BY Zenon DEF ListEnds, ReadingInv
<1>2. input' \in Walks \cup Arrivals \cup Drawings /\ WalkInv /\ ArrivalInv
  BY <1>1, Zenon DEF ReadingInv
<1>3. WalkInv'
  <2> SUFFICES ASSUME input.kind = "walk"
               PROVE  WalkInv'
    BY <1>1, Zenon DEF WalkInv
  <2> DEFINE def == input.def
             i == input.node
             h == input.handle
             N == Named(def, i, h)
             P == Plain(def, i, h)
  <2>1. input \in Walks /\ place \in Nat \ {0} /\ WalkSoFar(def, i, h)
    BY <1>1, <1>2, Zenon DEF WalkInv
  <2>2. place \notin DOMAIN def.edges
    <3>1. input.kind # "arrival"
      BY <1>1
    <3>2. QED
      BY <1>1, <3>1, Zenon
  <2>3. def \in FlowDefinition /\ Listed(def)
    BY <2>1, ReadingAssumption, StoredAreListed
  <2>4. \A k \in DOMAIN def.edges : k < place /\ ~(place <= k)
    <3>1. def.edges \in Seq(FlowEdge)
      BY <2>3 DEF FlowDefinition
    <3>2. DOMAIN def.edges = 1..Len(def.edges) /\ Len(def.edges) \in Nat
      BY <3>1
    <3> HIDE DEF def
    <3>3. QED
      BY <2>1, <2>2, <3>2
  <2>5. N \subseteq DOMAIN def.edges /\ P \subseteq DOMAIN def.edges
    BY Zenon DEF Named, Plain
  <2>6. /\ \A k \in N : place <= k
        /\ (\A k \in P : place <= k) => found = NoNode
        /\ \A k \in P : Foremost(P, k) /\ k < place => found = Behind(def, k)
    BY <2>1, Zenon DEF WalkSoFar
  <2> HIDE DEF def, i, h, N, P
  <2>7. N = {}
    BY <2>4, <2>5, <2>6
  <2>8. ASSUME P = {}
        PROVE  found = NextNode(def, i, h)
    <3>1. found = NoNode
      BY <2>6, <2>8
    <3>2. NextNode(def, i, h) = NoNode
      BY <2>3, <2>7, <2>8, NextNodeParts, Zenon DEF N, P
    <3>3. QED
      BY <3>1, <3>2
  <2>9. ASSUME P # {}
        PROVE  found = NextNode(def, i, h)
    <3>1. P \in SUBSET (Nat \ {0})
      BY <2>3, <2>5 DEF Listed
    <3>2. PICK k \in P : Foremost(P, k)
      BY <2>9, <3>1, ForemostExists
    <3>3. found = Behind(def, k)
      BY <2>4, <2>5, <2>6, <3>2
    <3>4. NextNode(def, i, h) = Behind(def, k)
      BY <2>3, <2>7, <3>2, NextNodeParts, Zenon DEF N, P
    <3>5. QED
      BY <3>3, <3>4
  <2>10. found = NextNode(def, i, h)
    BY <2>8, <2>9
  <2>11. QED
    BY <1>1, <2>1, <2>10, Zenon DEF WalkInv, def, i, h
<1>4. ArrivalInv'
  <2> SUFFICES ASSUME input.kind = "arrival"
               PROVE  ArrivalInv'
    BY <1>1, Zenon DEF ArrivalInv
  <2>1. input.kind # "walk"
    OBVIOUS
  <2>2. /\ place \notin DOMAIN input.defs /\ input \in Arrivals /\ place \in Nat \ {0} /\ priority \in Nat
        /\ ArrivalSoFar(input.defs, input.ev)
    BY <1>1, <1>2, <2>1, Zenon DEF ArrivalInv
  <2>3. ArrivalSoFar(input.defs, input.ev)'
    BY <1>1, <2>2, Zenon DEF ArrivalSoFar
  <2>4. QED
    BY <1>1, <2>2, <2>3, Zenon DEF ArrivalInv
<1>5. SearchInv'
  <2>1. input.kind # "drawing"
    BY <1>1
  <2>2. QED
    BY <1>1, <2>1, Zenon DEF SearchInv
<1>6. QED
  BY <1>1, <1>2, <1>3, <1>4, <1>5, Zenon DEF ReadingInv

(* Both ends of an edge of the canvas are steps of it.                     *)
LEMMA CanvasIsJoined ==
  ASSUME NEW def \in FlowDefinition
  PROVE  LET c == ToCanvas(def, "start")
         IN \A k \in DOMAIN c.edges : c.edges[k].source \in CanvasIds(c) /\ c.edges[k].target \in CanvasIds(c)
<1> DEFINE c == ToCanvas(def, "start")
           N == Retyped(def)
           E == Rehandled(def)
           M == <<First>> \o N
           e == ToRoot(N, E)
           F == Append(E, e)
<1>1. N \in Seq(AStep) /\ E \in Seq(AnEdge) /\ \A k \in DOMAIN E : Leads(Bare(N), E[k])
  BY StepsOfStored, EdgesOfStored, Zenon
<1>2. c = IF Started(N) THEN [nodes |-> N, edges |-> E] ELSE [nodes |-> M, edges |-> F]
  BY CanvasParts, Zenon
<1>3. CanvasIds(Bare(N)) = {N[i].id : i \in DOMAIN N}
  BY Zenon DEF CanvasIds, Bare
<1>4. \A k \in DOMAIN E : /\ \E i \in DOMAIN N : N[i].id = E[k].source
                          /\ \E i \in DOMAIN N : N[i].id = E[k].target
  BY <1>1, <1>3, Zenon DEF Leads
<1> HIDE DEF c, N, E, e
<1>5. CASE Started(N)
  <2>1. c = [nodes |-> N, edges |-> E]
    BY <1>2, <1>5, Zenon
  <2>2. c.nodes = N /\ c.edges = E
    BY <2>1
  <2>3. \A k \in DOMAIN c.edges : c.edges[k].source \in CanvasIds(c) /\ c.edges[k].target \in CanvasIds(c)
    BY <1>4, <2>2 DEF CanvasIds
  <2>4. QED
    BY <2>3, Zenon DEF c
<1>6. CASE ~Started(N)
  <2>1. c = [nodes |-> M, edges |-> F]
    BY <1>2, <1>6, Zenon
  <2>2. /\ Len(N) \in Nat /\ DOMAIN N = 1..Len(N) /\ DOMAIN M = 1..(Len(N) + 1)
        /\ M[1] = First /\ \A i \in DOMAIN N : M[i + 1] = N[i] /\ i + 1 \in DOMAIN M
    BY <1>1
  <2>3. /\ Len(E) \in Nat /\ DOMAIN E = 1..Len(E) /\ DOMAIN F = 1..(Len(E) + 1)
        /\ \A k \in DOMAIN E : F[k] = E[k]
        /\ F[Len(E) + 1] = e
    BY <1>1
  <2> HIDE DEF M, F
  <2>4. c.nodes = M /\ c.edges = F
    BY <2>1
  <2>5. e.source = "start" /\ \E i \in DOMAIN N : e.target = N[i].id
    <3>1. N # <<>>
      BY <1>6, Zenon DEF Started
    <3>2. PICK i \in DOMAIN N : RootId(N, E) = N[i].id
      BY <1>1, <3>1, RootIsAStep, Zenon
    <3>3. e.source = "start" /\ e.target = RootId(N, E)
      BY Zenon DEF ToRoot, e
    <3>4. QED
      BY <3>2, <3>3
  <2>6. First.id = "start"
    BY Zenon DEF First
  <2>7. \A i \in DOMAIN N : N[i].id \in CanvasIds(c)
    BY <2>2, <2>4 DEF CanvasIds
  <2>8. "start" \in CanvasIds(c)
    <3>1. 1 \in DOMAIN M
      BY <2>2
    <3>2. QED
      BY <2>2, <2>4, <2>6, <3>1 DEF CanvasIds
  <2>9. \A k \in DOMAIN F : F[k].source \in CanvasIds(c) /\ F[k].target \in CanvasIds(c)
    <3>1. \A k \in DOMAIN F : k \in DOMAIN E \/ k = Len(E) + 1
      BY <2>3
    <3>2. \A k \in DOMAIN E : E[k].source \in CanvasIds(c) /\ E[k].target \in CanvasIds(c)
      BY <1>4, <2>7
    <3>3. e.source \in CanvasIds(c) /\ e.target \in CanvasIds(c)
      BY <2>5, <2>7, <2>8
    <3>4. QED
      BY <2>3, <3>1, <3>2, <3>3
  <2>10. QED
    BY <2>4, <2>9 DEF c
<1>7. QED
  BY <1>5, <1>6

(* One step of the search: what its edges lead to joins the queue.         *)
LEMMA SearchOnStep ==
  ASSUME ReadingInv, SearchOn
  PROVE  ReadingInv'
<1> DEFINE c == Canvas
           Led(step) == {c.edges[k].target : k \in {l \in DOMAIN c.edges : c.edges[l].source = step}}
<1>1. PICK step \in queue : /\ queue' = (queue \ {step}) \cup (Led(step) \ reach)
                            /\ reach' = reach \cup (Led(step) \ reach)
  BY Zenon DEF SearchOn
<1>2. input.kind = "drawing" /\ input' = input /\ ended' = ended
  BY Zenon DEF SearchOn
<1>3. /\ input \in Drawings /\ input \in Walks \cup Arrivals \cup Drawings /\ ended \in BOOLEAN
      /\ Start(c) \subseteq reach /\ queue \subseteq reach /\ reach \subseteq CanvasIds(c)
      /\ \A S \in SUBSET CanvasIds(c) : Start(c) \subseteq S /\ Closed(c, S) => reach \subseteq S
      /\ \A k \in DOMAIN c.edges : c.edges[k].source \in reach \ queue => c.edges[k].target \in reach
      /\ ended => queue = {}
  BY <1>2, Zenon DEF ReadingInv, SearchInv
<1>4. input.def \in FlowDefinition
  BY <1>3, ReadingAssumption
<1>5. \A k \in DOMAIN c.edges : c.edges[k].target \in CanvasIds(c)
  BY <1>4, CanvasIsJoined, Zenon DEF Canvas
<1>6. Canvas' = Canvas
  BY <1>2, Zenon DEF Canvas
<1> HIDE DEF c
<1>7. Led(step) \subseteq CanvasIds(c)
  BY <1>5
<1>8. \A k \in DOMAIN c.edges : c.edges[k].source = step => c.edges[k].target \in Led(step)
  OBVIOUS
<1>9. \A S : step \in S /\ Closed(c, S) => Led(step) \subseteq S
  BY DEF Closed
<1> HIDE DEF Led
<1>10. Start(c) \subseteq reach' /\ queue' \subseteq reach' /\ reach' \subseteq CanvasIds(c)
  BY <1>1, <1>3, <1>7
<1>11. ASSUME NEW S \in SUBSET CanvasIds(c), Start(c) \subseteq S, Closed(c, S)
       PROVE  reach' \subseteq S
  <2>1. reach \subseteq S
    BY <1>3, <1>11
  <2>2. Led(step) \subseteq S
    BY <1>3, <1>9, <1>11, <2>1
  <2>3. QED
    BY <1>1, <2>1, <2>2
<1>12. ASSUME NEW k \in DOMAIN c.edges, c.edges[k].source \in reach' \ queue'
       PROVE  c.edges[k].target \in reach'
  BY <1>1, <1>3, <1>8, <1>12
<1>13. ended' => queue' = {}
  BY <1>2, <1>3, Zenon
<1>14. SearchInv'
  BY <1>2, <1>3, <1>6, <1>10, <1>11, <1>12, <1>13, Zenon DEF SearchInv, c
<1>15. WalkInv' /\ ArrivalInv'
  <2>1. input.kind # "walk" /\ input.kind # "arrival"
    BY <1>2
  <2>2. QED
    BY <1>2, <2>1, Zenon DEF WalkInv, ArrivalInv
<1>16. QED
  BY <1>2, <1>3, <1>14, <1>15, Zenon DEF ReadingInv

LEMMA SearchEndsStep ==
  ASSUME ReadingInv, SearchEnds
  PROVE  ReadingInv'
<1>1. input.kind = "drawing" /\ queue = {} /\ ended' = TRUE /\ input' = input /\ reach' = reach /\ queue' = queue
  BY Zenon DEF SearchEnds
<1>2. Canvas' = Canvas
  BY <1>1, Zenon DEF Canvas
<1>3. SearchInv'
  BY <1>1, <1>2, Zenon DEF ReadingInv, SearchInv
<1>4. input.kind # "walk" /\ input.kind # "arrival"
  BY <1>1
<1>5. QED
  BY <1>1, <1>3, <1>4, Zenon DEF ReadingInv, WalkInv, ArrivalInv

THEOREM LoopsComeAsFar == Spec => []ReadingInv
<1>1. Init => ReadingInv
  BY ReadingInit
<1>2. ReadingInv /\ [Next]_vars => ReadingInv'
  <2> SUFFICES ASSUME ReadingInv, [Next]_vars
               PROVE  ReadingInv'
    OBVIOUS
  <2>1. CASE UNCHANGED vars
    <3>1. Canvas' = Canvas
      BY <2>1, Zenon DEF vars, Canvas
    <3>2. QED
      BY <2>1, <3>1, Zenon DEF vars, ReadingInv, WalkInv, ArrivalInv, SearchInv, WalkSoFar, ArrivalSoFar
  <2>2. QED
    BY <2>1, FollowEdgeStep, MatchFlowStep, ListEndsStep, SearchOnStep, SearchEndsStep, Zenon DEF Next
<1>3. QED
  BY <1>1, <1>2, PTL DEF Spec

-----------------------------------------------------------------------------
(* The loops return what the lookups say.                                  *)

LEMMA SearchWarns ==
  ASSUME ReadingInv, input.kind = "drawing", ended
  PROVE  ValidateFlow(Canvas).warnings = IF Start(Canvas) = {} THEN {} ELSE CanvasIds(Canvas) \ reach
<1> DEFINE c == Canvas
           ids == CanvasIds(c)
           triggers == {i \in DOMAIN c.nodes : IsStart(c.nodes[i])}
           start == c.nodes[FirstOf(triggers)].id
<1>1. /\ input \in Drawings /\ queue = {}
      /\ Start(c) \subseteq reach /\ reach \subseteq ids
      /\ \A S \in SUBSET ids : Start(c) \subseteq S /\ Closed(c, S) => reach \subseteq S
      /\ \A k \in DOMAIN c.edges : c.edges[k].source \in reach \ queue => c.edges[k].target \in reach
  BY Zenon DEF ReadingInv, SearchInv
<1>2. Listed(c)
  <2>1. input.def \in FlowDefinition
    BY <1>1, ReadingAssumption
  <2>2. QED
    BY <2>1, StoredAreListed, Zenon DEF Canvas
<1>3. ValidateFlow(c).warnings = IF triggers = {} THEN {} ELSE Unreached(c, start)
  <2> DEFINE byNode == ValidateFlow(c).byNode
             global == ValidateFlow(c).global
             warnings == IF triggers = {} THEN {} ELSE Unreached(c, start)
  <2>1. \E b, g : ValidateFlow(c) = [byNode |-> b, global |-> g, warnings |-> warnings]
    BY Zenon DEF ValidateFlow
  <2> HIDE DEF warnings
  <2>2. QED
    BY <2>1 DEF warnings
<1>4. /\ triggers = {} => Start(c) = {}
      /\ triggers # {} => Start(c) = {start}
  BY <1>2, StartIsDrawn, Zenon
<1>5. Unreached(c, start) = {id \in ids : \E S \in SUBSET ids : start \in S /\ id \notin S /\ Closed(c, S)}
  BY Zenon DEF Unreached, Closed
<1> HIDE DEF c, ids, triggers, start
<1>6. Closed(c, reach)
  BY <1>1 DEF Closed
<1>7. ASSUME triggers # {}
      PROVE  Unreached(c, start) = ids \ reach
  <2>1. start \in reach
    BY <1>1, <1>4, <1>7
  <2>2. \A id \in ids : id \notin reach => \E S \in SUBSET ids : start \in S /\ id \notin S /\ Closed(c, S)
    BY <1>1, <1>6, <2>1
  <2>3. \A S \in SUBSET ids : start \in S /\ Closed(c, S) => reach \subseteq S
    BY <1>1, <1>4, <1>7
  <2>4. QED
    BY <1>5, <2>2, <2>3
<1>8. triggers # {} => Start(c) # {}
  BY <1>4
<1>9. QED
  BY <1>3, <1>4, <1>7, <1>8 DEF c, ids

(* The loops of NextNode, HandleInbound and validateFlow return what the   *)
(* lookups say, for lists of every length.                                 *)
THEOREM LoopsAreTheLookups == Spec => []LookupsAreTheLoops
<1>1. ReadingInv => LookupsAreTheLoops
  <2> SUFFICES ASSUME ReadingInv
               PROVE  LookupsAreTheLoops
    OBVIOUS
  <2>1. input.kind = "walk" /\ ended => found = NextNode(input.def, input.node, input.handle)
    BY Zenon DEF ReadingInv, WalkInv
  <2>2. ASSUME input.kind = "arrival", ended
        PROVE  found = BestFlow(input.defs, input.ev)
    <3> DEFINE defs == input.defs
               ev == input.ev
    <3>1. /\ input \in Arrivals /\ place \in Nat \ {0} /\ priority \in Nat
          /\ place \notin DOMAIN defs /\ ArrivalSoFar(defs, ev)
      BY <2>2, Zenon DEF ReadingInv, ArrivalInv
    <3>2. defs \in Seq(FlowDefinition)
      BY <3>1, ReadingAssumption
    <3> HIDE DEF defs, ev
    <3>3. DOMAIN defs \in SUBSET (Nat \ {0}) /\ \A j \in DOMAIN defs : j < place
      BY <3>1, <3>2
    <3>4. /\ \A j \in DOMAIN defs : j < place => Priority(defs[j], ev) <= priority
          /\ found = NoNode => priority = 0
          /\ found # NoNode =>
               /\ found \in DOMAIN defs /\ found < place
               /\ Priority(defs[found], ev) = priority /\ priority > 0
               /\ \A j \in DOMAIN defs : j < found => Priority(defs[j], ev) < priority
      BY <3>1, Zenon DEF ArrivalSoFar
    <3>5. \A j : Priority(defs[j], ev) \in Nat
      BY PriorityRange
    <3>6. CASE found = NoNode
      <4>1. \A j \in DOMAIN defs : Priority(defs[j], ev) = 0
        BY <3>3, <3>4, <3>5, <3>6
      <4>2. QED
        BY <3>3, <3>6, <4>1, BestFlowIs, Zenon DEF defs, ev
    <3>7. CASE found # NoNode
      <4>1. /\ found \in DOMAIN defs /\ Priority(defs[found], ev) > 0
            /\ \A j \in DOMAIN defs : /\ Priority(defs[j], ev) <= Priority(defs[found], ev)
                                      /\ j < found => Priority(defs[j], ev) < Priority(defs[found], ev)
        BY <3>3, <3>4, <3>7
      <4>2. QED
        BY <3>3, <4>1, BestFlowIs, Zenon DEF defs, ev
    <3>8. QED
      BY <3>6, <3>7
  <2>3. QED
    BY <2>1, <2>2, SearchWarns, Zenon DEF LookupsAreTheLoops
<1>2. QED
  BY <1>1, LoopsComeAsFar, PTL

(* What Validate lets an operator activate starts at its only trigger and  *)
(* has no output into nowhere.                                             *)
THEOREM ActivatedFlowsLeadSomewhere == Spec => []ValidFlowsLeadSomewhere
<1>1. ReadingInv => ValidFlowsLeadSomewhere
  <2> SUFFICES ASSUME ReadingInv, input.kind = "walk", Valid(input.def)
               PROVE  LeadsSomewhere(input.def)
    BY Zenon DEF ValidFlowsLeadSomewhere
  <2>1. input \in Walks
    BY Zenon DEF ReadingInv, WalkInv
  <2>2. input.def \in FlowDefinition
    BY <2>1, ReadingAssumption
  <2>3. QED
    BY <2>2, ValidFlowLeadsSomewhere, Zenon
<1>2. QED
  BY <1>1, LoopsComeAsFar, PTL

-----------------------------------------------------------------------------
(* The browser's validation *)

LEMMA PlacesOfAList ==
  ASSUME NEW n \in Nat
  PROVE  IsFiniteSet(1..n) /\ Cardinality(1..n) = n
<1>1. IsFiniteSet(1..n) /\ Cardinality(1..n) = IF 1 > n THEN 0 ELSE n-1+1
  <2>1. n \in Int /\ 1 \in Int
    OBVIOUS
  <2>2. QED
    BY <2>1, FS_Interval, Zenon
<1>2. QED
  BY <1>1

(* As many identifiers as nodes: no two nodes share one.                   *)
LEMMA CountedAreDistinct ==
  ASSUME NEW X, NEW N \in Seq(X), Cardinality({N[i].id : i \in DOMAIN N}) = Len(N)
  PROVE  Distinct(N)
<1> DEFINE n == Len(N)
           ids == {N[i].id : i \in DOMAIN N}
           f == [i \in DOMAIN N |-> N[i].id]
<1>1. n \in Nat /\ DOMAIN N = 1..n
  OBVIOUS
<1>2. IsFiniteSet(DOMAIN N) /\ Cardinality(DOMAIN N) = n
  BY <1>1, PlacesOfAList, Zenon
<1>3. f \in Surjection(DOMAIN N, ids)
  BY Zenon DEF Surjection
<1> HIDE DEF f, ids, n
<1>4. f \in Injection(DOMAIN N, ids)
  BY <1>2, <1>3, FS_Surjection DEF ids, n
<1>5. \A i, j \in DOMAIN N : f[i] = f[j] => i = j
  BY <1>4, Zenon DEF Injection, IsInjective
<1>6. QED
  BY <1>5, Zenon DEF f, Distinct

LEMMA StartLeavesByNext ==
  /\ "trigger" \in NodeTypes
  /\ StepOutputs("trigger") = {"next"}
  /\ DefaultHandle("trigger") = "next"
<1>1. "trigger" \in NodeTypes
  BY DEF NodeTypes
<1>2. NodeHandles["trigger"] = <<"next">>
  BY SMTT(30) DEF NodeHandles
<1>3. NODE_SPECS["trigger"].outputs = <<"next">>
  BY <1>1, <1>2, CataloguesAgree, Zenon
<1>4. DOMAIN <<"next">> = {1} /\ <<"next">>[1] = "next" /\ <<"next">> # <<>>
  OBVIOUS
<1>5. StepOutputs("trigger") = {"next"}
  <2>1. StepOutputs("trigger") = {<<"next">>[i] : i \in DOMAIN <<"next">>}
    BY <1>3, Zenon DEF StepOutputs
  <2>2. QED
    BY <1>4, <2>1
<1>6. DefaultHandle("trigger") = <<"next">>[1]
  BY <1>1, <1>2, <1>4, Zenon DEF DefaultHandle
<1>7. QED
  BY <1>1, <1>4, <1>5, <1>6

(* The step that an identifier of a drawing with an added start names.     *)
LEMMA StepsMoveByOne ==
  ASSUME NEW N \in Seq(AStep), NEW id, id # "start", \E i \in DOMAIN N : N[i].id = id
  PROVE  LET M == <<First>> \o N
         IN M[FirstOf({i \in DOMAIN M : M[i].id = id})] = N[FirstOf({i \in DOMAIN N : N[i].id = id})]
<1> DEFINE M == <<First>> \o N
           S == {i \in DOMAIN N : N[i].id = id}
           T == {i \in DOMAIN M : M[i].id = id}
           f == FirstOf(S)
<1>1. /\ Len(N) \in Nat /\ DOMAIN N = 1..Len(N) /\ DOMAIN M = 1..(Len(N) + 1)
      /\ M[1] = First /\ \A i \in DOMAIN N : M[i + 1] = N[i]
  OBVIOUS
<1>2. First.id = "start"
  BY Zenon DEF First
<1> HIDE DEF M
<1>3. S \in SUBSET (Nat \ {0}) /\ S # {} /\ T \in SUBSET (Nat \ {0})
  BY <1>1
<1>4. \A j \in S : j + 1 \in T
  BY <1>1
<1>5. \A j \in T : j - 1 \in S /\ j \in Nat
  <2> TAKE j \in T
  <2>1. j # 1
    BY <1>1, <1>2
  <2>2. j - 1 \in DOMAIN N /\ j = (j - 1) + 1 /\ j \in Nat
    BY <1>1, <2>1
  <2>3. M[j] = N[j - 1]
    BY <1>1, <2>2
  <2>4. QED
    BY <2>2, <2>3
<1>6. \A i \in S : i \in DOMAIN N
  OBVIOUS
<1> HIDE DEF S, T
<1>7. PICK i \in S : \A j \in S : i <= j
  BY <1>3, ForemostExists, Zenon DEF Foremost
<1>8. f = i
  BY <1>3, <1>7, FirstOfIs
<1>9. \A j \in T : i + 1 <= j
  BY <1>3, <1>5, <1>7
<1>10. FirstOf(T) = i + 1
  BY <1>3, <1>4, <1>9, FirstOfIs
<1>11. M[FirstOf(T)] = N[f]
  BY <1>1, <1>6, <1>8, <1>10
<1>12. QED
  BY <1>11, Zenon DEF S, T, M

(* A start that is added can be told apart.                                *)
Fresh(def) == "start" \notin NodeIds(def) \/ \E i \in DOMAIN def.nodes : IsStart(def.nodes[i])

LEMMA AddedStartIsNew ==
  ASSUME NEW def \in FlowDefinition, Fresh(def), ~Started(Retyped(def))
  PROVE  "start" \notin NodeIds(def) /\ \A i \in DOMAIN Retyped(def) : Retyped(def)[i].id # "start"
<1>1. \A i \in DOMAIN def.nodes : ~IsStart(def.nodes[i])
  <2> SUFFICES ASSUME NEW i \in DOMAIN def.nodes, IsStart(def.nodes[i])
               PROVE  FALSE
    OBVIOUS
  <2>1. CanvasType(def.nodes[i].type) = "trigger"
    BY StartLeavesByNext, CanvasTypes, Zenon DEF IsStart
  <2>2. def.nodes[i] \in FlowNode
    BY PositionsAreNumbers
  <2>3. Retyped(def)[i] = [def.nodes[i] EXCEPT !.type = CanvasType(def.nodes[i].type)]
    BY Zenon DEF Retyped
  <2> DEFINE type == CanvasType(def.nodes[i].type)
  <2> HIDE DEF type
  <2>4. [def.nodes[i] EXCEPT !.type = type].type = type
    BY <2>2 DEF FlowNode
  <2>5. IsStart(Retyped(def)[i]) /\ i \in DOMAIN Retyped(def)
    BY <2>1, <2>3, <2>4, StepsOfStored, Zenon DEF IsStart, type
  <2>6. QED
    BY <2>5, Zenon DEF Started
<1>2. "start" \notin NodeIds(def)
  BY <1>1, Zenon DEF Fresh
<1>3. \A i \in DOMAIN def.nodes : def.nodes[i].id # "start"
  BY <1>2, Zenon DEF NodeIds
<1>4. QED
  BY <1>2, <1>3, StepsOfStored, Zenon

(* Every edge of a canvas leaves by an output of its step.                 *)
LEMMA CanvasLeavesByOutputs ==
  ASSUME NEW def \in FlowDefinition, Fresh(def)
  PROVE  LET c == ToCanvas(def, "start")
         IN \A k \in DOMAIN c.edges : LeavesBy(c.edges[k].handle, StepOf(c, c.edges[k].source).type)
<1> DEFINE c == ToCanvas(def, "start")
           N == Retyped(def)
           E == Rehandled(def)
           M == <<First>> \o N
           e == ToRoot(N, E)
           F == Append(E, e)
<1>1. N \in Seq(AStep) /\ E \in Seq(AnEdge) /\ \A k \in DOMAIN E : Leads(Bare(N), E[k])
  BY StepsOfStored, EdgesOfStored, Zenon
<1>2. c = IF Started(N) THEN [nodes |-> N, edges |-> E] ELSE [nodes |-> M, edges |-> F]
  BY CanvasParts, Zenon
<1>3. \A id : StepOf(Bare(N), id) = N[FirstOf({i \in DOMAIN N : N[i].id = id})]
  BY Zenon DEF StepOf, Bare
<1>4. \A id : StepOf(c, id) = c.nodes[FirstOf({i \in DOMAIN c.nodes : c.nodes[i].id = id})]
  BY Zenon DEF StepOf
<1>5. \A k \in DOMAIN E : LeavesBy(E[k].handle, StepOf(Bare(N), E[k].source).type)
  BY <1>1, Zenon DEF Leads
<1>6. \A k \in DOMAIN E : \E i \in DOMAIN N : N[i].id = E[k].source
  <2>1. CanvasIds(Bare(N)) = {N[i].id : i \in DOMAIN N}
    BY Zenon DEF CanvasIds, Bare
  <2>2. QED
    BY <1>1, <2>1, Zenon DEF Leads
<1>7. ~Started(N) => \A i \in DOMAIN N : N[i].id # "start"
  BY AddedStartIsNew, Zenon
<1> HIDE DEF c, N, E, e
<1>8. CASE Started(N)
  <2>1. c = [nodes |-> N, edges |-> E]
    BY <1>2, <1>8, Zenon
  <2>2. c.nodes = N /\ c.edges = E
    BY <2>1
  <2>3. \A id : StepOf(c, id) = StepOf(Bare(N), id)
    <3>1. \A id : StepOf(c, id) = N[FirstOf({i \in DOMAIN N : N[i].id = id})]
      BY <1>4, <2>2
    <3>2. QED
      BY <1>3, <3>1, Zenon
  <2>4. \A k \in DOMAIN c.edges : LeavesBy(c.edges[k].handle, StepOf(c, c.edges[k].source).type)
    BY <1>5, <2>2, <2>3, Zenon
  <2>5. QED
    BY <2>4, Zenon DEF c
<1>9. CASE ~Started(N)
  <2>1. c = [nodes |-> M, edges |-> F]
    BY <1>2, <1>9, Zenon
  <2>2. /\ Len(E) \in Nat /\ DOMAIN E = 1..Len(E) /\ DOMAIN F = 1..(Len(E) + 1)
        /\ \A k \in DOMAIN E : F[k] = E[k]
        /\ F[Len(E) + 1] = e
    BY <1>1
  <2>3. M[1] = First /\ DOMAIN M \in SUBSET (Nat \ {0}) /\ 1 \in DOMAIN M
    BY <1>1
  <2>4. ASSUME NEW k \in DOMAIN E
        PROVE  LeavesBy(F[k].handle, StepOf(c, F[k].source).type)
    <3>1. E[k].source # "start" /\ \E i \in DOMAIN N : N[i].id = E[k].source
      BY <1>6, <1>7, <1>9
    <3>2. StepOf(c, E[k].source) = StepOf(Bare(N), E[k].source)
      <4>1. M[FirstOf({i \in DOMAIN M : M[i].id = E[k].source})]
              = N[FirstOf({i \in DOMAIN N : N[i].id = E[k].source})]
        BY <1>1, <3>1, StepsMoveByOne, Zenon
      <4> HIDE DEF M, F
      <4>2. c.nodes = M
        BY <2>1
      <4>3. StepOf(c, E[k].source) = M[FirstOf({i \in DOMAIN M : M[i].id = E[k].source})]
        BY <1>4, <4>2
      <4>4. QED
        BY <1>3, <4>1, <4>3, Zenon
    <3> HIDE DEF M, F
    <3>3. QED
      BY <1>5, <2>2, <3>2, Zenon
  <2> HIDE DEF M, F
  <2>5. c.nodes = M /\ c.edges = F
    BY <2>1
  <2>6. LeavesBy(e.handle, StepOf(c, e.source).type)
    <3> DEFINE S == {i \in DOMAIN M : M[i].id = "start"}
    <3>1. S \in SUBSET (Nat \ {0}) /\ 1 \in S /\ \A j \in S : 1 <= j
      <4>1. First.id = "start"
        BY Zenon DEF First
      <4>2. QED
        BY <2>3, <4>1
    <3>2. FirstOf(S) = 1
      <4> HIDE DEF S
      <4>1. QED
        BY <3>1, FirstOfIs
    <3>3. StepOf(c, "start") = First
      BY <1>4, <2>3, <2>5, <3>2, Zenon
    <3>4. e.source = "start" /\ e.handle = "next" /\ First.type = "trigger"
      BY Zenon DEF e, ToRoot, First
    <3>5. "next" \in StepOutputs("trigger")
      BY StartLeavesByNext
    <3>6. QED
      BY <3>3, <3>4, <3>5, Zenon DEF LeavesBy
  <2>7. \A k \in DOMAIN F : k \in DOMAIN E \/ F[k] = e
    BY <2>2
  <2>8. \A k \in DOMAIN c.edges : LeavesBy(c.edges[k].handle, StepOf(c, c.edges[k].source).type)
    BY <2>4, <2>5, <2>6, <2>7, Zenon
  <2>9. QED
    BY <2>8, Zenon DEF c
<1>10. QED
  BY <1>8, <1>9

(* What the browser looks for, part by part.                               *)
LEMMA NoProblemsParts ==
  ASSUME NEW c
  PROVE  LET triggers == {i \in DOMAIN c.nodes : IsStart(c.nodes[i])}
             start == c.nodes[FirstOf(triggers)].id
         IN NoProblems(c) <=>
              /\ \A i \in DOMAIN c.nodes : "browser" \in c.nodes[i].complete
              /\ triggers # {} /\ ~(Cardinality(triggers) > 1)
              /\ Len(c.nodes) > 1 => \E k \in DOMAIN c.edges : c.edges[k].source = start
              /\ \A k \in DOMAIN c.edges : c.edges[k].source \in CanvasIds(c) /\ c.edges[k].target \in CanvasIds(c)
<1> DEFINE triggers == {i \in DOMAIN c.nodes : IsStart(c.nodes[i])}
           ids == CanvasIds(c)
           start == c.nodes[FirstOf(triggers)].id
           loose == /\ triggers # {}
                    /\ Len(c.nodes) > 1
                    /\ \A k \in DOMAIN c.edges : c.edges[k].source # start
           byNode == {<<c.nodes[i].id, "incomplete">> : i \in {j \in DOMAIN c.nodes : "browser" \notin c.nodes[j].complete}}
                       \cup (IF loose THEN {<<start, "not connected">>} ELSE {})
           global == {p \in {"no start", "two starts", "dangling"} :
                        CASE p = "no start" -> triggers = {}
                          [] p = "two starts" -> Cardinality(triggers) > 1
                          [] p = "dangling" -> \E k \in DOMAIN c.edges :
                                                 \/ c.edges[k].source \notin ids
                                                 \/ c.edges[k].target \notin ids}
<1>1. \E w : ValidateFlow(c) = [byNode |-> byNode, global |-> global, warnings |-> w]
  BY Zenon DEF ValidateFlow
<1>2. ValidateFlow(c).byNode = byNode /\ ValidateFlow(c).global = global
  <2> HIDE DEF byNode, global
  <2>1. QED
    BY <1>1
<1>3. byNode = {} <=> (\A i \in DOMAIN c.nodes : "browser" \in c.nodes[i].complete) /\ ~loose
  <2> HIDE DEF loose, start
  <2>1. (\E i \in DOMAIN c.nodes : "browser" \notin c.nodes[i].complete) => byNode # {}
    <3>1. ASSUME NEW i \in DOMAIN c.nodes, "browser" \notin c.nodes[i].complete
          PROVE  <<c.nodes[i].id, "incomplete">> \in byNode
      BY <3>1, Zenon
    <3>2. QED
      BY <3>1, Zenon
  <2>2. loose => byNode # {}
    <3>1. loose => <<start, "not connected">> \in byNode
      BY Zenon
    <3>2. QED
      BY <3>1, Zenon
  <2>3. ~loose /\ (\A i \in DOMAIN c.nodes : "browser" \in c.nodes[i].complete) => byNode = {}
    <3> SUFFICES ASSUME ~loose, \A i \in DOMAIN c.nodes : "browser" \in c.nodes[i].complete
                 PROVE  byNode = {}
      OBVIOUS
    <3>1. {j \in DOMAIN c.nodes : "browser" \notin c.nodes[j].complete} = {}
      BY Zenon
    <3>2. QED
      BY <3>1
  <2>4. QED
    BY <2>1, <2>2, <2>3, Zenon
<1>4. global = {} <=> /\ triggers # {} /\ ~(Cardinality(triggers) > 1)
                      /\ \A k \in DOMAIN c.edges : c.edges[k].source \in ids /\ c.edges[k].target \in ids
  <2> DEFINE none == triggers = {}
             two == Cardinality(triggers) > 1
             dangling == \E k \in DOMAIN c.edges : c.edges[k].source \notin ids \/ c.edges[k].target \notin ids
  <2>1. global = {p \in {"no start", "two starts", "dangling"} :
                    CASE p = "no start" -> none [] p = "two starts" -> two [] p = "dangling" -> dangling}
    BY Zenon
  <2> HIDE DEF global, none, two, dangling
  <2>2. global = {} <=> ~none /\ ~two /\ ~dangling
    <3>1. "no start" \in global <=> none
      BY <2>1, Zenon
    <3>2. "two starts" \in global <=> two
      BY <2>1, Zenon
    <3>3. "dangling" \in global <=> dangling
      BY <2>1, Zenon
    <3>4. \A p \in global : p = "no start" \/ p = "two starts" \/ p = "dangling"
      BY <2>1, Zenon
    <3>5. global = {} <=> ~none /\ ~two /\ ~dangling
      <4>1. none \/ two \/ dangling => global # {}
        BY <3>1, <3>2, <3>3, Zenon
      <4>2. ASSUME global # {}
            PROVE  none \/ two \/ dangling
        <5>1. PICK p : p \in global
          BY <4>2, Zenon
        <5>2. QED
          BY <3>1, <3>2, <3>3, <3>4, <5>1, Zenon
      <4>3. QED
        BY <4>1, <4>2, Zenon
    <3>6. QED
      BY <3>5
  <2>3. QED
    BY <2>2, Zenon DEF none, two, dangling
<1>5. NoProblems(c) <=> byNode = {} /\ global = {}
  <2> HIDE DEF byNode, global
  <2>1. QED
    BY <1>2, Zenon DEF NoProblems
<1> HIDE DEF byNode, global, triggers, start
<1>6. QED
  BY <1>3, <1>4, <1>5, Zenon DEF triggers, start

(* A canvas that can be saved: what it stores is what it shows.            *)
LEMMA SavedParts ==
  ASSUME NEW def \in FlowDefinition, NEW t
  PROVE  LET c == ToCanvas(def, "start")
             saved == ToDefinition(c, t)
         IN /\ saved.nodes = c.nodes /\ saved.edges = c.edges
            /\ NodeIds(saved) = CanvasIds(c) /\ Listed(saved)
            /\ \A k \in DOMAIN c.edges : c.edges[k].source \in NodeIds(saved) /\ c.edges[k].target \in NodeIds(saved)
<1> DEFINE c == ToCanvas(def, "start")
           saved == ToDefinition(c, t)
<1>1. saved.nodes = c.nodes /\ saved.edges = c.edges
  <2> HIDE DEF c
  <2>1. saved = [nodes |-> c.nodes, edges |-> c.edges, trigger |-> t]
    BY Zenon DEF ToDefinition
  <2> DEFINE n == c.nodes
             e == c.edges
  <2> HIDE DEF saved, n, e
  <2>2. saved = [nodes |-> n, edges |-> e, trigger |-> t]
    BY <2>1, Zenon DEF n, e
  <2>3. saved.nodes = n /\ saved.edges = e
    BY <2>2
  <2>4. QED
    BY <2>3, Zenon DEF n, e
<1>2. Listed(c) /\ \A k \in DOMAIN c.edges : c.edges[k].source \in CanvasIds(c) /\ c.edges[k].target \in CanvasIds(c)
  BY StoredAreListed, CanvasIsJoined, Zenon
<1> HIDE DEF c, saved
<1>3. NodeIds(saved) = CanvasIds(c)
  BY <1>1 DEF NodeIds, CanvasIds
<1>4. Listed(saved)
  BY <1>1, <1>2, Zenon DEF Listed
<1>5. \A k \in DOMAIN c.edges : c.edges[k].source \in NodeIds(saved) /\ c.edges[k].target \in NodeIds(saved)
  BY <1>2, <1>3, Zenon
<1>6. QED
  BY <1>1, <1>3, <1>4, <1>5, Zenon DEF c, saved

(* Edges leave the start by the output a run begins with.                  *)
LEMMA StartIsConnected ==
  ASSUME NEW def \in FlowDefinition, Fresh(def), NEW t,
         Distinct(ToCanvas(def, "start").nodes),
         NEW s \in DOMAIN ToCanvas(def, "start").nodes, IsStart(ToCanvas(def, "start").nodes[s])
  PROVE  LET c == ToCanvas(def, "start")
         IN NextNode(ToDefinition(c, t), s, "") # NoNode
              <=> \E k \in DOMAIN c.edges : c.edges[k].source = c.nodes[s].id
<1> DEFINE c == ToCanvas(def, "start")
           saved == ToDefinition(c, t)
           N == Named(saved, s, "")
           P == Plain(saved, s, "")
<1>1. /\ saved.nodes = c.nodes /\ saved.edges = c.edges
      /\ NodeIds(saved) = CanvasIds(c) /\ Listed(saved)
      /\ \A k \in DOMAIN c.edges : c.edges[k].source \in NodeIds(saved) /\ c.edges[k].target \in NodeIds(saved)
  BY SavedParts, Zenon
<1>2. \A k \in DOMAIN c.edges : LeavesBy(c.edges[k].handle, StepOf(c, c.edges[k].source).type)
  BY CanvasLeavesByOutputs, Zenon
<1>3. \A k \in DOMAIN c.edges : c.edges[k].source = c.nodes[s].id => c.edges[k].handle = "next"
  <2> SUFFICES ASSUME NEW k \in DOMAIN c.edges, c.edges[k].source = c.nodes[s].id
               PROVE  c.edges[k].handle = "next"
    OBVIOUS
  <2>1. c.nodes \in Seq(AStep) /\ c.edges[k].source \in CanvasIds(c)
    BY <1>1, CanvasOfStored, Zenon
  <2> HIDE DEF c
  <2>2. PICK i \in DOMAIN c.nodes : StepOf(c, c.edges[k].source) = c.nodes[i] /\ c.nodes[i].id = c.edges[k].source
    BY <2>1, StepOfFinds, Zenon
  <2>3. i = s
    BY <2>2, Zenon DEF Distinct, c
  <2>4. StepOf(c, c.edges[k].source).type = "trigger"
    BY <2>2, <2>3, Zenon DEF IsStart, c
  <2> DEFINE handle == c.edges[k].handle
  <2>5. LeavesBy(handle, "trigger")
    BY <1>2, <2>4, Zenon
  <2> HIDE DEF handle
  <2>6. handle = "next"
    <3>1. handle \in {"next"} \/ {"next"} = {}
      BY <2>5, StartLeavesByNext, Zenon DEF LeavesBy
    <3>2. QED
      BY <3>1
  <2>7. QED
    BY <2>6, Zenon DEF handle
<1>4. Wanted(saved, s, "") = "next"
  <2>1. saved.nodes[s].type = "trigger"
    BY <1>1, Zenon DEF IsStart
  <2>2. QED
    BY <2>1, StartLeavesByNext, Zenon DEF Wanted
<1>5. /\ \A k \in N : Foremost(N, k) => NextNode(saved, s, "") = Behind(saved, k)
      /\ N = {} /\ P = {} => NextNode(saved, s, "") = NoNode
  BY <1>1, NextNodeParts, Zenon
<1>6. \A k : k \in N <=> /\ k \in DOMAIN c.edges /\ c.edges[k].source = c.nodes[s].id
                         /\ c.edges[k].handle = "next"
  BY <1>1, <1>4, Zenon DEF Named
<1>7. \A k : k \in P => k \in DOMAIN c.edges /\ c.edges[k].source = c.nodes[s].id
  BY <1>1, Zenon DEF Plain
<1>8. N \in SUBSET (Nat \ {0})
  <2>1. DOMAIN c.edges \in SUBSET (Nat \ {0})
    BY <1>1, Zenon DEF Listed
  <2> HIDE DEF N, c
  <2>2. QED
    BY <1>6, <2>1
<1>9. \A k \in N : Behind(saved, k) # NoNode
  <2>1. \A k \in N : saved.edges[k].target \in NodeIds(saved)
    BY <1>1, <1>6, Zenon
  <2>2. QED
    BY <1>1, <2>1, NodeFound, Zenon DEF Behind
<1> HIDE DEF c, saved, N, P
<1>10. ASSUME NEW k \in DOMAIN c.edges, c.edges[k].source = c.nodes[s].id
       PROVE  NextNode(saved, s, "") # NoNode
  <2>1. N # {}
    BY <1>3, <1>6, <1>10
  <2>2. PICK j \in N : Foremost(N, j)
    BY <1>8, <2>1, ForemostExists
  <2>3. QED
    BY <1>5, <1>9, <2>2, Zenon
<1>11. ASSUME NextNode(saved, s, "") # NoNode
       PROVE  \E k \in DOMAIN c.edges : c.edges[k].source = c.nodes[s].id
  <2>1. N # {} \/ P # {}
    BY <1>5, <1>11, Zenon
  <2>2. QED
    BY <1>6, <1>7, <2>1, Zenon
<1>12. QED
  BY <1>10, <1>11, Zenon DEF c, saved

(* What is looked at apart from the data of single steps: the steps that   *)
(* start, and what follows the first of them.                              *)
Content(c, reader) == \A i \in DOMAIN c.nodes : reader \in c.nodes[i].complete
Sound(c) ==
  LET triggers == {i \in DOMAIN c.nodes : IsStart(c.nodes[i])}
  IN /\ Cardinality(triggers) = 1
     /\ Len(c.nodes) > 1 => \E k \in DOMAIN c.edges : c.edges[k].source = c.nodes[FirstOf(triggers)].id

LEMMA ValidationsAgree ==
  ASSUME NEW def \in FlowDefinition, Fresh(def), NEW t
  PROVE  LET c == ToCanvas(def, "start")
             saved == ToDefinition(c, t)
         IN Cardinality(NodeIds(saved)) = Len(saved.nodes) =>
              /\ NoProblems(c) <=> Content(c, "browser") /\ Sound(c)
              /\ Valid(saved) <=> Content(c, "engine") /\ Sound(c)
<1> DEFINE c == ToCanvas(def, "start")
           saved == ToDefinition(c, t)
           triggers == {i \in DOMAIN c.nodes : IsStart(c.nodes[i])}
           s == FirstOf(triggers)
<1> SUFFICES ASSUME Cardinality(NodeIds(saved)) = Len(saved.nodes)
             PROVE  /\ NoProblems(c) <=> Content(c, "browser") /\ Sound(c)
                    /\ Valid(saved) <=> Content(c, "engine") /\ Sound(c)
  OBVIOUS
<1>1. /\ saved.nodes = c.nodes /\ saved.edges = c.edges
      /\ NodeIds(saved) = CanvasIds(c) /\ Listed(saved)
      /\ \A k \in DOMAIN c.edges : c.edges[k].source \in NodeIds(saved) /\ c.edges[k].target \in NodeIds(saved)
  BY SavedParts, Zenon
<1>2. c.nodes \in Seq(AStep)
  BY CanvasOfStored, Zenon
<1>3. Distinct(c.nodes)
  <2>1. CanvasIds(c) = {c.nodes[i].id : i \in DOMAIN c.nodes}
    BY Zenon DEF CanvasIds
  <2>2. Cardinality({c.nodes[i].id : i \in DOMAIN c.nodes}) = Len(c.nodes)
    BY <1>1, <2>1, Zenon
  <2> HIDE DEF c
  <2>3. QED
    BY <1>2, <2>2, CountedAreDistinct, Zenon
<1>4. NoProblems(c) <=>
        /\ \A i \in DOMAIN c.nodes : "browser" \in c.nodes[i].complete
        /\ triggers # {} /\ ~(Cardinality(triggers) > 1)
        /\ Len(c.nodes) > 1 => \E k \in DOMAIN c.edges : c.edges[k].source = c.nodes[s].id
  BY <1>1, NoProblemsParts, Zenon
<1>5. Valid(saved) <=>
        /\ \A i \in DOMAIN c.nodes : c.nodes[i].type \in NodeTypes /\ "engine" \in c.nodes[i].complete
        /\ Cardinality(triggers) = 1
        /\ Len(c.nodes) > 1 => NextNode(saved, StartNode(saved), "") # NoNode
  <2> DEFINE T == {i \in DOMAIN saved.nodes : saved.nodes[i].type = "trigger"}
  <2>1. Valid(saved) <=>
          /\ Cardinality(NodeIds(saved)) = Len(saved.nodes)
          /\ \A i \in DOMAIN saved.nodes : saved.nodes[i].type \in NodeTypes /\ "engine" \in saved.nodes[i].complete
          /\ Cardinality(T) = 1
          /\ \A k \in DOMAIN saved.edges :
               saved.edges[k].source \in NodeIds(saved) /\ saved.edges[k].target \in NodeIds(saved)
          /\ Len(saved.nodes) > 1 => NextNode(saved, StartNode(saved), "") # NoNode
    BY Zenon DEF Valid
  <2>2. T = triggers
    <3> HIDE DEF saved, c
    <3>1. QED
      BY <1>1 DEF IsStart
  <2> HIDE DEF T, triggers
  <2>3. QED
    BY <1>1, <2>1, <2>2, Zenon
<1>6. \A i \in DOMAIN c.nodes : c.nodes[i].type \in NodeTypes
  <2> HIDE DEF c
  <2>1. \A i \in DOMAIN c.nodes : c.nodes[i] \in AStep
    BY <1>2
  <2>2. QED
    BY <2>1, Zenon DEF AStep
<1>7. triggers \subseteq DOMAIN c.nodes /\ triggers \in SUBSET (Nat \ {0})
  <2> HIDE DEF c
  <2>1. triggers \subseteq DOMAIN c.nodes
    OBVIOUS
  <2> HIDE DEF triggers
  <2>2. QED
    BY <1>2, <2>1
<1>8. triggers # {} /\ ~(Cardinality(triggers) > 1) <=> Cardinality(triggers) = 1
  <2> HIDE DEF c, triggers
  <2>1. IsFiniteSet(DOMAIN c.nodes)
    <3>1. DOMAIN c.nodes = 1..Len(c.nodes) /\ Len(c.nodes) \in Nat
      BY <1>2
    <3>2. QED
      BY <3>1, PlacesOfAList, Zenon
  <2>2. IsFiniteSet(triggers)
    BY <1>7, <2>1, FS_Subset, Zenon
  <2>3. Cardinality(triggers) \in Nat /\ (Cardinality(triggers) = 0 <=> triggers = {})
    BY <2>2, FS_CardinalityType, FS_EmptySet, Zenon
  <2> DEFINE card == Cardinality(triggers)
  <2> HIDE DEF card
  <2>4. card \in Nat => (card # 0 /\ ~(card > 1) <=> card = 1)
    OBVIOUS
  <2>5. QED
    BY <2>3, <2>4, Zenon DEF card
<1>9. ASSUME triggers # {}
      PROVE  /\ StartNode(saved) = s
             /\ NextNode(saved, s, "") # NoNode <=> \E k \in DOMAIN c.edges : c.edges[k].source = c.nodes[s].id
  <2>1. s \in triggers /\ s # NoNode
    <3> HIDE DEF triggers
    <3>1. QED
      BY <1>7, <1>9, FirstOfIsFirst, Zenon
  <2>2. s \in DOMAIN c.nodes /\ IsStart(c.nodes[s])
    BY <2>1, Zenon
  <2>3. FirstOf({i \in DOMAIN saved.nodes : saved.nodes[i].type = "trigger"}) = s
    <3>1. {i \in DOMAIN saved.nodes : saved.nodes[i].type = "trigger"} = triggers
      <4> HIDE DEF saved, c
      <4>1. QED
        BY <1>1 DEF IsStart
    <3> HIDE DEF triggers, saved
    <3>2. QED
      BY <3>1, Zenon
  <2>4. StartNode(saved) = s
    <3> HIDE DEF saved, s
    <3>1. QED
      BY <2>1, <2>3, Zenon DEF StartNode
  <2>5. NextNode(saved, s, "") # NoNode <=> \E k \in DOMAIN c.edges : c.edges[k].source = c.nodes[s].id
    <3> HIDE DEF s
    <3>1. QED
      BY <1>3, <2>2, StartIsConnected, Zenon
  <2>6. QED
    BY <2>4, <2>5, Zenon
<1>a. Sound(c) <=> /\ Cardinality(triggers) = 1
                   /\ Len(c.nodes) > 1 => \E k \in DOMAIN c.edges : c.edges[k].source = c.nodes[s].id
  BY Zenon DEF Sound
<1> HIDE DEF c, saved, triggers, s
<1>10. /\ NoProblems(c) <=> Content(c, "browser") /\ Sound(c)
       /\ Valid(saved) <=> Content(c, "engine") /\ Sound(c)
  <2>1. CASE triggers # {}
    BY <1>4, <1>5, <1>6, <1>8, <1>9, <1>a, <2>1, Zenon DEF Content
  <2>2. CASE triggers = {}
    BY <1>4, <1>5, <1>8, <1>a, <2>2, Zenon DEF Content
  <2>3. QED
    BY <2>1, <2>2
<1>11. QED
  BY <1>10, Zenon DEF c, saved

(* Where an output leads: along an edge of its step, or nowhere.           *)
Ending(def) == \A k \in DOMAIN def.edges : def.edges[k].target \in NodeIds(def)
Along(def, id, to) ==
  to = "" \/ \E k \in DOMAIN def.edges : def.edges[k].source = id /\ to = def.edges[k].target

LEMMA FollowAlongEdges ==
  ASSUME NEW saved, Listed(saved), Ending(saved), NEW id \in NodeIds(saved), NEW handle
  PROVE  Along(saved, id, Follow(saved, id, handle))
<1> DEFINE i == FindNode(saved, id)
           N == Named(saved, i, handle)
           P == Plain(saved, i, handle)
           next == NextNode(saved, i, handle)
<1>1. saved.nodes[i].id = id
  BY NodeFound, Zenon
<1>2. /\ \A k \in N : k \in DOMAIN saved.edges /\ saved.edges[k].source = id
      /\ \A k \in P : k \in DOMAIN saved.edges /\ saved.edges[k].source = id
  BY <1>1, Zenon DEF Named, Plain
<1>3. /\ \A k \in N : Foremost(N, k) => next = Behind(saved, k)
      /\ N = {} => \A k \in P : Foremost(P, k) => next = Behind(saved, k)
      /\ N = {} /\ P = {} => next = NoNode
  BY NextNodeParts, Zenon
<1>4. Follow(saved, id, handle) = IF next = NoNode THEN "" ELSE saved.nodes[next].id
  BY Zenon DEF Follow
<1>5. \A k \in DOMAIN saved.edges : saved.nodes[Behind(saved, k)].id = saved.edges[k].target
  BY NodeFound, Zenon DEF Behind, Ending
<1> HIDE DEF N, P, next
<1>6. N \in SUBSET (Nat \ {0}) /\ P \in SUBSET (Nat \ {0})
  BY <1>2 DEF Listed
<1>7. next = NoNode \/ \E k \in DOMAIN saved.edges : saved.edges[k].source = id /\ next = Behind(saved, k)
  <2>1. CASE N # {}
    <3>1. PICK k \in N : Foremost(N, k)
      BY <1>6, <2>1, ForemostExists
    <3>2. QED
      BY <1>2, <1>3, <3>1, Zenon
  <2>2. CASE N = {} /\ P # {}
    <3>1. PICK k \in P : Foremost(P, k)
      BY <1>6, <2>2, ForemostExists
    <3>2. QED
      BY <1>2, <1>3, <2>2, <3>1, Zenon
  <2>3. QED
    BY <1>3, <2>1, <2>2, Zenon
<1>8. QED
  BY <1>4, <1>5, <1>7, Zenon DEF Along

(* Steps drawn without a warning lead to such steps.                       *)
LEMMA ReachedLeadsToReached ==
  ASSUME NEW c, Listed(c), NEW k \in DOMAIN c.edges,
         c.edges[k].source \in CanvasIds(c) \ ValidateFlow(c).warnings, c.edges[k].target \in CanvasIds(c)
  PROVE  c.edges[k].target \in CanvasIds(c) \ ValidateFlow(c).warnings
<1> DEFINE triggers == {i \in DOMAIN c.nodes : IsStart(c.nodes[i])}
           start == c.nodes[FirstOf(triggers)].id
           ids == CanvasIds(c)
           source == c.edges[k].source
           target == c.edges[k].target
<1>1. ValidateFlow(c).warnings = IF triggers = {} THEN {} ELSE Unreached(c, start)
  <2> DEFINE warnings == IF triggers = {} THEN {} ELSE Unreached(c, start)
  <2>1. \E b, g : ValidateFlow(c) = [byNode |-> b, global |-> g, warnings |-> warnings]
    BY Zenon DEF ValidateFlow
  <2> HIDE DEF warnings
  <2>2. QED
    BY <2>1 DEF warnings
<1>2. Unreached(c, start) = {id \in ids : \E S \in SUBSET ids : start \in S /\ id \notin S /\ Closed(c, S)}
  BY Zenon DEF Unreached, Closed
<1>3. \A S : source \in S /\ Closed(c, S) => target \in S
  BY Zenon DEF Closed
<1>4. source \in ids /\ source \notin ValidateFlow(c).warnings /\ target \in ids
  BY Zenon
<1> HIDE DEF triggers, start, ids, source, target
<1>5. target \in Unreached(c, start) => source \in Unreached(c, start)
  BY <1>2, <1>3, <1>4
<1>6. target \notin ValidateFlow(c).warnings
  BY <1>1, <1>4, <1>5
<1>7. QED
  BY <1>4, <1>6, Zenon DEF ids, target

(* The browser's validation decides like the engine's, but for what each   *)
(* makes of the data of a step and for steps of one identifier.            *)
THEOREM BrowserValidatesLikeTheEngine == Spec => []ClientValidateAgrees
<1>1. ReadingInv => ClientValidateAgrees
  <2> SUFFICES ASSUME ReadingInv, input.kind = "drawing"
               PROVE  ClientValidateAgrees
    BY Zenon DEF ClientValidateAgrees
  <2> DEFINE def == input.def
             t == input.def.trigger
             c == Canvas
             saved == ToDefinition(c, t)
             Reached == CanvasIds(c) \ ValidateFlow(c).warnings
  <2>1. input \in Drawings
    BY Zenon DEF ReadingInv, SearchInv
  <2>2. def \in FlowDefinition /\ Fresh(def)
    BY <2>1, ReadingAssumption DEF Fresh
  <2>3. c = ToCanvas(def, "start")
    BY Zenon DEF Canvas
  <2>4. Cardinality(NodeIds(saved)) = Len(saved.nodes) =>
          /\ NoProblems(c) <=> Content(c, "browser") /\ Sound(c)
          /\ Valid(saved) <=> Content(c, "engine") /\ Sound(c)
    BY <2>2, <2>3, ValidationsAgree, Zenon
  <2>a. Valid(saved) => Cardinality(NodeIds(saved)) = Len(saved.nodes)
    BY Zenon DEF Valid
  <2>5. /\ saved.nodes = c.nodes /\ saved.edges = c.edges
        /\ NodeIds(saved) = CanvasIds(c) /\ Listed(saved) /\ Listed(c)
        /\ \A k \in DOMAIN c.edges : c.edges[k].source \in NodeIds(saved) /\ c.edges[k].target \in NodeIds(saved)
    BY <2>2, <2>3, SavedParts, StoredAreListed, Zenon
  <2> HIDE DEF c, saved
  <2>6. ASSUME NEW id \in Reached, NEW handle
        PROVE  Follow(saved, id, handle) \in Reached \cup {""}
    <3>1. id \in NodeIds(saved)
      BY <2>5, Zenon
    <3>2. Listed(saved) /\ Ending(saved)
      BY <2>5, Zenon DEF Ending
    <3>3. Along(saved, id, Follow(saved, id, handle))
      BY <3>1, <3>2, FollowAlongEdges, Zenon
    <3>4. \A k \in DOMAIN c.edges : c.edges[k].source = id => c.edges[k].target \in Reached
      <4> SUFFICES ASSUME NEW k \in DOMAIN c.edges, c.edges[k].source = id
                   PROVE  c.edges[k].target \in Reached
        OBVIOUS
      <4>1. c.edges[k].source \in CanvasIds(c) \ ValidateFlow(c).warnings /\ c.edges[k].target \in CanvasIds(c)
        BY <2>5, Zenon
      <4>2. QED
        BY <2>5, <4>1, ReachedLeadsToReached, Zenon
    <3>5. QED
      BY <2>5, <3>3, <3>4, Zenon DEF Along
  <2>7. \A id \in Reached : \A handle \in StepOutputs(StepOf(c, id).type) :
          Follow(saved, id, handle) \in Reached \cup {""}
    BY <2>6, Zenon
  <2>8. \A reader : (\A i \in DOMAIN saved.nodes : reader \in saved.nodes[i].complete) => Content(c, reader)
    BY <2>5, Zenon DEF Content
  <2>9. QED
    BY <2>4, <2>a, <2>7, <2>8, Zenon DEF ClientValidateAgrees, c, saved
<1>2. QED
  BY <1>1, LoopsComeAsFar, PTL

-----------------------------------------------------------------------------
(* What the editor keeps of a definition *)

(* The output an edge of a step leaves by, and the edges of an output.     *)
Outlet(e, node) == IF e.handle = "" THEN DefaultHandle(node.type) ELSE e.handle
Outgoing(def, i, handle) ==
  {k \in DOMAIN def.edges : /\ def.edges[k].source = def.nodes[i].id
                            /\ Outlet(def.edges[k], def.nodes[i]) = Wanted(def, i, handle)}
OneAtMost(S) == \A j, k \in S : j = k

(* With one edge at most an output leads where that edge does.             *)
LEMMA NextNodeIsTheOne ==
  ASSUME NEW def, Listed(def), Ending(def), NEW i, NEW handle, OneAtMost(Outgoing(def, i, handle))
  PROVE  /\ \A k \in Outgoing(def, i, handle) : NextNode(def, i, handle) = Behind(def, k)
         /\ Outgoing(def, i, handle) = {} => NextNode(def, i, handle) = NoNode
<1> DEFINE O == Outgoing(def, i, handle)
           N == Named(def, i, handle)
           P == Plain(def, i, handle)
           next == NextNode(def, i, handle)
           default == DefaultHandle(def.nodes[i].type)
           wanted == Wanted(def, i, handle)
<1>1. /\ \A k \in N : Foremost(N, k) => next = Behind(def, k)
      /\ N = {} => \A k \in P : Foremost(P, k) => next = Behind(def, k)
      /\ N = {} /\ P = {} => next = NoNode
  BY NextNodeParts, Zenon
<1>2. wanted = "" => default = ""
  BY Zenon DEF Wanted
<1>3. \A k \in DOMAIN def.edges : def.edges[k].target \in NodeIds(def)
  BY Zenon DEF Ending
<1>4. ASSUME NEW k
      PROVE  /\ k \in O => k \in N \/ k \in P
             /\ k \in N \/ k \in P => k \in O
  <2> DEFINE h == def.edges[k].handle
             leaves == k \in DOMAIN def.edges /\ def.edges[k].source = def.nodes[i].id
  <2>1. k \in O <=> leaves /\ (IF h = "" THEN default ELSE h) = wanted
    BY Zenon DEF Outgoing, Outlet
  <2>2. k \in N <=> leaves /\ h = wanted
    BY Zenon DEF Named
  <2>3. k \in P <=> leaves /\ h = "" /\ wanted = default
    BY <1>3, Zenon DEF Plain
  <2> HIDE DEF O, N, P, h, leaves, default, wanted
  <2>4. CASE h = ""
    BY <1>2, <2>1, <2>2, <2>3, <2>4, Zenon
  <2>5. CASE h # ""
    BY <2>1, <2>2, <2>3, <2>5, Zenon
  <2>6. QED
    BY <2>4, <2>5, Zenon
<1>5. N \in SUBSET (Nat \ {0}) /\ P \in SUBSET (Nat \ {0})
  <2>1. N \subseteq DOMAIN def.edges /\ P \subseteq DOMAIN def.edges
    BY Zenon DEF Named, Plain
  <2> HIDE DEF N, P
  <2>2. QED
    BY <2>1 DEF Listed
<1>6. \A j, k \in O : j = k
  BY Zenon DEF OneAtMost
<1> HIDE DEF O, N, P, next
<1>7. ASSUME NEW k \in O
      PROVE  next = Behind(def, k)
  <2>1. CASE k \in N
    <3>1. \A j \in N : j = k
      BY <1>4, <1>6
    <3>2. k \in Nat
      BY <1>5, <2>1
    <3>3. Foremost(N, k)
      BY <2>1, <3>1, <3>2 DEF Foremost
    <3>4. QED
      BY <1>1, <2>1, <3>3, Zenon
  <2>2. CASE k \notin N
    <3>1. k \in P /\ N = {} /\ \A j \in P : j = k
      BY <1>4, <1>6, <2>2
    <3>2. k \in Nat
      BY <1>5, <3>1
    <3>3. Foremost(P, k)
      BY <3>1, <3>2 DEF Foremost
    <3>4. QED
      BY <1>1, <3>1, <3>3, Zenon
  <2>3. QED
    BY <2>1, <2>2
<1>8. O = {} => next = NoNode
  BY <1>1, <1>4
<1>9. QED
  BY <1>7, <1>8, Zenon DEF O, next

LEMMA FollowTheOne ==
  ASSUME NEW def, Listed(def), Ending(def), Distinct(def.nodes), NEW i \in DOMAIN def.nodes, NEW handle,
         OneAtMost(Outgoing(def, i, handle))
  PROVE  /\ \A k \in Outgoing(def, i, handle) : Follow(def, def.nodes[i].id, handle) = def.edges[k].target
         /\ Outgoing(def, i, handle) = {} => Follow(def, def.nodes[i].id, handle) = ""
<1> DEFINE id == def.nodes[i].id
           next == NextNode(def, i, handle)
<1>1. FindNode(def, id) = i
  <2>1. id \in NodeIds(def)
    BY Zenon DEF NodeIds
  <2>2. FindNode(def, id) \in DOMAIN def.nodes /\ def.nodes[FindNode(def, id)].id = id
    BY <2>1, NodeFound, Zenon
  <2>3. QED
    BY <2>2, Zenon DEF Distinct
<1>2. Follow(def, id, handle) = IF next = NoNode THEN "" ELSE def.nodes[next].id
  BY <1>1, Zenon DEF Follow
<1>3. /\ \A k \in Outgoing(def, i, handle) : next = Behind(def, k)
      /\ Outgoing(def, i, handle) = {} => next = NoNode
  BY NextNodeIsTheOne, Zenon
<1>4. \A k \in Outgoing(def, i, handle) :
        Behind(def, k) # NoNode /\ def.nodes[Behind(def, k)].id = def.edges[k].target
  <2>1. \A k \in Outgoing(def, i, handle) : def.edges[k].target \in NodeIds(def)
    BY Zenon DEF Outgoing, Ending
  <2>2. QED
    BY <2>1, NodeFound, Zenon DEF Behind
<1> HIDE DEF next, id
<1>5. QED
  BY <1>2, <1>3, <1>4, Zenon DEF id

LEMMA FollowTheOnly ==
  ASSUME NEW def, Listed(def), Ending(def), Distinct(def.nodes), NEW i \in DOMAIN def.nodes, NEW handle,
         OneAtMost(Outgoing(def, i, handle)), NEW k \in Outgoing(def, i, handle)
  PROVE  Follow(def, def.nodes[i].id, handle) = def.edges[k].target
BY FollowTheOne, Zenon

(* Two definitions whose steps leave by the same edges lead alike.         *)
SameEnds(def, saved, S) == \A k \in S : saved.edges[k].target = def.edges[k].target

LEMMA FollowAlike ==
  ASSUME NEW def, Listed(def), Ending(def), Distinct(def.nodes), NEW i \in DOMAIN def.nodes,
         NEW saved, Listed(saved), Ending(saved), Distinct(saved.nodes), NEW j \in DOMAIN saved.nodes,
         NEW handle, OneAtMost(Outgoing(def, i, handle)), Outgoing(saved, j, handle) = Outgoing(def, i, handle),
         SameEnds(def, saved, Outgoing(def, i, handle))
  PROVE  Follow(saved, saved.nodes[j].id, handle) = Follow(def, def.nodes[i].id, handle)
<1> DEFINE O == Outgoing(def, i, handle)
           x == Follow(def, def.nodes[i].id, handle)
           y == Follow(saved, saved.nodes[j].id, handle)
<1>1. (\A k \in O : x = def.edges[k].target) /\ (O = {} => x = "")
  BY FollowTheOne, Zenon
<1>2. (\A k \in O : y = saved.edges[k].target) /\ (O = {} => y = "")
  <2>1. OneAtMost(Outgoing(saved, j, handle))
    BY Zenon
  <2>2. /\ \A k \in Outgoing(saved, j, handle) : y = saved.edges[k].target
        /\ Outgoing(saved, j, handle) = {} => y = ""
    BY <2>1, FollowTheOne, Zenon
  <2>3. QED
    BY <2>2, Zenon
<1>3. \A k \in O : saved.edges[k].target = def.edges[k].target
  BY Zenon DEF SameEnds
<1> HIDE DEF O, x, y
<1>4. x = y
  <2>1. CASE O = {}
    BY <1>1, <1>2, <2>1, Zenon
  <2>2. CASE O # {}
    <3>1. PICK k : k \in O
      BY <2>2, Zenon
    <3>2. x = def.edges[k].target
      BY <1>1, <3>1, Zenon
    <3>3. y = saved.edges[k].target
      BY <1>2, <3>1, Zenon
    <3>4. saved.edges[k].target = def.edges[k].target
      BY <1>3, <3>1, Zenon
    <3>5. QED
      BY <3>2, <3>3, <3>4, Zenon
  <2>3. QED
    BY <2>1, <2>2
<1>5. QED
  BY <1>4, Zenon DEF x, y

(* The editor draws a type the engine knows as what the engine takes it    *)
(* for.                                                                    *)
LEMMA DrawnAsRun ==
  ASSUME NEW type \in NodeTypes \cup OldTypes \cup {"unknown"}, Normalize(type) \in NodeTypes
  PROVE  CanvasType(type) = Normalize(type)
<1>1. CASE type \in NodeTypes
  <2>1. type \notin OldTypes
    BY <1>1 DEF NodeTypes, OldTypes
  <2>2. /\ type # "message" /\ type \notin {"collect", "collect_input"} /\ type # "delay"
        /\ type \notin {"http_request", "call_integration"}
        /\ type \notin {"crm_stage", "update_card", "update_card_stage"}
    BY <2>1 DEF OldTypes
  <2>3. Normalize(type) = type
    BY <2>2, Zenon DEF Normalize
  <2>4. QED
    BY <1>1, <2>3, CanvasTypes, Zenon
<1>2. CASE type \in OldTypes
  <2> DEFINE today == LEGACY_TYPES[type]
  <2>1. type \in DOMAIN LEGACY_TYPES
    BY <1>2 DEF OldTypes, LEGACY_TYPES
  <2>2. today = Normalize(type)
    BY <1>2, SMTT(30) DEF OldTypes, LEGACY_TYPES, Normalize
  <2>3. CanvasType(type) = IF today \in DOMAIN NODE_SPECS THEN today ELSE "send_message"
    BY <2>1, Zenon DEF CanvasType
  <2>4. QED
    BY <2>2, <2>3, CataloguesAgree, Zenon
<1>3. CASE type = "unknown"
  <2>1. Normalize("unknown") = "unknown"
    BY DEF Normalize
  <2>2. "unknown" \notin NodeTypes
    BY DEF NodeTypes
  <2>3. QED
    BY <1>3, <2>1, <2>2, Zenon
<1>4. QED
  BY <1>1, <1>2, <1>3

(* A legible definition is drawn step by step and edge by edge.            *)
Redrawn(def) ==
  LET N == Retyped(def)
      D == def.edges
      E == Rehandled(def)
      now == NormalizeDefinition(def)
  IN /\ now.nodes = N /\ now.edges = D /\ now.trigger = def.trigger
     /\ N \in Seq(AStep) /\ Distinct(N)
     /\ D \in Seq(FlowEdge) /\ E \in Seq(AnEdge) /\ DOMAIN E = DOMAIN D
     /\ \A k \in DOMAIN D : /\ E[k].source = D[k].source /\ E[k].target = D[k].target
                            /\ D[k].source \in NodeIds(now) /\ D[k].target \in NodeIds(now)
     /\ \A k \in DOMAIN D : \A i \in DOMAIN N : N[i].id = D[k].source => E[k].handle = Outlet(D[k], N[i])
     /\ \A j, k \in DOMAIN D : \A i \in DOMAIN N :
          /\ N[i].id = D[k].source /\ D[j].source = D[k].source
          /\ Outlet(D[j], N[i]) = Outlet(D[k], N[i])
          => j = k

LEMMA LegibleIsRedrawn ==
  ASSUME NEW def \in FlowDefinition, Legible(NormalizeDefinition(def)), Spelled(NormalizeDefinition(def))
  PROVE  Redrawn(def)
<1> DEFINE N == Retyped(def)
           D == def.edges
           E == Rehandled(def)
           now == NormalizeDefinition(def)
           ids == NodeIds(now)
           Type(s) == now.nodes[FindNode(now, s)].type
           Out(e) == IF e.handle = "" THEN DefaultHandle(Type(e.source)) ELSE e.handle
<1>1. /\ Cardinality(ids) = Len(now.nodes)
      /\ \A i \in DOMAIN now.nodes : now.nodes[i].type \in NodeTypes
      /\ \A k \in DOMAIN now.edges :
           /\ {now.edges[k].source, now.edges[k].target} \subseteq ids
           /\ Out(now.edges[k]) \in StepOutputs(Type(now.edges[k].source)) \cup {""}
           /\ \A j \in DOMAIN now.edges :
                now.edges[j].source = now.edges[k].source /\ Out(now.edges[j]) = Out(now.edges[k]) => j = k
  BY Zenon DEF Legible
<1>2. now \in FlowDefinition /\ now.edges = D /\ now.trigger = def.trigger
      /\ now.nodes = [i \in DOMAIN def.nodes |-> [def.nodes[i] EXCEPT !.type = Normalize(@)]]
  <2> DEFINE M == [i \in DOMAIN def.nodes |-> [def.nodes[i] EXCEPT !.type = Normalize(@)]]
  <2>1. now = [def EXCEPT !.nodes = M]
    BY Zenon DEF NormalizeDefinition
  <2>2. now \in FlowDefinition
    BY NormalizeKeepsShape, Zenon
  <2> HIDE DEF M, now
  <2>3. now.nodes = M /\ now.edges = def.edges /\ now.trigger = def.trigger
    BY <2>1 DEF FlowDefinition
  <2>4. QED
    BY <2>2, <2>3, Zenon DEF M
<1>3. N \in Seq(AStep) /\ DOMAIN N = DOMAIN def.nodes /\ E \in Seq(AnEdge)
  BY StepsOfStored, EdgesOfStored, Zenon
<1>4. now.nodes = N
  <2>1. ASSUME NEW i \in DOMAIN def.nodes
        PROVE  [def.nodes[i] EXCEPT !.type = Normalize(@)] = [def.nodes[i] EXCEPT !.type = CanvasType(@)]
    <3> DEFINE s == def.nodes[i]
               type == s.type
    <3>1. s \in FlowNode
      BY PositionsAreNumbers
    <3>2. type \in NodeTypes \cup OldTypes \cup {"unknown"}
      BY <3>1, Zenon DEF FlowNode
    <3>3. now.nodes[i] = [s EXCEPT !.type = Normalize(type)] /\ i \in DOMAIN now.nodes
      BY <1>2, Zenon
    <3>4. Normalize(type) \in NodeTypes
      <4> DEFINE t == Normalize(type)
      <4>1. [s EXCEPT !.type = t].type = t
        <5> HIDE DEF t
        <5>1. QED
          BY <3>1 DEF FlowNode
      <4>2. now.nodes[i].type = t
        BY <3>3, <4>1
      <4>3. QED
        BY <1>1, <3>3, <4>2, Zenon
    <3>5. CanvasType(type) = Normalize(type)
      BY <3>2, <3>4, DrawnAsRun, Zenon
    <3>6. QED
      BY <3>5, Zenon
  <2>2. now.nodes = [i \in DOMAIN def.nodes |-> [def.nodes[i] EXCEPT !.type = CanvasType(@)]]
    BY <1>2, <2>1, Zenon
  <2>3. QED
    BY <2>2, Zenon DEF Retyped
<1>5. Distinct(N)
  <2>1. ids = {N[i].id : i \in DOMAIN N}
    BY <1>4, Zenon DEF NodeIds
  <2>2. Cardinality({N[i].id : i \in DOMAIN N}) = Len(N)
    BY <1>1, <1>4, <2>1, Zenon
  <2> HIDE DEF N
  <2>3. QED
    BY <1>3, <2>2, CountedAreDistinct, Zenon
<1>6. D \in Seq(FlowEdge) /\ Listed(now)
  BY <1>2, StoredAreListed DEF FlowDefinition
<1>7. \A k \in DOMAIN D : D[k].source \in ids /\ D[k].target \in ids
  BY <1>1, <1>2, Zenon
<1>8. Kept(def) = D
  <2>1. CanvasIds(Bare(N)) = ids
    BY <1>4, Zenon DEF NodeIds, CanvasIds, Bare
  <2>2. {k \in DOMAIN D : {D[k].source, D[k].target} \subseteq ids} = DOMAIN D
    <3> HIDE DEF D, ids
    <3>1. QED
      BY <1>7
  <2>3. At(D, DOMAIN D) = D
    BY <1>6, AtAll, Zenon
  <2>4. Kept(def) = At(D, {k \in DOMAIN D : {D[k].source, D[k].target} \subseteq CanvasIds(Bare(N))})
    BY Zenon DEF Kept
  <2> HIDE DEF D, ids
  <2>5. QED
    BY <2>1, <2>2, <2>3, <2>4, Zenon
<1>9. E = [k \in DOMAIN D |-> [D[k] EXCEPT !.handle = OutputOf(N, D[k]), !.exact = TRUE]]
  BY <1>8, Zenon DEF Rehandled
<1>10. \A k \in DOMAIN D : \A i \in DOMAIN N : N[i].id = D[k].source =>
          FindNode(now, D[k].source) = i /\ Type(D[k].source) = N[i].type
  <2> SUFFICES ASSUME NEW k \in DOMAIN D, NEW i \in DOMAIN N, N[i].id = D[k].source
               PROVE  FindNode(now, D[k].source) = i /\ Type(D[k].source) = N[i].type
    OBVIOUS
  <2>1. FindNode(now, D[k].source) \in DOMAIN N /\ N[FindNode(now, D[k].source)].id = D[k].source
    BY <1>4, <1>6, <1>7, NodeFound, Zenon
  <2>2. FindNode(now, D[k].source) = i
    BY <1>5, <2>1, Zenon DEF Distinct
  <2>3. QED
    BY <1>4, <2>2, Zenon
<1>11. \A k \in DOMAIN D : \A i \in DOMAIN N : N[i].id = D[k].source => Out(D[k]) = Outlet(D[k], N[i])
  BY <1>10, Zenon DEF Outlet
<1>12. ASSUME NEW k \in DOMAIN D
       PROVE  /\ E[k].source = D[k].source /\ E[k].target = D[k].target
              /\ \A i \in DOMAIN N : N[i].id = D[k].source => E[k].handle = Outlet(D[k], N[i])
  <2> DEFINE h == OutputOf(N, D[k])
             e == D[k]
             s == e.source
  <2>1. E[k] = [e EXCEPT !.handle = h, !.exact = TRUE]
    BY <1>9, Zenon
  <2>2. e \in FlowEdge
    BY <1>6
  <2>3. E[k].source = e.source /\ E[k].target = e.target /\ E[k].handle = h
    <3> HIDE DEF E, e, h
    <3>1. QED
      BY <2>1, <2>2 DEF FlowEdge
  <2>4. ASSUME NEW i \in DOMAIN N, N[i].id = s
        PROVE  h = Outlet(e, N[i])
    <3> DEFINE type == N[i].type
               handle == e.handle
               exact == e.exact
    <3>1. type \in NodeTypes
      <4>1. N[i] \in AStep
        BY <1>3
      <4>2. QED
        BY <4>1, Zenon DEF AStep
    <3>2. StepOf(Bare(N), s) = N[i]
      <4>1. StepOf(Bare(N), s) = N[FirstOf({j \in DOMAIN N : N[j].id = s})]
        BY Zenon DEF StepOf, Bare
      <4>2. FindNode(now, s) = FirstOf({j \in DOMAIN N : N[j].id = s})
        BY <1>4, Zenon DEF FindNode
      <4>3. FindNode(now, s) = i
        BY <1>10, <2>4, Zenon
      <4>4. QED
        BY <4>1, <4>2, <4>3, Zenon
    <3>3. h = IF exact /\ handle \in StepOutputs(type) THEN handle ELSE FirstOutput(type)
      BY <3>2, Zenon DEF OutputOf
    <3>4. (IF handle = "" THEN DefaultHandle(type) ELSE handle) \in StepOutputs(type) \cup {""}
      <4>1. Out(e) \in StepOutputs(Type(s)) \cup {""}
        BY <1>1, <1>2, Zenon
      <4>2. Type(s) = type
        BY <1>10, <2>4, Zenon
      <4>3. Out(e) = IF handle = "" THEN DefaultHandle(Type(s)) ELSE handle
        BY Zenon
      <4> HIDE DEF Out, Type, type, handle
      <4>4. QED
        BY <4>1, <4>2, <4>3, Zenon
    <3>5. "" \notin StepOutputs(type) /\ FirstOutput(type) = DefaultHandle(type)
      <4>1. "" \notin StepOutputs(type)
        <5>1. StepOutputs(type) \in SUBSET (Handles \ {""})
          BY <3>1, OutputsAreHandles, Zenon
        <5>2. QED
          BY <5>1, Zenon
      <4>2. NODE_SPECS[type].outputs = NodeHandles[type]
        BY <3>1, CataloguesAgree, Zenon
      <4>3. FirstOutput(type) = DefaultHandle(type)
        BY <3>1, <4>2, Zenon DEF FirstOutput, DefaultHandle
      <4>4. QED
        BY <4>1, <4>3, Zenon
    <3>6. Outlet(e, N[i]) = IF handle = "" THEN DefaultHandle(type) ELSE handle
      BY Zenon DEF Outlet
    <3>a. exact \/ handle \in {"", DefaultHandle(type)}
      <4>1. exact \/ handle \in {"", DefaultHandle(Type(s))}
        BY <1>2, Zenon DEF Spelled
      <4>2. Type(s) = type
        BY <1>10, <2>4, Zenon
      <4> HIDE DEF Type, type, handle, exact
      <4>3. QED
        BY <4>1, <4>2, Zenon
    <3> HIDE DEF handle, type, exact, h, N, e
    <3>7. CASE handle = ""
      BY <3>3, <3>5, <3>6, <3>7, Zenon
    <3>8. CASE handle # "" /\ exact
      <4>1. handle \in StepOutputs(type)
        BY <3>4, <3>8, Zenon
      <4>2. QED
        BY <3>3, <3>6, <3>8, <4>1, Zenon
    <3>9. CASE handle = DefaultHandle(type) /\ ~exact
      BY <3>3, <3>5, <3>6, <3>9, Zenon
    <3>b. QED
      BY <3>a, <3>7, <3>8, <3>9, Zenon
  <2>5. QED
    BY <2>3, <2>4, Zenon
<1>13. DOMAIN E = DOMAIN D
  BY <1>9, Zenon
<1>14. \A j, k \in DOMAIN D : \A i \in DOMAIN N :
          /\ N[i].id = D[k].source /\ D[j].source = D[k].source
          /\ Outlet(D[j], N[i]) = Outlet(D[k], N[i])
          => j = k
  <2> SUFFICES ASSUME NEW j \in DOMAIN D, NEW k \in DOMAIN D, NEW i \in DOMAIN N,
                      N[i].id = D[k].source, D[j].source = D[k].source,
                      Outlet(D[j], N[i]) = Outlet(D[k], N[i])
               PROVE  j = k
    OBVIOUS
  <2>1. Out(D[j]) = Outlet(D[j], N[i]) /\ Out(D[k]) = Outlet(D[k], N[i])
    BY <1>11, Zenon
  <2>2. Out(D[j]) = Out(D[k])
    BY <2>1, Zenon
  <2> HIDE DEF Out
  <2>3. QED
    BY <1>1, <1>2, <2>2, Zenon
<1> HIDE DEF N, D, E, now, ids
<1>15. QED
  BY <1>2, <1>3, <1>4, <1>5, <1>6, <1>7, <1>12, <1>13, <1>14, Zenon DEF Redrawn, N, D, E, now, ids

LEMMA RedrawnOutlets ==
  ASSUME NEW def \in FlowDefinition, Redrawn(def)
  PROVE  LET N == Retyped(def)
             D == def.edges
             E == Rehandled(def)
             now == NormalizeDefinition(def)
         IN /\ Listed(now) /\ Ending(now) /\ Distinct(now.nodes)
            /\ \A i \in DOMAIN N : \A handle : OneAtMost(Outgoing(now, i, handle))
            /\ \A k \in DOMAIN D : \A i \in DOMAIN N :
                 D[k].source = N[i].id => Outlet(E[k], N[i]) = Outlet(D[k], N[i])
<1> DEFINE N == Retyped(def)
           D == def.edges
           E == Rehandled(def)
           now == NormalizeDefinition(def)
<1>1. now.nodes = N /\ now.edges = D /\ Distinct(N)
  BY Zenon DEF Redrawn
<1>2. Listed(now) /\ Ending(now)
  <2>1. Listed(now)
    BY NormalizeKeepsShape, StoredAreListed, Zenon
  <2>2. Ending(now)
    BY <1>1, Zenon DEF Redrawn, Ending
  <2>3. QED
    BY <2>1, <2>2
<1>3. ASSUME NEW i \in DOMAIN N, NEW handle
      PROVE  OneAtMost(Outgoing(now, i, handle))
  <2> SUFFICES ASSUME NEW j \in Outgoing(now, i, handle), NEW k \in Outgoing(now, i, handle)
               PROVE  j = k
    BY Zenon DEF OneAtMost
  <2>1. /\ j \in DOMAIN D /\ D[j].source = N[i].id /\ Outlet(D[j], N[i]) = Wanted(now, i, handle)
        /\ k \in DOMAIN D /\ D[k].source = N[i].id /\ Outlet(D[k], N[i]) = Wanted(now, i, handle)
    BY <1>1, Zenon DEF Outgoing
  <2>2. Outlet(D[j], N[i]) = Outlet(D[k], N[i]) /\ D[j].source = D[k].source /\ N[i].id = D[k].source
    BY <2>1, Zenon
  <2>3. QED
    BY <2>1, <2>2, Zenon DEF Redrawn
<1>4. ASSUME NEW k \in DOMAIN D, NEW i \in DOMAIN N, D[k].source = N[i].id
      PROVE  Outlet(E[k], N[i]) = Outlet(D[k], N[i])
  <2> DEFINE default == DefaultHandle(N[i].type)
             handle == E[k].handle
             out == Outlet(D[k], N[i])
  <2>1. handle = out
    BY <1>4, Zenon DEF Redrawn
  <2>2. Outlet(E[k], N[i]) = IF handle = "" THEN default ELSE handle
    BY Zenon DEF Outlet
  <2>3. out = "" => default = ""
    BY Zenon DEF Outlet
  <2> HIDE DEF default, handle, out
  <2>4. Outlet(E[k], N[i]) = out
    BY <2>1, <2>2, <2>3, Zenon
  <2>5. QED
    BY <2>4, Zenon DEF out
<1>5. QED
  BY <1>1, <1>2, <1>3, <1>4, Zenon

(* Which node a definition starts at depends on its nodes and on where its *)
(* edges lead.                                                             *)
StartOf(N, T) ==
  LET trigger == FirstOf({i \in DOMAIN N : N[i].type = "trigger"})
      root == FirstOf({i \in DOMAIN N : N[i].id \notin T})
  IN CASE trigger # NoNode -> trigger
       [] trigger = NoNode /\ root # NoNode -> root
       [] OTHER -> FirstOf(DOMAIN N)

Targets(E) == {E[k].target : k \in DOMAIN E}

LEMMA StartNodeIsOf ==
  ASSUME NEW def
  PROVE  StartNode(def) = StartOf(def.nodes, Targets(def.edges))
BY Zenon DEF StartNode, StartOf, Targets

LEMMA NothingLeads ==
  ASSUME NEW def, Listed(def), DOMAIN def.edges = {}, NEW id, NEW handle
  PROVE  Follow(def, id, handle) = ""
<1> DEFINE i == FindNode(def, id)
<1>1. Named(def, i, handle) = {} /\ Plain(def, i, handle) = {}
  BY Zenon DEF Named, Plain
<1>2. NextNode(def, i, handle) = NoNode
  BY <1>1, NextNodeParts, Zenon
<1>3. QED
  BY <1>2, Zenon DEF Follow

(* A definition with a start is drawn as it is.                            *)
LEMMA StartedKeepsMeaning ==
  ASSUME NEW def \in FlowDefinition, Redrawn(def), Started(Retyped(def)), NEW t
  PROVE  LET now == NormalizeDefinition(def)
             saved == ToDefinition(ToCanvas(def, "start"), t)
         IN /\ FirstStep(saved) = FirstStep(now)
            /\ \A i \in DOMAIN now.nodes : \A handle :
                 Follow(saved, now.nodes[i].id, handle) = Follow(now, now.nodes[i].id, handle)
<1> DEFINE N == Retyped(def)
           D == def.edges
           E == Rehandled(def)
           now == NormalizeDefinition(def)
           c == ToCanvas(def, "start")
           saved == ToDefinition(c, t)
<1>1. /\ now.nodes = N /\ now.edges = D /\ Distinct(N) /\ DOMAIN E = DOMAIN D
      /\ \A k \in DOMAIN D : /\ E[k].source = D[k].source /\ E[k].target = D[k].target
                             /\ D[k].source \in NodeIds(now)
  BY Zenon DEF Redrawn
<1>2. /\ Listed(now) /\ Ending(now)
      /\ \A i \in DOMAIN N : \A handle : OneAtMost(Outgoing(now, i, handle))
      /\ \A k \in DOMAIN D : \A i \in DOMAIN N :
           D[k].source = N[i].id => Outlet(E[k], N[i]) = Outlet(D[k], N[i])
  BY RedrawnOutlets, Zenon
<1>3. saved.nodes = N /\ saved.edges = E
  <2>1. c = [nodes |-> N, edges |-> E]
    BY CanvasParts, Zenon
  <2>2. c.nodes = N /\ c.edges = E
    <3> HIDE DEF c, N, E
    <3>1. QED
      BY <2>1
  <2>3. QED
    BY <2>2, SavedParts, Zenon
<1>4. Listed(saved) /\ Ending(saved)
  BY SavedParts, Zenon DEF Ending
<1> HIDE DEF N, D, E, now, c, saved
<1>5. ASSUME NEW i \in DOMAIN N, NEW handle
      PROVE  Follow(saved, N[i].id, handle) = Follow(now, N[i].id, handle)
  <2>1. Wanted(saved, i, handle) = Wanted(now, i, handle)
    BY <1>1, <1>3, Zenon DEF Wanted
  <2>2. \A k : k \in Outgoing(saved, i, handle) <=> k \in Outgoing(now, i, handle)
    <3> TAKE k
    <3>1. k \in Outgoing(saved, i, handle) <=>
            k \in DOMAIN D /\ E[k].source = N[i].id /\ Outlet(E[k], N[i]) = Wanted(now, i, handle)
      BY <1>1, <1>3, <2>1, Zenon DEF Outgoing
    <3>2. k \in Outgoing(now, i, handle) <=>
            k \in DOMAIN D /\ D[k].source = N[i].id /\ Outlet(D[k], N[i]) = Wanted(now, i, handle)
      BY <1>1, Zenon DEF Outgoing
    <3>3. k \in DOMAIN D => E[k].source = D[k].source
      BY <1>1, Zenon
    <3>4. QED
      BY <1>2, <3>1, <3>2, <3>3, Zenon
  <2>3. Outgoing(saved, i, handle) = Outgoing(now, i, handle)
    BY <2>2, Zenon
  <2>4. SameEnds(now, saved, Outgoing(now, i, handle))
    BY <1>1, <1>3, Zenon DEF Outgoing, SameEnds
  <2>5. i \in DOMAIN now.nodes /\ i \in DOMAIN saved.nodes /\ Distinct(now.nodes) /\ Distinct(saved.nodes)
    BY <1>1, <1>3, Zenon
  <2>6. OneAtMost(Outgoing(now, i, handle)) /\ Listed(now) /\ Ending(now) /\ Listed(saved) /\ Ending(saved)
    BY <1>2, <1>4, Zenon
  <2>7. Follow(saved, saved.nodes[i].id, handle) = Follow(now, now.nodes[i].id, handle)
    BY <2>3, <2>4, <2>5, <2>6, FollowAlike
  <2>8. QED
    BY <1>1, <1>3, <2>7, Zenon
<1>6. StartNode(saved) = StartNode(now)
  <2>1. Targets(E) = Targets(D)
    BY <1>1, Zenon DEF Targets
  <2>2. QED
    BY <1>1, <1>3, <2>1, StartNodeIsOf, Zenon
<1>7. FirstStep(saved) = FirstStep(now)
  <2> DEFINE s == StartNode(now)
  <2>1. /\ FirstStep(now) = IF IsStart(N[s]) THEN Follow(now, N[s].id, "") ELSE N[s].id
        /\ FirstStep(saved) = IF IsStart(N[s]) THEN Follow(saved, N[s].id, "") ELSE N[s].id
    BY <1>1, <1>3, <1>6, Zenon DEF FirstStep
  <2>2. Follow(saved, N[s].id, "") = Follow(now, N[s].id, "")
    <3> HIDE DEF s
    <3>1. CASE s \in DOMAIN N
      BY <1>5, <3>1, Zenon
    <3>2. CASE s \notin DOMAIN N
      <4>1. now \in FlowDefinition
        BY NormalizeKeepsShape, Zenon DEF now
      <4>2. now.nodes = <<>>
        BY <1>1, <3>2, <4>1, StartNodeStarts, Zenon DEF s
      <4>3. NodeIds(now) = {}
        BY <4>2 DEF NodeIds
      <4>4. DOMAIN D = {}
        BY <1>1, <4>3
      <4>5. \A id : Follow(now, id, "") = "" /\ Follow(saved, id, "") = ""
        BY <1>1, <1>2, <1>3, <1>4, <4>4, NothingLeads, Zenon
      <4>6. QED
        BY <4>5, Zenon
    <3>3. QED
      BY <3>1, <3>2, Zenon
  <2>3. CASE IsStart(N[s])
    BY <2>1, <2>2, <2>3, Zenon
  <2>4. CASE ~IsStart(N[s])
    BY <2>1, <2>4, Zenon
  <2>5. QED
    BY <2>3, <2>4
<1>8. QED
  BY <1>1, <1>5, <1>7, Zenon DEF now, saved, c

(* A definition without one is drawn behind an added start that leads to   *)
(* where the engine would begin.                                           *)
LEMMA UnstartedKeepsMeaning ==
  ASSUME NEW def \in FlowDefinition, Redrawn(def), Fresh(def), ~Started(Retyped(def)), NEW t
  PROVE  LET now == NormalizeDefinition(def)
             saved == ToDefinition(ToCanvas(def, "start"), t)
         IN /\ FirstStep(saved) = FirstStep(now)
            /\ \A i \in DOMAIN now.nodes : \A handle :
                 Follow(saved, now.nodes[i].id, handle) = Follow(now, now.nodes[i].id, handle)
<1> DEFINE N == Retyped(def)
           D == def.edges
           E == Rehandled(def)
           now == NormalizeDefinition(def)
           e == ToRoot(N, E)
           M == <<First>> \o N
           F == Append(E, e)
           last == Len(E) + 1
           c == ToCanvas(def, "start")
           saved == ToDefinition(c, t)
<1>1. /\ now.nodes = N /\ now.edges = D /\ Distinct(N) /\ DOMAIN E = DOMAIN D
      /\ N \in Seq(AStep) /\ E \in Seq(AnEdge)
      /\ \A k \in DOMAIN D : /\ E[k].source = D[k].source /\ E[k].target = D[k].target
                             /\ D[k].source \in NodeIds(now)
  BY Zenon DEF Redrawn
<1>2. /\ Listed(now) /\ Ending(now)
      /\ \A i \in DOMAIN N : \A handle : OneAtMost(Outgoing(now, i, handle))
      /\ \A k \in DOMAIN D : \A i \in DOMAIN N :
           D[k].source = N[i].id => Outlet(E[k], N[i]) = Outlet(D[k], N[i])
  BY RedrawnOutlets, Zenon
<1>3. saved.nodes = M /\ saved.edges = F
  <2>1. c = [nodes |-> M, edges |-> F]
    BY CanvasParts, Zenon
  <2>2. c.nodes = M /\ c.edges = F
    <3> HIDE DEF c, M, F
    <3>1. QED
      BY <2>1
  <2>3. QED
    BY <2>2, SavedParts, Zenon
<1>4. Listed(saved) /\ Ending(saved)
  BY SavedParts, Zenon DEF Ending
<1>5. \A i \in DOMAIN N : N[i].id # "start" /\ ~IsStart(N[i])
  BY AddedStartIsNew, Zenon DEF Started
<1>6. N # <<>>
  BY Zenon DEF Started
<1>7. e.source = "start" /\ e.target = RootId(N, E) /\ e.handle = "next" /\ First.id = "start" /\ First.type = "trigger"
  BY Zenon DEF ToRoot, First
<1> HIDE DEF N, D, E, now, c, saved, e
<1>8. /\ 1 \in DOMAIN M /\ M[1] = First
      /\ \A i \in DOMAIN N : i + 1 \in DOMAIN M /\ M[i + 1] = N[i] /\ i + 1 # 1
      /\ \A j \in DOMAIN M : j # 1 => j - 1 \in DOMAIN N /\ M[j] = N[j - 1] /\ j = (j - 1) + 1
  BY <1>1
<1>9. /\ \A k : k \in DOMAIN F <=> k \in DOMAIN D \/ k = last
      /\ last \notin DOMAIN D /\ F[last] = e
      /\ \A k \in DOMAIN D : F[k] = E[k]
  BY <1>1
<1> HIDE DEF M, F, last
<1>10. Distinct(M)
  <2> SUFFICES ASSUME NEW i \in DOMAIN M, NEW j \in DOMAIN M, M[i].id = M[j].id
               PROVE  i = j
    BY Zenon DEF Distinct
  <2>1. i = 1 <=> j = 1
    BY <1>5, <1>7, <1>8
  <2>2. CASE i # 1 /\ j # 1
    <3>1. i - 1 \in DOMAIN N /\ j - 1 \in DOMAIN N /\ N[i - 1].id = N[j - 1].id
      BY <1>8, <2>2
    <3>2. i - 1 = j - 1
      BY <1>1, <3>1, Zenon DEF Distinct
    <3>3. QED
      BY <1>8, <2>2, <3>2
  <2>3. QED
    BY <2>1, <2>2
<1>11. \A k \in DOMAIN D : \E i \in DOMAIN N : N[i].id = D[k].source
  BY <1>1, Zenon DEF NodeIds
<1>12. ASSUME NEW k \in DOMAIN D
       PROVE  F[k].source # "start"
  <2>1. F[k] = E[k]
    BY <1>9, Zenon
  <2>2. E[k].source = D[k].source
    BY <1>1, Zenon
  <2>3. F[k].source = D[k].source
    BY <2>1, <2>2, Zenon
  <2>4. PICK i \in DOMAIN N : N[i].id = D[k].source
    BY <1>11, Zenon
  <2>5. N[i].id # "start"
    BY <1>5, Zenon
  <2>6. QED
    BY <2>3, <2>4, <2>5, Zenon
<1>13. ASSUME NEW i \in DOMAIN N, NEW handle
       PROVE  Follow(saved, N[i].id, handle) = Follow(now, N[i].id, handle)
  <2> DEFINE j == i + 1
  <2>1. j \in DOMAIN M /\ M[j] = N[i]
    BY <1>8, Zenon
  <2> HIDE DEF j
  <2>2. Wanted(saved, j, handle) = Wanted(now, i, handle)
    BY <1>1, <1>3, <2>1, Zenon DEF Wanted
  <2>3. \A k : k \in Outgoing(saved, j, handle) <=> k \in Outgoing(now, i, handle)
    <3> TAKE k
    <3>1. k \in Outgoing(saved, j, handle) <=>
            k \in DOMAIN F /\ F[k].source = N[i].id /\ Outlet(F[k], N[i]) = Wanted(now, i, handle)
      BY <1>3, <2>1, <2>2, Zenon DEF Outgoing
    <3>2. k \in Outgoing(now, i, handle) <=>
            k \in DOMAIN D /\ D[k].source = N[i].id /\ Outlet(D[k], N[i]) = Wanted(now, i, handle)
      BY <1>1, Zenon DEF Outgoing
    <3>3. CASE k \in DOMAIN D
      <4>1. k \in DOMAIN F /\ F[k] = E[k] /\ E[k].source = D[k].source
        BY <1>1, <1>9, <3>3, Zenon
      <4>2. QED
        BY <1>2, <3>1, <3>2, <3>3, <4>1, Zenon
    <3>4. CASE k \notin DOMAIN D
      <4>1. k \in DOMAIN F => F[k].source = "start"
        BY <1>7, <1>9, <3>4, Zenon
      <4>2. QED
        BY <1>5, <3>1, <3>2, <3>4, <4>1, Zenon
    <3>5. QED
      BY <3>3, <3>4, Zenon
  <2>4. Outgoing(saved, j, handle) = Outgoing(now, i, handle)
    BY <2>3, Zenon
  <2>5. SameEnds(now, saved, Outgoing(now, i, handle))
    <3>1. \A k \in Outgoing(now, i, handle) : k \in DOMAIN D
      BY <1>1, Zenon DEF Outgoing
    <3>2. ASSUME NEW k \in Outgoing(now, i, handle)
          PROVE  saved.edges[k].target = now.edges[k].target
      <4>1. k \in DOMAIN D
        BY <3>1, Zenon
      <4>2. F[k] = E[k]
        BY <1>9, <4>1, Zenon
      <4>3. E[k].target = D[k].target
        BY <1>1, <4>1, Zenon
      <4>4. saved.edges = F /\ now.edges = D
        BY <1>1, <1>3, Zenon
      <4>5. QED
        BY <4>2, <4>3, <4>4, Zenon
    <3>3. QED
      BY <3>2, Zenon DEF SameEnds
  <2>6. i \in DOMAIN now.nodes /\ j \in DOMAIN saved.nodes /\ Distinct(now.nodes) /\ Distinct(saved.nodes)
    BY <1>1, <1>3, <1>10, <2>1, Zenon
  <2>7. OneAtMost(Outgoing(now, i, handle)) /\ Listed(now) /\ Ending(now) /\ Listed(saved) /\ Ending(saved)
    BY <1>2, <1>4, Zenon
  <2>8. Follow(saved, saved.nodes[j].id, handle) = Follow(now, now.nodes[i].id, handle)
    BY <2>4, <2>5, <2>6, <2>7, FollowAlike
  <2>9. QED
    BY <1>1, <1>3, <2>1, <2>8, Zenon
<1>14. FirstStep(now) = RootId(N, E)
  <2> DEFINE R == Roots(N, E)
             T == {i \in DOMAIN N : N[i].type = "trigger"}
             Q == {i \in DOMAIN N : N[i].id \notin Targets(D)}
  <2>1. DOMAIN N \in SUBSET (Nat \ {0}) /\ 1 \in DOMAIN N /\ \A i \in DOMAIN N : 1 <= i
    BY <1>1, <1>6
  <2>2. FirstOf(T) = NoNode
    <3>1. T = {}
      BY <1>5, Zenon DEF IsStart
    <3> HIDE DEF T
    <3>2. QED
      BY <3>1, Zenon DEF FirstOf
  <2>3. R = Q
    <3>1. Targets(D) = {E[k].target : k \in DOMAIN E}
      BY <1>1, Zenon DEF Targets
    <3>2. QED
      BY <3>1, Zenon DEF Roots
  <2>4. FirstOf(DOMAIN N) = 1
    BY <2>1, FirstOfIs
  <2>5. StartOf(N, Targets(D)) = IF FirstOf(R) # NoNode THEN FirstOf(R) ELSE 1
    <3> DEFINE first == FirstOf(T)
               root == FirstOf(Q)
    <3>1. StartOf(N, Targets(D)) = CASE first # NoNode -> first
                                     [] first = NoNode /\ root # NoNode -> root
                                     [] OTHER -> FirstOf(DOMAIN N)
      BY Zenon DEF StartOf
    <3>2. root = FirstOf(R)
      BY <2>3, Zenon
    <3>3. first = NoNode
      BY <2>2, Zenon
    <3> HIDE DEF first, root
    <3>4. CASE root # NoNode
      BY <3>1, <3>2, <3>3, <3>4, Zenon
    <3>5. CASE root = NoNode
      BY <2>4, <3>1, <3>2, <3>3, <3>5, Zenon
    <3>6. QED
      BY <3>4, <3>5, Zenon
  <2>6. /\ R = {} => FirstOf(R) = NoNode
        /\ R # {} => FirstOf(R) # NoNode /\ FirstOf(R) \in DOMAIN N
    <3>1. R \subseteq DOMAIN N
      BY Zenon DEF Roots
    <3> HIDE DEF R
    <3>2. R \in SUBSET (Nat \ {0})
      BY <2>1, <3>1
    <3>3. QED
      BY <3>1, <3>2, FirstOfIsFirst
  <2>7. StartNode(now) = StartOf(N, Targets(D))
    BY <1>1, StartNodeIsOf, Zenon
  <2> DEFINE s == StartNode(now)
             r == IF R = {} THEN 1 ELSE FirstOf(R)
  <2>8. s = r /\ r \in DOMAIN N
    <3> HIDE DEF R
    <3>1. CASE R = {}
      BY <2>1, <2>5, <2>6, <2>7, <3>1, Zenon
    <3>2. CASE R # {}
      BY <2>5, <2>6, <2>7, <3>2, Zenon
    <3>3. QED
      BY <3>1, <3>2, Zenon
  <2>9. RootId(N, E) = N[r].id
    BY Zenon DEF RootId
  <2>10. FirstStep(now) = IF IsStart(N[s]) THEN Follow(now, N[s].id, "") ELSE N[s].id
    BY <1>1, Zenon DEF FirstStep
  <2> HIDE DEF s, r
  <2>11. QED
    BY <1>5, <2>8, <2>9, <2>10, Zenon
<1>15. FirstStep(saved) = RootId(N, E)
  <2>1. StartNode(saved) = 1
    <3> DEFINE T == {i \in DOMAIN M : M[i].type = "trigger"}
               first == FirstOf(T)
    <3>1. T = {1}
      <4>1. \A i \in DOMAIN M : M[i].type = "trigger" <=> i = 1
        BY <1>5, <1>7, <1>8, Zenon DEF IsStart
      <4>2. QED
        BY <1>8, <4>1
    <3>2. first = 1
      <4>1. T \in SUBSET (Nat \ {0}) /\ 1 \in T /\ \A i \in T : 1 <= i
        BY <3>1
      <4> HIDE DEF T
      <4>2. QED
        BY <4>1, FirstOfIs
    <3>3. first # NoNode
      BY <3>2 DEF NoNode
    <3> HIDE DEF T
    <3>4. StartOf(M, Targets(F)) = first
      BY <3>3, Zenon DEF StartOf, T
    <3>5. QED
      BY <1>3, <3>2, <3>4, StartNodeIsOf, Zenon
  <2> DEFINE O == Outgoing(saved, 1, "")
  <2>2. ASSUME NEW k
        PROVE  k \in O <=> k = last
    <3>1. Wanted(saved, 1, "") = "next"
      BY <1>3, <1>7, <1>8, StartLeavesByNext, Zenon DEF Wanted
    <3>2. k \in O <=> k \in DOMAIN F /\ F[k].source = "start" /\ Outlet(F[k], First) = "next"
      BY <1>3, <1>7, <1>8, <3>1, Zenon DEF Outgoing
    <3>3. Outlet(e, First) = "next"
      <4>1. "next" # ""
        OBVIOUS
      <4>2. QED
        BY <1>7, <4>1, Zenon DEF Outlet
    <3>4. k \in DOMAIN F /\ F[k].source = "start" => k = last
      BY <1>9, <1>12, Zenon
    <3>5. last \in DOMAIN F /\ F[last].source = "start" /\ Outlet(F[last], First) = "next"
      BY <1>7, <1>9, <3>3, Zenon
    <3>6. QED
      BY <3>2, <3>4, <3>5, Zenon
  <2>3. OneAtMost(O) /\ last \in O
    <3> HIDE DEF O
    <3>1. last \in O
      BY <2>2, Zenon
    <3>2. ASSUME NEW j \in O, NEW k \in O
          PROVE  j = k
      <4>1. j = last
        BY <2>2, Zenon
      <4>2. k = last
        BY <2>2, Zenon
      <4>3. QED
        BY <4>1, <4>2, Zenon
    <3>3. QED
      BY <3>1, <3>2, Zenon DEF OneAtMost
  <2>4. Follow(saved, saved.nodes[1].id, "") = F[last].target
    <3>1. 1 \in DOMAIN saved.nodes /\ Distinct(saved.nodes)
      BY <1>3, <1>8, <1>10, Zenon
    <3>2. Listed(saved) /\ Ending(saved) /\ OneAtMost(Outgoing(saved, 1, ""))
      BY <1>4, <2>3, Zenon
    <3>3. Follow(saved, saved.nodes[1].id, "") = saved.edges[last].target
      <4>1. last \in Outgoing(saved, 1, "")
        BY <2>3, Zenon
      <4>2. QED
        BY <3>1, <3>2, <4>1, FollowTheOnly, Zenon
    <3>4. QED
      BY <1>3, <3>3, Zenon
  <2>5. FirstStep(saved) = IF IsStart(saved.nodes[1]) THEN Follow(saved, saved.nodes[1].id, "") ELSE saved.nodes[1].id
    BY <2>1, Zenon DEF FirstStep
  <2>6. IsStart(saved.nodes[1])
    BY <1>3, <1>7, <1>8, Zenon DEF IsStart
  <2>7. FirstStep(saved) = Follow(saved, saved.nodes[1].id, "")
    BY <2>5, <2>6, Zenon
  <2>8. QED
    BY <1>7, <1>9, <2>4, <2>7, Zenon
<1>16. QED
  BY <1>1, <1>13, <1>14, <1>15, Zenon DEF now, saved, c

(* Opening a stored flow in the editor and saving it leaves what it does,  *)
(* where the browser finds the names of its outputs.                       *)
THEOREM EditorKeepsMeaning == Spec => []CanvasKeepsMeaning
<1>1. ReadingInv => CanvasKeepsMeaning
  <2> DEFINE def == input.def
             t == input.def.trigger
             now == NormalizeDefinition(def)
             saved == ToDefinition(ToCanvas(def, "start"), t)
  <2> SUFFICES ASSUME ReadingInv, input.kind = "drawing", Legible(now), Spelled(now)
               PROVE  RunsAsBefore(now)
    BY Zenon DEF CanvasKeepsMeaning
  <2>1. input \in Drawings
    BY Zenon DEF ReadingInv, SearchInv
  <2>2. def \in FlowDefinition /\ Fresh(def)
    BY <2>1, ReadingAssumption DEF Fresh
  <2>3. Redrawn(def)
    BY <2>2, LegibleIsRedrawn, Zenon
  <2>4. /\ FirstStep(saved) = FirstStep(now)
        /\ \A i \in DOMAIN now.nodes : \A handle :
             Follow(saved, now.nodes[i].id, handle) = Follow(now, now.nodes[i].id, handle)
    <3> HIDE DEF def, t
    <3>1. CASE Started(Retyped(def))
      BY <2>2, <2>3, <3>1, StartedKeepsMeaning, Zenon
    <3>2. CASE ~Started(Retyped(def))
      BY <2>2, <2>3, <3>2, UnstartedKeepsMeaning, Zenon
    <3>3. QED
      BY <3>1, <3>2
  <2>5. saved = ToDefinition(Canvas, now.trigger)
    BY <2>3, Zenon DEF Canvas, Redrawn
  <2>6. QED
    BY <2>4, <2>5, Zenon DEF RunsAsBefore
<1>2. QED
  BY <1>1, LoopsComeAsFar, PTL

-----------------------------------------------------------------------------
(* What is legible is drawn well *)

(* One start at most, which nothing leads to.                              *)
StartsOnce(def) ==
  \A i \in DOMAIN def.nodes : IsStart(def.nodes[i]) =>
    /\ \A j \in DOMAIN def.nodes : IsStart(def.nodes[j]) => j = i
    /\ \A k \in DOMAIN def.edges : def.edges[k].target # def.nodes[i].id

LEMMA DrawingIsWellDrawn ==
  ASSUME NEW c, Distinct(c.nodes), OneStart(c.nodes), OneEach(c.edges),
         \A k \in DOMAIN c.edges : Joins(c.nodes, c.edges[k])
  PROVE  WellDrawn(c)
<1>1. \A k \in DOMAIN c.edges : From(c.nodes, c.edges[k]) /\ To(c.nodes, c.edges[k])
  BY Zenon DEF Joins
<1>2. \A k \in DOMAIN c.edges : \E i \in DOMAIN c.nodes :
        /\ c.nodes[i].id = c.edges[k].source
        /\ \/ c.edges[k].handle \in StepOutputs(c.nodes[i].type)
           \/ c.edges[k].handle = "" /\ StepOutputs(c.nodes[i].type) = {}
  BY <1>1, Zenon DEF From, LeavesBy
<1>3. \A k \in DOMAIN c.edges : \E i \in DOMAIN c.nodes :
        c.nodes[i].id = c.edges[k].target /\ ~IsStart(c.nodes[i])
  BY <1>1, Zenon DEF To
<1>4. QED
  BY <1>2, <1>3, Zenon DEF WellDrawn, Distinct, OneStart, OneEach

(* The edges that are drawn of a legible definition.                       *)
LEMMA RedrawnEdges ==
  ASSUME NEW def \in FlowDefinition, Redrawn(def), StartsOnce(NormalizeDefinition(def))
  PROVE  LET N == Retyped(def)
             E == Rehandled(def)
         IN OneEach(E) /\ \A k \in DOMAIN E : Joins(N, E[k])
<1> DEFINE N == Retyped(def)
           D == def.edges
           E == Rehandled(def)
           now == NormalizeDefinition(def)
<1>1. /\ now.nodes = N /\ now.edges = D /\ DOMAIN E = DOMAIN D /\ N \in Seq(AStep)
      /\ \A k \in DOMAIN D : /\ E[k].source = D[k].source /\ E[k].target = D[k].target
                             /\ D[k].source \in NodeIds(now) /\ D[k].target \in NodeIds(now)
  BY Zenon DEF Redrawn
<1>2. \A id \in NodeIds(now) : \E i \in DOMAIN N : N[i].id = id
  BY <1>1, Zenon DEF NodeIds
<1>3. OneEach(E)
  <2> SUFFICES ASSUME NEW k \in DOMAIN E, NEW j \in DOMAIN E,
                      E[j].source = E[k].source, E[j].handle = E[k].handle
               PROVE  j = k
    BY Zenon DEF OneEach
  <2>1. k \in DOMAIN D /\ j \in DOMAIN D /\ D[j].source = D[k].source
    BY <1>1, Zenon
  <2>2. PICK i \in DOMAIN N : N[i].id = D[k].source
    BY <1>1, <1>2, <2>1, Zenon
  <2>3. E[k].handle = Outlet(D[k], N[i]) /\ E[j].handle = Outlet(D[j], N[i])
    <3>1. \A l \in DOMAIN D : N[i].id = D[l].source => E[l].handle = Outlet(D[l], N[i])
      BY Zenon DEF Redrawn
    <3>2. N[i].id = D[j].source
      BY <2>1, <2>2, Zenon
    <3>3. QED
      BY <2>1, <2>2, <3>1, <3>2, Zenon
  <2>4. Outlet(D[j], N[i]) = Outlet(D[k], N[i])
    BY <2>3, Zenon
  <2>5. QED
    BY <2>1, <2>2, <2>4, Zenon DEF Redrawn
<1>4. ASSUME NEW k \in DOMAIN E
      PROVE  Joins(N, E[k])
  <2>1. From(N, E[k])
    <3>1. Leads(Bare(N), E[k])
      BY EdgesOfStored, Zenon
    <3>2. Bare(N).nodes = N
      BY DEF Bare
    <3>3. E[k].source \in CanvasIds(Bare(N)) /\ LeavesBy(E[k].handle, StepOf(Bare(N), E[k].source).type)
      BY <3>1, Zenon DEF Leads
    <3>4. PICK i \in DOMAIN N : StepOf(Bare(N), E[k].source) = N[i] /\ N[i].id = E[k].source
      <4> DEFINE B == Bare(N)
                 s == E[k].source
      <4> HIDE DEF B, s, N
      <4>1. B.nodes \in Seq(AStep) /\ s \in CanvasIds(B)
        BY <1>1, <3>2, <3>3, Zenon DEF B, s
      <4>2. \E i \in DOMAIN B.nodes : StepOf(B, s) = B.nodes[i] /\ B.nodes[i].id = s
        BY <4>1, StepOfFinds, Zenon
      <4>3. QED
        BY <3>2, <4>2, Zenon DEF B, s
    <3>5. QED
      BY <3>3, <3>4, Zenon DEF From
  <2>2. To(N, E[k])
    <3>1. k \in DOMAIN D /\ E[k].target = D[k].target /\ D[k].target \in NodeIds(now)
      BY <1>1, Zenon
    <3>2. PICK i \in DOMAIN N : N[i].id = D[k].target
      BY <1>2, <3>1, Zenon
    <3>3. ~IsStart(N[i])
      BY <1>1, <3>1, <3>2, Zenon DEF StartsOnce
    <3>4. QED
      BY <3>1, <3>2, <3>3, Zenon DEF To
  <2>3. QED
    BY <2>1, <2>2, Zenon DEF Joins
<1>5. QED
  BY <1>3, <1>4, Zenon

(* With a start of its own the steps stay as they are.                     *)
LEMMA StartedIsWellDrawn ==
  ASSUME NEW def \in FlowDefinition, Redrawn(def), StartsOnce(NormalizeDefinition(def)),
         def.nodes # <<>>, Started(Retyped(def))
  PROVE  WellDrawn(ToCanvas(def, "start"))
<1> DEFINE N == Retyped(def)
           E == Rehandled(def)
           c == ToCanvas(def, "start")
<1>1. c.nodes = N /\ c.edges = E
  <2>1. c = [nodes |-> N, edges |-> E]
    BY CanvasParts, Zenon
  <2>2. QED
    <3> HIDE DEF c, N, E
    <3>1. QED
      BY <2>1
<1>2. Distinct(N) /\ NormalizeDefinition(def).nodes = N
  BY Zenon DEF Redrawn
<1>3. \E i \in DOMAIN N : IsStart(N[i])
  <2>1. N # <<>>
    <3>1. def.nodes \in Seq(FlowNode) /\ N \in Seq(AStep) /\ DOMAIN N = DOMAIN def.nodes
      BY StepsOfStored DEF FlowDefinition
    <3> DEFINE nodes == def.nodes
    <3> HIDE DEF N, nodes
    <3>2. nodes \in Seq(FlowNode) /\ nodes # <<>> /\ DOMAIN N = DOMAIN nodes
      BY <3>1, Zenon DEF nodes
    <3>3. QED
      BY <3>2
  <2>2. QED
    BY <2>1, Zenon DEF Started
<1>4. OneStart(N)
  BY <1>2, <1>3, Zenon DEF StartsOnce, OneStart
<1>5. OneEach(E) /\ \A k \in DOMAIN E : Joins(N, E[k])
  BY RedrawnEdges, Zenon
<1> HIDE DEF N, E, c
<1>6. WellDrawn(c)
  BY <1>1, <1>2, <1>4, <1>5, DrawingIsWellDrawn, Zenon
<1>7. QED
  BY <1>6, Zenon DEF c

(* The start that is added leads to one step, and no edge to it.           *)
LEMMA UnstartedIsWellDrawn ==
  ASSUME NEW def \in FlowDefinition, Redrawn(def), StartsOnce(NormalizeDefinition(def)),
         Fresh(def), ~Started(Retyped(def))
  PROVE  WellDrawn(ToCanvas(def, "start"))
<1> DEFINE N == Retyped(def)
           E == Rehandled(def)
           e == ToRoot(N, E)
           M == <<First>> \o N
           F == Append(E, e)
           last == Len(E) + 1
           c == ToCanvas(def, "start")
<1>1. Distinct(N) /\ N \in Seq(AStep) /\ E \in Seq(AnEdge)
  BY Zenon DEF Redrawn
<1>2. c.nodes = M /\ c.edges = F
  <2>1. c = [nodes |-> M, edges |-> F]
    BY CanvasParts, Zenon
  <2>2. QED
    <3> HIDE DEF c, M, F
    <3>1. QED
      BY <2>1
<1>3. OneEach(E) /\ \A k \in DOMAIN E : Joins(N, E[k])
  BY RedrawnEdges, Zenon
<1>4. \A i \in DOMAIN N : N[i].id # "start" /\ ~IsStart(N[i])
  BY AddedStartIsNew, Zenon DEF Started
<1>5. PICK root \in DOMAIN N : RootId(N, E) = N[root].id
  BY <1>1, RootIsAStep, Zenon DEF Started
<1>6. e.source = "start" /\ e.target = N[root].id /\ e.handle = "next" /\ First.id = "start" /\ First.type = "trigger"
  BY <1>5, Zenon DEF ToRoot, First
<1>7. "next" \in StepOutputs("trigger")
  BY StartLeavesByNext, Zenon
<1> HIDE DEF N, E, e, c
<1>8. /\ 1 \in DOMAIN M /\ M[1] = First
      /\ \A i \in DOMAIN N : i + 1 \in DOMAIN M /\ M[i + 1] = N[i] /\ i + 1 # 1
      /\ \A j \in DOMAIN M : j # 1 => j - 1 \in DOMAIN N /\ M[j] = N[j - 1] /\ j = (j - 1) + 1
  <2>1. N \in Seq(AStep)
    BY <1>1
  <2>2. QED
    BY <2>1
<1>9. /\ \A k : k \in DOMAIN F <=> k \in DOMAIN E \/ k = last
      /\ F[last] = e
      /\ \A k \in DOMAIN E : F[k] = E[k]
  BY <1>1
<1> HIDE DEF M, F, last
<1>10. Distinct(M)
  <2> SUFFICES ASSUME NEW i \in DOMAIN M, NEW j \in DOMAIN M, M[i].id = M[j].id
               PROVE  i = j
    BY Zenon DEF Distinct
  <2>1. i = 1 <=> j = 1
    BY <1>4, <1>6, <1>8
  <2>2. CASE i # 1 /\ j # 1
    <3>1. i - 1 \in DOMAIN N /\ j - 1 \in DOMAIN N /\ N[i - 1].id = N[j - 1].id
      BY <1>8, <2>2
    <3>2. i - 1 = j - 1
      BY <1>1, <3>1, Zenon DEF Distinct
    <3>3. QED
      BY <1>8, <2>2, <3>2
  <2>3. QED
    BY <2>1, <2>2
<1>11. OneStart(M)
  <2>1. IsStart(M[1])
    BY <1>6, <1>8, Zenon DEF IsStart
  <2>2. \A j \in DOMAIN M : j # 1 => ~IsStart(M[j])
    BY <1>4, <1>8, Zenon
  <2>3. QED
    BY <1>8, <2>1, <2>2, Zenon DEF OneStart
<1>12. ASSUME NEW k \in DOMAIN E
       PROVE  Joins(M, F[k]) /\ F[k].source # "start"
  <2>1. F[k] = E[k]
    BY <1>9, Zenon
  <2>2. PICK i \in DOMAIN N : N[i].id = E[k].source /\ LeavesBy(E[k].handle, N[i].type)
    BY <1>3, Zenon DEF Joins, From
  <2>3. PICK j \in DOMAIN N : N[j].id = E[k].target /\ ~IsStart(N[j])
    BY <1>3, Zenon DEF Joins, To
  <2>4. From(M, F[k]) /\ To(M, F[k])
    <3>1. i + 1 \in DOMAIN M /\ M[i + 1] = N[i] /\ j + 1 \in DOMAIN M /\ M[j + 1] = N[j]
      BY <1>8, Zenon
    <3>2. From(M, F[k])
      BY <2>1, <2>2, <3>1, Zenon DEF From
    <3>3. To(M, F[k])
      BY <2>1, <2>3, <3>1, Zenon DEF To
    <3>4. QED
      BY <3>2, <3>3
  <2>5. N[i].id # "start"
    BY <1>4, Zenon
  <2>6. QED
    BY <2>1, <2>2, <2>4, <2>5, Zenon DEF Joins
<1>13. Joins(M, F[last])
  <2>1. LeavesBy("next", "trigger")
    BY <1>7, Zenon DEF LeavesBy
  <2>2. From(M, e)
    BY <1>6, <1>8, <2>1, Zenon DEF From
  <2>3. To(M, e)
    BY <1>4, <1>5, <1>6, <1>8, Zenon DEF To
  <2>4. QED
    BY <1>9, <2>2, <2>3, Zenon DEF Joins
<1>14. \A k \in DOMAIN F : Joins(M, F[k])
  BY <1>9, <1>12, <1>13, Zenon
<1>15. OneEach(F)
  <2> SUFFICES ASSUME NEW k \in DOMAIN F, NEW j \in DOMAIN F,
                      F[j].source = F[k].source, F[j].handle = F[k].handle
               PROVE  j = k
    BY Zenon DEF OneEach
  <2>1. F[last].source = "start"
    BY <1>6, <1>9, Zenon
  <2>2. CASE k = last \/ j = last
    BY <1>9, <1>12, <2>1, <2>2, Zenon
  <2>3. CASE k \in DOMAIN E /\ j \in DOMAIN E
    BY <1>3, <1>9, <2>3, Zenon DEF OneEach
  <2>4. QED
    BY <1>9, <2>2, <2>3, Zenon
<1>16. WellDrawn(c)
  BY <1>2, <1>10, <1>11, <1>14, <1>15, DrawingIsWellDrawn, Zenon
<1>17. QED
  BY <1>16, Zenon DEF c

(* toCanvas makes a sound drawing of every stored flow that both readers   *)
(* read in one way only: edges between its steps, one at most by each      *)
(* output and named where the browser looks, if by another than the        *)
(* default one, and one start at most, which nothing leads to.  So the     *)
(* flows the editor's page is assumed to find are all of these.            *)
THEOREM LegibleFlowsAreWellDrawn ==
  ASSUME NEW def \in FlowDefinition, def.nodes # <<>>, Fresh(def),
         Legible(NormalizeDefinition(def)), Spelled(NormalizeDefinition(def)),
         StartsOnce(NormalizeDefinition(def))
  PROVE  WellDrawn(ToCanvas(def, "start"))
<1>1. Redrawn(def)
  BY LegibleIsRedrawn, Zenon
<1>2. CASE Started(Retyped(def))
  BY <1>1, <1>2, StartedIsWellDrawn, Zenon
<1>3. CASE ~Started(Retyped(def))
  BY <1>1, <1>3, UnstartedIsWellDrawn, Zenon
<1>4. QED
  BY <1>2, <1>3

=============================================================================
