-------------------------- MODULE NavigatorProofs --------------------------
(***************************************************************************)
(* Proofs about the A* search of Navigator, for every map, every cost and  *)
(* every number of loops a call may take.                                  *)
(***************************************************************************)
EXTENDS Navigator, RouteService, SequenceLemmas, SequenceTheorems, FiniteSetTheorems, TLAPS

-----------------------------------------------------------------------------
\* The service of the navigator implements what tasks see of it.

\* The route holds waypoints only: all that the proof needs to know.
RouteTyped == route \in Seq(Waypoints)

LEMMA NoWptIsNoWaypoint == NoWpt \notin Waypoints
  BY GraphAssumption DEF NoWpt

\* Taking the first waypoint off a route leaves its end where it was.
LEMMA EndOfTail ==
    ASSUME NEW r \in Seq(Waypoints), r # <<>>, NEW s
    PROVE  /\ Head(r) \in Waypoints
           /\ Tail(r) \in Seq(Waypoints)
           /\ EndOf(Head(r), Tail(r)) = EndOf(s, r)
<1>1. /\ Head(r) \in Waypoints /\ Tail(r) \in Seq(Waypoints)
      /\ Len(Tail(r)) = Len(r) - 1
      /\ \A i \in 1 .. Len(Tail(r)) : Tail(r)[i] = r[i + 1]
  BY HeadTailProperties
<1>2. Len(r) \in Nat /\ Len(r) > 0 /\ Head(r) = r[1]
  OBVIOUS
<1>3. Tail(r) = <<>> <=> Len(Tail(r)) = 0
  BY <1>1, EmptySeq, Zenon
<1>4. CASE Len(r) = 1
  <2>1. Tail(r) = <<>>
    BY <1>1, <1>4, <1>3
  <2> QED
    BY <1>1, <1>2, <1>4, <2>1 DEF EndOf
<1>5. CASE Len(r) > 1
  <2>1. Tail(r) # <<>>
    BY <1>1, <1>5, <1>3
  <2>2. Tail(r)[Len(Tail(r))] = r[Len(r)]
    BY <1>1, <1>2, <1>5
  <2> QED
    BY <1>1, <2>1, <2>2 DEF EndOf
<1> QED
  BY <1>2, <1>4, <1>5

LEMMA RouteTypedInit == ServiceInit => RouteTyped
  BY DEF ServiceInit, RouteTyped

LEMMA RouteTypedStep == RouteTyped /\ [ServiceNext]_navVars => RouteTyped'
<1> SUFFICES ASSUME RouteTyped, [ServiceNext]_navVars
             PROVE  RouteTyped'
  OBVIOUS
<1> USE DEF RouteTyped
<1>1. ASSUME NEW g \in WptOrNone, NEW s \in WptOrNone, NEW byId \in BOOLEAN, Begin(g, s, byId)
      PROVE  RouteTyped'
  BY <1>1 DEF Begin
<1>2. CASE Resume
  BY <1>2 DEF Resume, walkVars
<1>3. ASSUME NEW W \in SUBSET Waypoints, NEW b \in BOOLEAN, Explore(W, b)
      PROVE  RouteTyped'
  BY <1>3 DEF Explore, walkVars
<1>4. CASE Answer
  <2>1. CASE ReturnPending \/ ReturnFailed
    BY <2>1 DEF ReturnPending, ReturnFailed, walkVars
  <2>2. CASE IsRoute(current, route', goal)
    BY <2>2 DEF IsRoute
  <2>3. CASE ReturnCycle
    <3>1. route' = <<>>
      BY <2>3 DEF ReturnCycle
    <3> QED
      BY <3>1
  <2> QED
    BY <1>4, <2>1, <2>2, <2>3 DEF Answer
<1>5. ASSUME NEW t \in BOOLEAN, NEW e \in BOOLEAN, UpdatePosition(t, e)
      PROVE  RouteTyped'
  BY <1>5 DEF UpdatePosition, walkVars
<1>6. CASE FailMove
  BY <1>6 DEF FailMove, walkVars
<1>7. ASSUME NEW s \in WptOrNone, NEW again \in WptOrNone, RollBack(s, again)
      PROVE  RouteTyped'
  BY <1>7 DEF RollBack
<1>8. CASE Clear
  BY <1>8 DEF Clear
<1>9. CASE UNCHANGED navVars
  BY <1>9 DEF navVars, walkVars
<1> QED
  BY <1>1, <1>2, <1>3, <1>4, <1>5, <1>6, <1>7, <1>8, <1>9 DEF ServiceNext

LEMMA PortInitially == ServiceInit => Port!PortInit
  BY DEF ServiceInit, Port!PortInit, NoWpt, Port!NoWpt

LEMMA PortStep == RouteTyped /\ [ServiceNext]_navVars => [Port!PortNext]_(Port!portVars)
<1> SUFFICES ASSUME RouteTyped, [ServiceNext]_navVars
             PROVE  Port!PortNext \/ UNCHANGED Port!portVars
  OBVIOUS
<1> NoWpt \notin Waypoints /\ Port!NoWpt = NoWpt
  BY NoWptIsNoWaypoint DEF NoWpt, Port!NoWpt
<1> USE DEF WptOrNone, Port!portVars
<1>1. ASSUME NEW g \in WptOrNone, NEW s \in WptOrNone, NEW byId \in BOOLEAN, Begin(g, s, byId)
      PROVE  Port!PortNext
  <2>1. CASE g = NoWpt \/ s = NoWpt
    <3>1. EndOf(current, route) = NoWpt => current = NoWpt
      BY DEF EndOf, RouteTyped
    <3>2. Port!PortRefuse(g)
      BY <1>1, <2>1, <3>1 DEF Begin, Port!PortRefuse
    <3> QED
      BY <3>2 DEF Port!PortNext
  <2>2. CASE g # NoWpt /\ s # NoWpt
    <3>1. Port!PortBegin(g)
      BY <1>1, <2>2 DEF Begin, Port!PortBegin
    <3> QED
      BY <3>1 DEF Port!PortNext
  <2> QED
    BY <2>1, <2>2
<1>2. CASE Resume
  BY <1>2 DEF Resume, walkVars, Port!PortGiveUp, Port!PortResume, Port!PortNext
<1>3. ASSUME NEW W \in SUBSET Waypoints, NEW b \in BOOLEAN, Explore(W, b)
      PROVE  UNCHANGED Port!portVars
  BY <1>3 DEF Explore, searchVars, walkVars
<1>4. CASE Answer
  <2>1. CASE working /\ ReturnPending
    <3>1. Port!PortPending
      BY <2>1 DEF ReturnPending, Report, walkVars, Port!PortPending, Port!PortReturn
    <3> QED
      BY <3>1 DEF Port!PortNext
  <2>2. CASE working /\ IsRoute(current, route', goal) /\ ReturnRoute(route')
    <3>1. EndOf(current, route') = goal
      BY <2>2 DEF IsRoute, EndOf
    <3>2. Port!PortFound
      BY <2>2, <3>1 DEF ReturnRoute, Report, Port!PortFound, Port!PortReturn
    <3> QED
      BY <3>2 DEF Port!PortNext
  <2>3. CASE ReturnFailed
    <3>1. Port!PortFailed
      BY <2>3 DEF ReturnFailed, Report, walkVars, Port!PortFailed, Port!PortReturn
    <3> QED
      BY <3>1 DEF Port!PortNext
  <2>4. CASE working /\ ReturnCycle
    <3>1. Port!PortCycle
      BY <2>4 DEF ReturnCycle, Report, Port!PortCycle, Port!PortReturn
    <3> QED
      BY <3>1 DEF Port!PortNext
  <2> QED
    BY <1>4, <2>1, <2>2, <2>3, <2>4 DEF Answer
<1>5. ASSUME NEW t \in BOOLEAN, NEW e \in BOOLEAN, UpdatePosition(t, e)
      PROVE  Port!PortNext \/ UNCHANGED Port!portVars
  <2>1. CASE ~(t /\ ~working)
    BY <1>5, <2>1 DEF UpdatePosition, searchVars, walkVars
  <2>2. CASE t /\ ~working /\ route = <<>>
    <3>1. Port!PortTouch(current)
      BY <1>5, <2>2 DEF UpdatePosition, searchVars, EndOf, Port!PortTouch
    <3> QED
      BY <1>5, <3>1 DEF UpdatePosition, Port!PortNext
  <2>3. CASE t /\ ~working /\ route # <<>>
    <3>1. current' = Head(route) /\ route' = Tail(route) /\ prev' = current
      BY <1>5, <2>3 DEF UpdatePosition
    <3>2. current' \in Waypoints /\ EndOf(current', route') = EndOf(current, route)
      BY <2>3, <3>1, EndOfTail DEF RouteTyped
    <3>3. Port!PortTouch(current)
      BY <1>5, <2>3, <3>1, <3>2 DEF UpdatePosition, searchVars, Port!PortTouch
    <3> QED
      BY <1>5, <3>3 DEF UpdatePosition, Port!PortNext
  <2> QED
    BY <2>1, <2>2, <2>3
<1>6. CASE FailMove
  BY <1>6 DEF FailMove, searchVars, walkVars
<1>7. ASSUME NEW s \in WptOrNone, NEW again \in WptOrNone, RollBack(s, again)
      PROVE  Port!PortNext
  <2>1. Port!PortLoseWay
    BY <1>7 DEF RollBack, searchVars, Port!PortLoseWay
  <2> QED
    BY <2>1 DEF Port!PortNext
<1>8. CASE Clear
  <2>1. Port!PortLoseWay
    BY <1>8 DEF Clear, searchVars, Port!PortLoseWay
  <2> QED
    BY <2>1 DEF Port!PortNext
<1>9. CASE UNCHANGED navVars
  BY <1>9 DEF navVars, searchVars, walkVars
<1> QED
  BY <1>1, <1>2, <1>3, <1>4, <1>5, <1>6, <1>7, <1>8, <1>9 DEF ServiceNext

(* Whatever the map, and in whatever order the navigator is called, its    *)
(* service looks to a task like RoutePort: a search ends with a way that   *)
(* leads to the goal of the search begun last, or with a failure, and the  *)
(* bot has reached that goal when such a way has no next point.            *)
THEOREM PortImplemented == ServiceSpec => PortKept
<1>1. ServiceSpec => []RouteTyped
  <2>1. ServiceInit => RouteTyped
    BY RouteTypedInit
  <2>2. RouteTyped /\ [ServiceNext]_navVars => RouteTyped'
    BY RouteTypedStep
  <2> QED
    BY <2>1, <2>2, PTL DEF ServiceSpec
<1>2. ServiceInit => Port!PortInit
  BY PortInitially
<1>3. RouteTyped /\ [ServiceNext]_navVars => [Port!PortNext]_(Port!portVars)
  BY PortStep
<1> QED
  BY <1>1, <1>2, <1>3, PTL DEF ServiceSpec, PortKept, Port!PortSpec
-----------------------------------------------------------------------------
\* The search implements the service.

\* AStarOpenList::add puts one node into the list, wherever it belongs.
LEMMA InsertFacts ==
    ASSUME NEW list \in Seq(Waypoints), NEW nodes, NEW w \in Waypoints
    PROVE  /\ Insert(list, nodes, w) \in Seq(Waypoints)
           /\ Range(Insert(list, nodes, w)) = Range(list) \cup {w}
           /\ IsInjective(list) /\ w \notin Range(list)
                => IsInjective(Insert(list, nodes, w))
<1> DEFINE after == {i \in DOMAIN list : Estimate(nodes, w) < Estimate(nodes, list[i])}
           at    == IF after = {} THEN Len(list) + 1
                    ELSE CHOOSE i \in after : \A j \in after : i <= j
           new   == InsertAt(list, at, w)
<1>1. Len(list) \in Nat /\ DOMAIN list = 1 .. Len(list)
  BY LenProperties
<1>2. at \in 1 .. Len(list) + 1
  <2>1. after \subseteq 1 .. Len(list)
    BY <1>1
  <2> HIDE DEF after
  <2>2. CASE after = {}
    BY <2>2, <1>1
  <2>3. CASE after # {}
    <3>1. after \subseteq Nat
      BY <2>1, <1>1
    <3>2. at \in after
      BY <2>3, <3>1, LeastInSet
    <3> HIDE DEF at
    <3>3. at \in 1 .. Len(list)
      BY <3>2, <2>1
    <3> QED
      BY <3>3, <1>1
  <2> QED
    BY <2>2, <2>3
<1>3. Insert(list, nodes, w) = new
  BY DEF Insert
<1> HIDE DEF after, at
<1>4. /\ new \in Seq(Waypoints) /\ Len(new) = Len(list) + 1
      /\ \A i \in 1 .. Len(list) + 1 : new[i] =
            IF i < at THEN list[i] ELSE IF i = at THEN w ELSE list[i - 1]
  BY <1>2, InsertAtFacts
<1> HIDE DEF new
<1>5. DOMAIN new = 1 .. Len(list) + 1
  BY <1>4, LenProperties
<1>a. ASSUME NEW i \in 1 .. Len(list) + 1, i # at
      PROVE  \E k \in 1 .. Len(list) : new[i] = list[k] /\ k = IF i < at THEN i ELSE i - 1
  <2>1. CASE i < at
    BY <2>1, <1>1, <1>2, <1>4
  <2>2. CASE i > at
    <3>1. i - 1 \in 1 .. Len(list) /\ new[i] = list[i - 1]
      BY <2>2, <1>1, <1>2, <1>4
    <3> QED
      BY <2>2, <3>1, <1>2
  <2> QED
    BY <1>a, <2>1, <2>2, <1>1, <1>2
<1>b. new[at] = w
  BY <1>1, <1>2, <1>4
<1>6. Range(new) = Range(list) \cup {w}
  <2>1. Range(new) \subseteq Range(list) \cup {w}
    <3>1. ASSUME NEW i \in 1 .. Len(list) + 1 PROVE new[i] \in Range(list) \cup {w}
      <4>1. CASE i = at
        BY <4>1, <1>b
      <4>2. CASE i # at
        BY <4>2, <1>a, <1>1 DEF Range
      <4> QED
        BY <4>1, <4>2
    <3> QED
      BY <3>1, <1>5 DEF Range
  <2>2. w \in Range(new)
    BY <1>2, <1>4, <1>5 DEF Range
  <2>3. ASSUME NEW i \in 1 .. Len(list) PROVE list[i] \in Range(new)
    <3>1. CASE i < at
      BY <3>1, <1>1, <1>4, <1>5 DEF Range
    <3>2. CASE i >= at
      <4>1. new[i + 1] = list[i]
        BY <3>2, <1>1, <1>2, <1>4
      <4> QED
        BY <4>1, <1>1, <1>5 DEF Range
    <3> QED
      BY <3>1, <3>2, <1>2
  <2> QED
    BY <2>1, <2>2, <2>3, <1>1 DEF Range
<1>7. ASSUME IsInjective(list), w \notin Range(list) PROVE IsInjective(new)
  <2>1. \A k \in 1 .. Len(list) : list[k] # w
    BY <1>7, <1>1 DEF Range
  <2>2. \A k, l \in 1 .. Len(list) : list[k] = list[l] => k = l
    BY <1>7, <1>1 DEF IsInjective
  <2>3. ASSUME NEW i \in 1 .. Len(list) + 1, NEW j \in 1 .. Len(list) + 1, new[i] = new[j]
        PROVE  i = j
    <3>1. CASE i = at /\ j # at
      BY <3>1, <2>1, <2>3, <1>a, <1>b
    <3>2. CASE i # at /\ j = at
      BY <3>2, <2>1, <2>3, <1>a, <1>b
    <3>3. CASE i # at /\ j # at
      <4>1. PICK k \in 1 .. Len(list) : new[i] = list[k] /\ k = IF i < at THEN i ELSE i - 1
        BY <3>3, <1>a
      <4>2. PICK l \in 1 .. Len(list) : new[j] = list[l] /\ l = IF j < at THEN j ELSE j - 1
        BY <3>3, <1>a
      <4>3. k = l
        BY <4>1, <4>2, <2>2, <2>3
      <4> QED
        BY <4>1, <4>2, <4>3, <3>3, <1>1, <1>2
    <3> QED
      BY <3>1, <3>2, <3>3
  <2> QED
    BY <2>3, <1>5 DEF IsInjective
<1> QED
  BY <1>3, <1>4, <1>6, <1>7
-----------------------------------------------------------------------------
\* Nodes enter the open list when they are opened, and stay opened; the node
\* whose paths are tried came from there.
SearchInv ==
    /\ SearchTypeOK
    /\ OpenListSound
    /\ curr # NoWpt => node[curr].opened

LEMMA NoWptIsNone == NoWpt \in Int /\ NoWpt \notin Waypoints /\ Waypoints \subseteq Nat
  BY GraphAssumption DEF NoWpt

LEMMA SearchInit == Init => SearchInv
<1> SUFFICES ASSUME Init PROVE SearchInv
  OBVIOUS
<1>1. FreshNode \in NodeRecord
  BY DEF FreshNode, NodeRecord, WptOrNone
<1>2. SearchTypeOK
  <2>1. open = <<>> /\ open \in Seq(Waypoints)
    BY EmptySeq DEF Init
  <2>2. loops \in 0 .. MaxLoops /\ iPath \in Nat \ {0}
    BY CostAssumption DEF Init
  <2>3. node \in [Waypoints -> NodeRecord]
    BY <1>1 DEF Init
  <2>4. phase \in {"idle", "called"} /\ found \in BOOLEAN
    BY DEF Init, ServiceInit
  <2>5. goal \in WptOrNone /\ curr \in WptOrNone /\ lastNode \in WptOrNone
    BY DEF Init, ServiceInit, WptOrNone
  <2> QED
    BY <2>1, <2>2, <2>3, <2>4, <2>5 DEF SearchTypeOK
<1>3. open = <<>> /\ DOMAIN open = {}
  BY DEF Init
<1> QED
  BY <1>2, <1>3 DEF SearchInv, OpenListSound, IsInjective, Init

\* Each action of the search preserves the invariant.
LEMMA SearchStart ==
    ASSUME SearchInv, NEW g \in WptOrNone, NEW s \in WptOrNone, NEW byId \in BOOLEAN,
           StartRoute(g, s, byId)
    PROVE  SearchInv'
<1>1. /\ phase' \in {"idle", "called"} /\ goal' \in WptOrNone
      /\ curr' = NoWpt /\ iPath' = 1 /\ loops' = 0 /\ lastNode' = NoWpt /\ found' = FALSE
  BY DEF StartRoute, Begin, CallLocals, SearchInv, SearchTypeOK
<1>a. /\ curr' \in WptOrNone /\ lastNode' \in WptOrNone /\ iPath' \in Nat \ {0}
      /\ loops' \in 0 .. MaxLoops /\ found' \in BOOLEAN
  <2>1. curr' \in WptOrNone /\ lastNode' \in WptOrNone
    BY <1>1 DEF WptOrNone
  <2>2. iPath' \in Nat \ {0} /\ loops' \in 0 .. MaxLoops
    BY <1>1, CostAssumption
  <2> QED
    BY <1>1, <2>1, <2>2
<1>2. CASE g = NoWpt \/ s = NoWpt
  <2>1. UNCHANGED <<node, open>>
    BY <1>2 DEF StartRoute
  <2> QED
    BY <1>1, <1>a, <2>1 DEF SearchInv, SearchTypeOK, OpenListSound
<1>3. CASE ~ (g = NoWpt \/ s = NoWpt)
  <2>1. s \in Waypoints
    BY <1>3 DEF WptOrNone
  <2>2. PICK h \in Heuristics :
          /\ node' = [w \in Waypoints |-> IF w = s
                        THEN [FreshNode EXCEPT !.opened = TRUE, !.heur = h,
                                               !.heurSet = TRUE]
                        ELSE FreshNode]
          /\ open' = <<s>>
    BY <1>3 DEF StartRoute
  <2>3. h \in Nat
    BY CostAssumption
  <2>4. node' \in [Waypoints -> NodeRecord]
    BY <2>2, <2>3 DEF FreshNode, NodeRecord, WptOrNone
  <2>5. open' \in Seq(Waypoints) /\ DOMAIN open' = {1} /\ open'[1] = s
    BY <2>1, <2>2
  <2>6. node'[s].opened
    BY <2>1, <2>2 DEF FreshNode
  <2> QED
    BY <1>1, <1>a, <2>4, <2>5, <2>6
       DEF SearchInv, SearchTypeOK, OpenListSound, IsInjective
<1> QED
  BY <1>2, <1>3

LEMMA SearchTake ==
    ASSUME SearchInv, TakeNode
    PROVE  SearchInv'
<1>1. /\ open \in Seq(Waypoints) /\ open # <<>> /\ open' = Tail(open) /\ node' = node
      /\ phase' = phase /\ goal' = goal /\ lastNode' = lastNode /\ iPath' = 1
      /\ found' \in BOOLEAN /\ loops' = loops + 1 /\ loops < MaxLoops
      /\ curr' \in {curr, Head(open)} /\ curr = NoWpt
  BY DEF TakeNode, Explore, SearchInv, SearchTypeOK, LoopsLeft, navVars, searchVars
<1>2. Len(open) \in Nat \ {0} /\ DOMAIN open = 1 .. Len(open) /\ Head(open) = open[1]
  BY <1>1
<1>3. /\ Head(open) \in Waypoints /\ open' \in Seq(Waypoints)
      /\ Len(open') = Len(open) - 1 /\ DOMAIN open' = 1 .. Len(open) - 1
      /\ \A i \in 1 .. Len(open) - 1 : open'[i] = open[i + 1]
  BY <1>1, <1>2, HeadTailProperties, LenProperties
<1>4. node'[Head(open)].opened
  BY <1>1, <1>2 DEF SearchInv, OpenListSound
<1>5. SearchTypeOK'
  BY <1>1, <1>3, CostAssumption DEF SearchInv, SearchTypeOK, WptOrNone
<1>6. IsInjective(open')
  <2>1. \A a, b \in 1 .. Len(open) : open[a] = open[b] => a = b
    BY <1>2 DEF SearchInv, OpenListSound, IsInjective
  <2> QED
    BY <2>1, <1>2, <1>3 DEF IsInjective
<1>7. \A i \in DOMAIN open' : node'[open'[i]].opened
  BY <1>1, <1>2, <1>3 DEF SearchInv, OpenListSound
<1> QED
  BY <1>1, <1>4, <1>5, <1>6, <1>7 DEF SearchInv, OpenListSound

\* What one path of curr does to the node it leads to.
LEMMA PathTried ==
    ASSUME SearchInv, TryPath
    PROVE  \/ UNCHANGED <<node, open>>
           \/ \E v \in Waypoints, h \in Nat :
                /\ v # curr /\ Improves(v) /\ curr \in Waypoints /\ Usable(curr, v, goal)
                /\ CostVia(v) \in Nat /\ Belief[v] \in Nat
                /\ Reached(v, h) \in NodeRecord
                /\ node' = [node EXCEPT ![v] = Reached(v, h)]
                /\ open' = IF node[v].opened THEN open ELSE Insert(open, node', v)
<1> DEFINE v == Paths[curr][iPath]
<1>1. curr \in Waypoints /\ iPath \in 1 .. Len(Paths[curr]) /\ Paths[curr] \in Seq(Waypoints)
  BY PathsAssumption, LenProperties DEF SearchInv, SearchTypeOK, TryPath, WptOrNone
<1>2. v \in Waypoints
  BY <1>1, ElementOfSeq
<1>3. CASE UNCHANGED <<node, open>>
  BY <1>3
<1>4. CASE ~ UNCHANGED <<node, open>>
  <2>1. PICK h \in Heuristics :
          /\ v # curr /\ Improves(v) /\ MayEnter(v) /\ ~FailedLastTime(v)
          /\ node' = [node EXCEPT ![v] = Reached(v, h)]
          /\ open' = IF node[v].opened THEN open ELSE Insert(open, node', v)
    BY <1>4 DEF TryPath, Enters
  <2>a. <<curr, v>> \in Edges
    <3>1. DOMAIN Paths[curr] = 1 .. Len(Paths[curr])
      BY <1>1
    <3>2. v \in Range(Paths[curr])
      BY <1>1, <3>1 DEF Range
    <3> QED
      BY <1>1, <1>2, <3>2, PathsAssumption
  <2>b. Usable(curr, v, goal)
    BY <2>1, <2>a DEF Usable, MayEnter, FailedLastTime
  <2>2. h \in Nat
    BY CostAssumption
  <2>3. node[v] \in NodeRecord /\ node[curr] \in NodeRecord
    BY <1>1, <1>2 DEF SearchInv, SearchTypeOK
  <2>4. Dist[curr][v] \in Nat /\ Belief[v] \in Nat
    BY <1>1, <1>2, CostAssumption
  <2>5. CostVia(v) \in Nat
    BY <2>3, <2>4 DEF CostVia, NodeRecord
  <2>6. Reached(v, h) \in NodeRecord
    BY <1>1, <2>2, <2>3, <2>4, <2>5 DEF Reached, NodeRecord, WptOrNone
  <2> QED
    BY <1>1, <1>2, <2>1, <2>b, <2>2, <2>4, <2>5, <2>6
<1> QED
  BY <1>3, <1>4

LEMMA SearchTry ==
    ASSUME SearchInv, TryPath
    PROVE  SearchInv'
<1>1. /\ phase' = phase /\ goal' = goal /\ curr' = curr /\ loops' = loops
      /\ lastNode' = lastNode /\ found' = found /\ iPath' \in Nat \ {0}
  BY DEF TryPath, Explore, searchVars, SearchInv, SearchTypeOK
<1>2. CASE UNCHANGED <<node, open>>
  BY <1>1, <1>2 DEF SearchInv, SearchTypeOK, OpenListSound
<1>3. ASSUME NEW v \in Waypoints, NEW h \in Nat, Reached(v, h) \in NodeRecord,
             node' = [node EXCEPT ![v] = Reached(v, h)],
             open' = IF node[v].opened THEN open ELSE Insert(open, node', v)
      PROVE  SearchInv'
  <2>1. node' \in [Waypoints -> NodeRecord]
    BY <1>3 DEF SearchInv, SearchTypeOK
  <2>2. \A w \in Waypoints : node[w].opened => node'[w].opened
    BY <1>3 DEF Reached, SearchInv, SearchTypeOK
  <2>3. node'[v].opened
    BY <1>3 DEF Reached, SearchInv, SearchTypeOK
  <2>4. open \in Seq(Waypoints) /\ \A w \in Range(open) : w \in Waypoints /\ node[w].opened
    <3>1. \A i \in DOMAIN open : open[i] \in Waypoints
      BY ElementOfSeq, LenProperties DEF SearchInv, SearchTypeOK
    <3> QED
      BY <3>1 DEF SearchInv, SearchTypeOK, OpenListSound, Range
  <2>5. open' \in Seq(Waypoints) /\ Range(open') \subseteq Range(open) \cup {v} /\ IsInjective(open')
    <3>1. CASE node[v].opened
      BY <3>1, <1>3, <2>4 DEF SearchInv, OpenListSound
    <3>2. CASE ~ node[v].opened
      <4>1. v \notin Range(open)
        BY <3>2, <2>4
      <4> QED
        BY <3>2, <4>1, <1>3, <2>4, InsertFacts DEF SearchInv, OpenListSound
    <3> QED
      BY <3>1, <3>2
  <2>6. \A i \in DOMAIN open' : node'[open'[i]].opened
    <3>1. \A w \in Range(open') : node'[w].opened
      BY <2>2, <2>3, <2>4, <2>5
    <3> QED
      BY <3>1 DEF Range
  <2>7. curr # NoWpt => node'[curr].opened
    BY <2>2 DEF SearchInv, SearchTypeOK, WptOrNone
  <2> QED
    BY <1>1, <2>1, <2>5, <2>6, <2>7 DEF SearchInv, SearchTypeOK, OpenListSound
<1> QED
  BY <1>2, <1>3, PathTried

LEMMA SearchClose ==
    ASSUME SearchInv, CloseNode
    PROVE  SearchInv'
<1>1. /\ UNCHANGED <<phase, goal, open, iPath, loops, found>>
      /\ curr \in Waypoints /\ lastNode' = curr /\ curr' = NoWpt
      /\ node' = [node EXCEPT ![curr].closed = TRUE]
  BY DEF CloseNode, navVars, searchVars, SearchInv, SearchTypeOK, WptOrNone
<1>2. node' \in [Waypoints -> NodeRecord]
  BY <1>1 DEF SearchInv, SearchTypeOK, NodeRecord
<1>3. \A w \in Waypoints : node'[w].opened = node[w].opened
  BY <1>1 DEF SearchInv, SearchTypeOK, NodeRecord
<1>4. \A i \in DOMAIN open : open[i] \in Waypoints
  BY ElementOfSeq, LenProperties DEF SearchInv, SearchTypeOK
<1> QED
  BY <1>1, <1>2, <1>3, <1>4 DEF SearchInv, SearchTypeOK, OpenListSound, WptOrNone

LEMMA SearchReturn ==
    ASSUME SearchInv, Return
    PROVE  SearchInv'
<1>1. /\ UNCHANGED <<node, curr, iPath, loops, lastNode, found, goal>> /\ phase' = "idle"
      /\ open' \in {open, <<>>}
  BY DEF Return, ReturnPending, ReturnFailed, ReturnCycle, ReturnRoute, Report
<1>2. <<>> \in Seq(Waypoints) /\ DOMAIN <<>> = {} /\ IsInjective(<<>>)
  BY EmptySeq DEF IsInjective
<1> QED
  BY <1>1, <1>2 DEF SearchInv, SearchTypeOK, OpenListSound

\* The invariant of the search is inductive.
LEMMA SearchStep == SearchInv /\ [Next]_vars => SearchInv'
<1> SUFFICES ASSUME SearchInv, [Next]_vars PROVE SearchInv'
  OBVIOUS
<1>1. ASSUME NEW g \in WptOrNone, NEW s \in WptOrNone, NEW byId \in BOOLEAN,
             StartRoute(g, s, byId)
      PROVE  SearchInv'
  BY <1>1, SearchStart
<1>2. CASE ContinueRoute
  <2>1. /\ UNCHANGED <<node, open, goal>> /\ phase' \in {"idle", "called"}
        /\ curr' = NoWpt /\ iPath' = 1 /\ loops' = 0 /\ lastNode' = NoWpt /\ found' = FALSE
    BY <1>2 DEF ContinueRoute, Resume, CallLocals
  <2>2. iPath' \in Nat \ {0} /\ loops' \in 0 .. MaxLoops
    BY <2>1, CostAssumption
  <2> QED
    BY <2>1, <2>2 DEF SearchInv, SearchTypeOK, OpenListSound, WptOrNone
<1>3. CASE TakeNode
  BY <1>3, SearchTake
<1>4. CASE TryPath
  BY <1>4, SearchTry
<1>5. CASE CloseNode
  BY <1>5, SearchClose
<1>6. CASE Return
  BY <1>6, SearchReturn
<1>7. CASE Walk
  <2>1. UNCHANGED astarVars /\ UNCHANGED <<phase, goal>>
    BY <1>7 DEF Walk, UpdatePosition, FailMove, Clear, searchVars
  <2> QED
    BY <2>1 DEF astarVars, SearchInv, SearchTypeOK, OpenListSound
<1>8. CASE LoseWay
  <2>1. UNCHANGED <<node, open, curr, iPath, loops, lastNode, found, phase, goal>>
    BY <1>8 DEF LoseWay, RollBack, searchVars
  <2> QED
    BY <2>1 DEF SearchInv, SearchTypeOK, OpenListSound
<1>9. CASE UNCHANGED vars
  BY <1>9 DEF vars, navVars, searchVars, astarVars, SearchInv, SearchTypeOK, OpenListSound
<1> QED
  BY <1>1, <1>2, <1>3, <1>4, <1>5, <1>6, <1>7, <1>8, <1>9 DEF Next

(* In every reachable state the open list of workRoute holds no node twice *)
(* and only nodes marked open, and the records of the search have their    *)
(* types: isOpen, which guards AStarOpenList::add, can be relied on.       *)
THEOREM OpenListIsSound == Spec => []OpenListSound
<1>1. Init => SearchInv
  BY SearchInit
<1>2. SearchInv /\ [Next]_vars => SearchInv'
  BY SearchStep
<1>3. SearchInv => OpenListSound
  BY DEF SearchInv
<1> QED
  BY <1>1, <1>2, <1>3, PTL DEF Spec

(* The variables of the search keep their types.                           *)
THEOREM SearchTypeCorrect == Spec => []SearchTypeOK
<1>1. Init => SearchInv
  BY SearchInit
<1>2. SearchInv /\ [Next]_vars => SearchInv'
  BY SearchStep
<1>3. SearchInv => SearchTypeOK
  BY DEF SearchInv
<1> QED
  BY <1>1, <1>2, <1>3, PTL DEF Spec

(* During a search a node that was taken from the open list never returns  *)
(* to it, so a search takes every node at most once and comes to an end.   *)
THEOREM TakenNodesStayOut == Spec => NeverReopened
<1> DEFINE Stays == node' # node /\ phase = "called"
                       => \A w \in Waypoints : Taken(w) => w \notin Range(open')
<1>1. SearchInv /\ Next => Stays
  <2> SUFFICES ASSUME SearchInv, Next, node' # node, phase = "called",
                      NEW w \in Waypoints, Taken(w)
               PROVE  w \notin Range(open')
    OBVIOUS
  <2>1. TryPath \/ CloseNode
    BY DEF Next, StartRoute, Begin, ContinueRoute, TakeNode, Return, Walk, LoseWay, astarVars
  <2>2. CASE CloseNode
    BY <2>2 DEF CloseNode, Taken
  <2>3. CASE TryPath
    <3>1. PICK v \in Waypoints, h \in Nat :
            open' = IF node[v].opened THEN open ELSE Insert(open, node', v)
      BY <2>3, PathTried
    <3>2. CASE node[v].opened
      BY <3>1, <3>2 DEF Taken
    <3>3. CASE ~ node[v].opened
      <4>1. w # v
        BY <3>3 DEF Taken
      <4>2. Range(open') = Range(open) \cup {v}
        BY <3>1, <3>3, InsertFacts DEF SearchInv, SearchTypeOK
      <4> QED
        BY <4>1, <4>2 DEF Taken
    <3> QED
      BY <3>2, <3>3
  <2> QED
    BY <2>1, <2>2, <2>3
<1>2. SearchInv /\ [Next]_vars => [Stays]_vars
  BY <1>1
<1>3. Init => SearchInv
  BY SearchInit
<1>4. SearchInv /\ [Next]_vars => SearchInv'
  BY SearchStep
<1> QED
  BY <1>2, <1>3, <1>4, PTL DEF Spec, NeverReopened
-----------------------------------------------------------------------------
\* Parents were opened before their children; a node without parent is not
\* made cheaper once it is opened.
CostInv ==
    /\ \A w \in Waypoints : node[w].parent # NoWpt =>
          node[w].parent \in Waypoints /\ node[node[w].parent].opened
    /\ CostsGrowAlongParents

LEMMA CostStart ==
    ASSUME NEW g \in WptOrNone, NEW s \in WptOrNone, NEW byId \in BOOLEAN, CostInv,
           StartRoute(g, s, byId)
    PROVE  CostInv'
<1>1. CASE node' = node
  BY <1>1 DEF CostInv, CostsGrowAlongParents
<1>2. CASE node' # node
  <2>a. PICK h \in Heuristics :
          node' = [w \in Waypoints |-> IF w = s
                     THEN [FreshNode EXCEPT !.opened = TRUE, !.heur = h, !.heurSet = TRUE]
                     ELSE FreshNode]
    BY <1>2 DEF StartRoute
  <2>1. \A w \in Waypoints : node'[w].parent = NoWpt
    BY <2>a DEF FreshNode
  <2> QED
    BY <2>1 DEF CostInv, CostsGrowAlongParents
<1> QED
  BY <1>1, <1>2

LEMMA CostTry ==
    ASSUME SearchInv, CostInv, TryPath
    PROVE  CostInv'
<1>1. CASE node' = node
  BY <1>1 DEF CostInv, CostsGrowAlongParents
<1>2. ASSUME NEW v \in Waypoints, NEW h \in Nat, v # curr, Improves(v), curr \in Waypoints,
             CostVia(v) \in Nat, node' = [node EXCEPT ![v] = Reached(v, h)]
      PROVE  CostInv'
  <2>1. /\ node \in [Waypoints -> NodeRecord] /\ node[curr].opened /\ curr # NoWpt
        /\ \A w \in Waypoints : node[w] \in NodeRecord
    BY NoWptIsNone, <1>2 DEF SearchInv, SearchTypeOK
  <2>2. /\ Plain(curr, v) => CostVia(v) = node[curr].cost + Dist[curr][v]
        /\ Belief[v] \in Nat /\ node[curr].cost \in Nat /\ Dist[curr][v] \in Nat
    BY <1>2, <2>1, CostAssumption DEF Plain, CostVia, NodeRecord
  <2>3. /\ node'[v].parent = curr /\ node'[v].cost = CostVia(v) + Belief[v]
        /\ node'[v].opened /\ node'[curr] = node[curr]
    BY <1>2, <2>1 DEF Reached
  <2>4. \A w \in Waypoints : w # v => node'[w] = node[w]
    BY <1>2, <2>1
  <2>5. ASSUME NEW w \in Waypoints, node'[w].parent # NoWpt
        PROVE  /\ node'[w].parent \in Waypoints /\ node'[node'[w].parent].opened
               /\ Plain(node'[w].parent, w) =>
                    node'[w].cost >= node'[node'[w].parent].cost + Dist[node'[w].parent][w]
    <3>1. CASE w = v
      BY <3>1, <1>2, <2>1, <2>2, <2>3
    <3>2. CASE w # v
      <4> DEFINE p == node[w].parent
      <4>1. /\ node'[w] = node[w] /\ p \in Waypoints /\ node[p].opened
            /\ Plain(p, w) => node[w].cost >= node[p].cost + Dist[p][w]
        BY <3>2, <2>4, <2>5 DEF CostInv, CostsGrowAlongParents
      <4>2. CASE p # v
        BY <4>1, <4>2, <2>4
      <4>3. CASE p = v
        <5>1. CostVia(v) < node[v].cost
          BY <4>1, <4>3, <1>2 DEF Improves
        <5>2. /\ Dist[v][w] \in Nat /\ node[w].cost \in Nat /\ node[v].cost \in Nat
          BY <2>1, CostAssumption DEF NodeRecord
        <5>3. Plain(v, w) => node'[v].cost = CostVia(v)
          BY <1>2, <2>3 DEF Plain
        <5> QED
          BY <4>1, <4>3, <5>1, <5>2, <5>3, <1>2, <2>3
      <4> QED
        BY <4>2, <4>3
    <3> QED
      BY <3>1, <3>2
  <2> QED
    BY <2>5 DEF CostInv, CostsGrowAlongParents
<1> QED
  BY <1>1, <1>2, PathTried

LEMMA CostStep == SearchInv /\ CostInv /\ [Next]_vars => CostInv'
<1> SUFFICES ASSUME SearchInv, CostInv, [Next]_vars PROVE CostInv'
  OBVIOUS
<1>1. ASSUME NEW g \in WptOrNone, NEW s \in WptOrNone, NEW byId \in BOOLEAN,
             StartRoute(g, s, byId)
      PROVE  CostInv'
  BY <1>1, CostStart
<1>2. CASE TryPath
  BY <1>2, CostTry
<1>3. CASE CloseNode
  <2>1. /\ node' = [node EXCEPT ![curr].closed = TRUE]
        /\ node \in [Waypoints -> NodeRecord]
    BY <1>3 DEF CloseNode, SearchInv, SearchTypeOK
  <2>2. \A w \in Waypoints : /\ node'[w].parent = node[w].parent
                             /\ node'[w].cost = node[w].cost
                             /\ node'[w].opened = node[w].opened
    BY <2>1 DEF NodeRecord
  <2> QED
    BY <2>2 DEF CostInv, CostsGrowAlongParents
<1>4. CASE ContinueRoute \/ TakeNode \/ Return \/ Walk \/ LoseWay \/ UNCHANGED vars
  <2>1. node' = node
    BY <1>4 DEF ContinueRoute, TakeNode, Return, Walk, LoseWay, vars, astarVars
  <2> QED
    BY <2>1 DEF CostInv, CostsGrowAlongParents
<1> QED
  BY <1>1, <1>2, <1>3, <1>4 DEF Next

(* Along paths without teleports and without believed danger costs never   *)
(* fall from a parent to its child, on every map and in every search.      *)
THEOREM CostsGrow == Spec => []CostsGrowAlongParents
<1>1. Init => SearchInv
  BY SearchInit
<1>2. Init => CostInv
  BY DEF Init, FreshNode, CostInv, CostsGrowAlongParents
<1>3. SearchInv /\ [Next]_vars => SearchInv'
  BY SearchStep
<1>4. SearchInv /\ CostInv /\ [Next]_vars => CostInv'
  BY CostStep
<1>5. CostInv => CostsGrowAlongParents
  BY DEF CostInv
<1> QED
  BY <1>1, <1>2, <1>3, <1>4, <1>5, PTL DEF Spec
-----------------------------------------------------------------------------
\* Part of a way to the goal, of nodes that were met.
Chain(b) ==
    /\ b \in Seq(Waypoints) /\ Len(b) > 0 /\ b[Len(b)] = goal
    /\ node[b[1]].opened
    /\ \A i \in 1 .. Len(b) - 1 : Usable(b[i], b[i + 1], goal)

\* It grows by the parent of its first node.
LEMMA ChainGrows ==
    ASSUME Rooted, NEW b, Chain(b), Head(b) # current
    PROVE  /\ Head(b) \in Waypoints
           /\ Chain(<<node[Head(b)].parent>> \o b)
           /\ Len(<<node[Head(b)].parent>> \o b) = Len(b) + 1
<1> DEFINE p == node[Head(b)].parent
           c == <<p>> \o b
<1>1. /\ b \in Seq(Waypoints) /\ Len(b) \in Nat \ {0} /\ Head(b) = b[1] /\ b[1] \in Waypoints
      /\ b[Len(b)] = goal /\ node[b[1]].opened
  BY ElementOfSeq, LenProperties DEF Chain
<1>2. p \in Waypoints /\ node[p].opened /\ Usable(p, b[1], goal)
  BY <1>1 DEF Rooted
<1> HIDE DEF p
<1>3. /\ c \in Seq(Waypoints) /\ Len(c) = Len(b) + 1
      /\ \A i \in 1 .. Len(b) + 1 : c[i] = IF i = 1 THEN p ELSE b[i - 1]
  BY <1>1, <1>2, InFrontFacts
<1> HIDE DEF c
<1>4. c[1] = p /\ c[Len(c)] = goal
  BY <1>1, <1>3
<1>5. ASSUME NEW i \in 1 .. Len(c) - 1 PROVE Usable(c[i], c[i + 1], goal)
  <2>1. CASE i = 1
    <3>1. c[1] = p /\ c[2] = b[1]
      BY <1>1, <1>3
    <3> QED
      BY <2>1, <3>1, <1>2
  <2>2. CASE i # 1
    <3>1. i - 1 \in 1 .. Len(b) - 1
      BY <2>2, <1>1, <1>3
    <3>2. c[i] = b[i - 1] /\ c[i + 1] = b[i - 1 + 1]
      BY <2>2, <1>1, <1>3
    <3> QED
      BY <3>1, <3>2 DEF Chain
  <2> QED
    BY <2>1, <2>2
<1>6. Chain(c)
  BY <1>1, <1>2, <1>3, <1>4, <1>5 DEF Chain
<1> QED
  BY <1>1, <1>3, <1>6 DEF c, p

\* The parents followed back from the goal are the route, unless the start is
\* not met within as many steps as there are waypoints.
LEMMA BackTraceIsRoute ==
    ASSUME Rooted, node[goal].opened, ~CycleFound
    PROVE  IsRoute(current, BackTrace, goal)
<1> DEFINE N == Cardinality(Waypoints)
           back[k \in 0 .. Cardinality(Waypoints)] ==
             IF k = 0 THEN <<goal>>
             ELSE LET b == back[k - 1]
                  IN  IF Head(b) = current THEN b
                      ELSE IF Head(b) = NoWpt THEN b
                      ELSE <<node[Head(b)].parent>> \o b
           full == back[N]
           S == {b \in Seq(Waypoints) : Chain(b)}
           longer == [b \in S |-> IF Head(b) = current THEN b ELSE <<node[Head(b)].parent>> \o b]
           step == [k \in Nat |-> longer]
<1>1. BackTrace = IF Head(full) \in {current, NoWpt} THEN Tail(full) ELSE full
  BY DEF BackTrace
<1>2. back = CHOOSE f : f = [k \in 0 .. Cardinality(Waypoints) |->
                IF k = 0 THEN <<goal>>
                ELSE LET b == f[k - 1]
                     IN  IF Head(b) = current THEN b
                         ELSE IF Head(b) = NoWpt THEN b
                         ELSE <<node[Head(b)].parent>> \o b]
  OBVIOUS
<1> HIDE DEF back
<1>3. N \in Nat
  BY WaypointsAssumption, FS_CardinalityType
<1>4. <<goal>> \in S
  <2>1. <<goal>> \in Seq(Waypoints) /\ Len(<<goal>>) = 1 /\ <<goal>>[1] = goal
    BY DEF Rooted
  <2>2. Chain(<<goal>>)
    BY <2>1 DEF Chain
  <2> QED
    BY <2>1, <2>2
<1>5. ASSUME NEW b \in S
      PROVE  /\ Head(b) \in Waypoints /\ Head(b) # NoWpt
             /\ Head(b) # current => <<node[Head(b)].parent>> \o b \in S
  <2>1. Chain(b) /\ b \in Seq(Waypoints) /\ Head(b) \in Waypoints
    BY HeadTailProperties DEF Chain
  <2>2. Head(b) # current => Chain(<<node[Head(b)].parent>> \o b)
    BY <2>1, ChainGrows
  <2> QED
    BY <2>1, <2>2, NoWptIsNone DEF Chain
<1>6. step \in [Nat -> [S -> S]]
  BY <1>5
<1>7. \A k \in Nat, b \in S :
         step[k][b] = IF Head(b) = current THEN b ELSE <<node[Head(b)].parent>> \o b
  OBVIOUS
<1> DEFINE base == <<goal>>
<1> HIDE DEF S, step, base
<1>8. PICK g \in Runs(S, base, step, N) : TRUE
  BY <1>3, <1>4, <1>6, StepsExist DEF base
<1>9. g \in [0 .. N -> S] /\ g[0] = <<goal>> /\ \A k \in 1 .. N : g[k] = step[k][g[k - 1]]
  BY <1>8 DEF Runs, base
<1>10. ASSUME NEW k \in 1 .. N
       PROVE  /\ g[k - 1] \in S
              /\ g[k] = IF Head(g[k - 1]) = current THEN g[k - 1]
                        ELSE <<node[Head(g[k - 1])].parent>> \o g[k - 1]
  <2>1. k - 1 \in 0 .. N /\ k \in Nat
    BY <1>3
  <2>2. g[k - 1] \in S
    BY <2>1, <1>9
  <2> QED
    BY <2>1, <2>2, <1>7, <1>9
<1> DEFINE Follow(f, k) == IF k = 0 THEN <<goal>>
                          ELSE LET b == f[k - 1]
                               IN  IF Head(b) = current THEN b
                                   ELSE IF Head(b) = NoWpt THEN b
                                   ELSE <<node[Head(b)].parent>> \o b
<1>11. g = [k \in 0 .. N |-> Follow(g, k)]
  <2>1. ASSUME NEW k \in 0 .. N PROVE g[k] = Follow(g, k)
    <3>1. CASE k = 0
      BY <3>1, <1>9
    <3>2. CASE k # 0
      <4>1. k \in 1 .. N
        BY <3>2, <1>3
      <4>2. Head(g[k - 1]) # NoWpt
        BY <4>1, <1>5, <1>10
      <4> QED
        BY <3>2, <4>1, <4>2, <1>10
    <3> QED
      BY <3>1, <3>2
  <2> HIDE DEF Follow
  <2> QED
    BY <2>1, <1>9
<1>12. back = [k \in 0 .. Cardinality(Waypoints) |->
                IF k = 0 THEN <<goal>>
                ELSE LET b == back[k - 1]
                     IN  IF Head(b) = current THEN b
                         ELSE IF Head(b) = NoWpt THEN b
                         ELSE <<node[Head(b)].parent>> \o b]
  BY <1>2, <1>11, Zenon
<1>13. \A k \in 0 .. N : back[k] = g[k]
  <2> DEFINE Bad == {k \in 0 .. N : back[k] # g[k]}
  <2>1. SUFFICES ASSUME Bad # {} PROVE FALSE
    OBVIOUS
  <2>2. Bad \subseteq 0 .. N /\ Bad \subseteq Nat /\ \A k \in 0 .. N : k \notin Bad => back[k] = g[k]
    BY <1>3
  <2>3. \A k \in 0 .. N : back[k] = Follow(back, k) /\ g[k] = Follow(g, k)
    <3> HIDE DEF Follow
    <3>1. back = [k \in 0 .. N |-> Follow(back, k)]
      BY <1>12 DEF Follow
    <3> QED
      BY <3>1, <1>11
  <2>4. \A k \in Bad : back[k] # g[k]
    OBVIOUS
  <2> HIDE DEF Bad
  <2>5. PICK k \in Bad : \A l \in Bad : k <= l
    BY <2>1, <2>2, LeastExists
  <2>6. k # 0
    BY <2>2, <2>3, <2>4, <2>5
  <2>7. k \in 0 .. N /\ k - 1 \in 0 .. N /\ k - 1 \notin Bad
    BY <2>2, <2>5, <2>6, <1>3
  <2>8. back[k - 1] = g[k - 1]
    BY <2>2, <2>7
  <2>9. back[k] = g[k]
    BY <2>3, <2>6, <2>7, <2>8
  <2> QED
    BY <2>4, <2>5, <2>9
<1>14. \A k \in 0 .. N : Head(g[k]) = current \/ Len(g[k]) = k + 1
  <2> DEFINE Bad == {k \in 0 .. N : ~ (Head(g[k]) = current \/ Len(g[k]) = k + 1)}
  <2>1. SUFFICES ASSUME Bad # {} PROVE FALSE
    OBVIOUS
  <2>2. Bad \subseteq 0 .. N /\ Bad \subseteq Nat
    BY <1>3
  <2>3. \A k \in 0 .. N : k \in Bad <=> ~ (Head(g[k]) = current \/ Len(g[k]) = k + 1)
    OBVIOUS
  <2> HIDE DEF Bad
  <2>5. PICK k \in Bad : \A l \in Bad : k <= l
    BY <2>1, <2>2, LeastExists
  <2>6. k # 0
    <3>1. g[0] = <<goal>> /\ Len(<<goal>>) = 1
      BY <1>9
    <3>2. Len(g[0]) = 0 + 1
      BY <3>1
    <3>3. 0 \in 0 .. N
      BY <1>3
    <3>4. 0 \notin Bad
      BY <3>2, <3>3, <2>3
    <3> QED
      BY <3>4, <2>5
  <2>7. k \in 1 .. N /\ k - 1 \in 0 .. N /\ k - 1 \notin Bad
    BY <2>2, <2>5, <2>6, <1>3
  <2>8. Head(g[k - 1]) = current \/ Len(g[k - 1]) = k
    BY <2>3, <2>7
  <2>9. Head(g[k - 1]) = current => g[k] = g[k - 1]
    BY <2>7, <1>10
  <2>10. Head(g[k - 1]) # current => Len(g[k]) = Len(g[k - 1]) + 1
    <3>1. Head(g[k - 1]) # current => g[k] = <<node[Head(g[k - 1])].parent>> \o g[k - 1]
      BY <2>7, <1>10
    <3>2. Chain(g[k - 1])
      BY <2>7, <1>10 DEF S
    <3> QED
      BY <3>1, <3>2, ChainGrows
  <2> QED
    BY <2>2, <2>3, <2>5, <2>7, <2>8, <2>9, <2>10
<1>15. full = g[N] /\ N \in 0 .. N
  BY <1>3, <1>13
<1>16. Chain(full) /\ Head(full) # NoWpt
  BY <1>5, <1>9, <1>15 DEF S
<1>17. full \in Seq(Waypoints) /\ Len(full) \in Nat \ {0} /\ Head(full) = full[1]
  BY <1>16 DEF Chain
<1> HIDE DEF full
<1>18. Head(full) = current
  <2>1. SUFFICES ASSUME Head(full) # current PROVE FALSE
    OBVIOUS
  <2>2. BackTrace = full /\ Len(full) = N + 1
    BY <2>1, <1>1, <1>14, <1>15, <1>16
  <2> QED
    BY <2>2, <1>3 DEF CycleFound
<1>19. BackTrace = Tail(full)
  BY <1>1, <1>18
<1>20. BackTrace \in Seq(Waypoints) /\ <<current>> \o BackTrace = full
  BY <1>17, <1>18, <1>19, HeadTailProperties
<1>21. Len(BackTrace) = Len(full) - 1
  BY <1>17, <1>19
<1> QED
  BY <1>16, <1>17, <1>20, <1>21 DEF IsRoute, Chain

\* Losing the way leaves the bot with a waypoint or with none.
LEMMA RollBackFacts ==
    ASSUME WalkTypeOK, NEW s \in WptOrNone, NEW again \in WptOrNone, RollBack(s, again)
    PROVE  current' \in WptOrNone /\ route' = <<>>
<1> DEFINE walk[i \in 0 .. Len(route)] ==
             IF i = 0 THEN [at |-> s, next |-> FALSE]
             ELSE IF walk[i - 1].next THEN [at |-> route[i], next |-> FALSE]
             ELSE [at |-> walk[i - 1].at, next |-> walk[i - 1].at = route[i]]
           N == Len(route)
           S == [at : WptOrNone, next : BOOLEAN]
           onward(i, x) == IF x.next THEN [at |-> route[i], next |-> FALSE]
                           ELSE [at |-> x.at, next |-> x.at = route[i]]
           step == [i \in Nat |-> [x \in S |-> IF i \in 1 .. N THEN onward(i, x) ELSE x]]
           base == [at |-> s, next |-> FALSE]
<1>1. /\ current' = IF walk[N].at = NoWpt THEN again ELSE walk[N].at
      /\ route' = <<>>
  BY DEF RollBack
<1>2. walk = CHOOSE f : f = [i \in 0 .. Len(route) |->
                IF i = 0 THEN [at |-> s, next |-> FALSE]
                ELSE IF f[i - 1].next THEN [at |-> route[i], next |-> FALSE]
                ELSE [at |-> f[i - 1].at, next |-> f[i - 1].at = route[i]]]
  OBVIOUS
<1> HIDE DEF walk
<1>3. N \in Nat /\ \A i \in 1 .. N : route[i] \in WptOrNone
  BY ElementOfSeq, LenProperties DEF WalkTypeOK, WptOrNone
<1>4. ASSUME NEW i \in 1 .. N, NEW x \in S PROVE onward(i, x) \in S
  BY <1>3
<1>5. base \in S
  OBVIOUS
<1>6. step \in [Nat -> [S -> S]]
  <2> HIDE DEF onward, S
  <2> QED
    BY <1>4
<1>7. \A i \in 1 .. N, x \in S : step[i][x] = onward(i, x)
  <2> HIDE DEF onward, S
  <2> QED
    BY <1>3
<1> HIDE DEF step, S, base, N
<1>8. PICK g \in Runs(S, base, step, N) : TRUE
  BY <1>3, <1>5, <1>6, StepsExist
<1>9. g \in [0 .. N -> S] /\ g[0] = base /\ \A i \in 1 .. N : g[i] = step[i][g[i - 1]]
  BY <1>8 DEF Runs
<1> DEFINE follow(f, i) == IF i = 0 THEN base ELSE onward(i, f[i - 1])
<1>10. g = [i \in 0 .. N |-> follow(g, i)]
  <2>1. ASSUME NEW i \in 0 .. N PROVE g[i] = follow(g, i)
    <3>1. CASE i = 0
      BY <3>1, <1>9
    <3>2. CASE i # 0
      <4>1. i \in 1 .. N /\ i - 1 \in 0 .. N
        BY <3>2, <1>3
      <4>2. g[i - 1] \in S
        BY <4>1, <1>9
      <4> HIDE DEF onward
      <4> QED
        BY <3>2, <4>1, <4>2, <1>7, <1>9
    <3> QED
      BY <3>1, <3>2
  <2> HIDE DEF follow
  <2> QED
    BY <2>1, <1>9
<1>11. walk = [i \in 0 .. N |-> follow(walk, i)]
  BY <1>2, <1>10, Zenon DEF N, base
<1>12. \A i \in 0 .. N : walk[i] \in S
  <2> DEFINE Bad == {i \in 0 .. N : walk[i] \notin S}
  <2>1. SUFFICES ASSUME Bad # {} PROVE FALSE
    OBVIOUS
  <2>2. /\ Bad \subseteq 0 .. N /\ Bad \subseteq Nat
        /\ \A i \in 0 .. N : i \in Bad <=> walk[i] \notin S
    BY <1>3
  <2>3. \A i \in 0 .. N : walk[i] = follow(walk, i)
    <3> HIDE DEF follow
    <3> QED
      BY <1>11
  <2> HIDE DEF Bad
  <2>4. PICK i \in Bad : \A j \in Bad : i <= j
    BY <2>1, <2>2, LeastExists
  <2>5. i # 0
    BY <2>2, <2>3, <2>4, <1>5
  <2>6. i \in 1 .. N /\ i - 1 \in 0 .. N /\ i - 1 \notin Bad
    BY <2>2, <2>4, <2>5, <1>3
  <2>7. walk[i - 1] \in S
    BY <2>2, <2>6
  <2>8. walk[i] \in S
    <3> HIDE DEF onward
    <3> QED
      BY <2>3, <2>5, <2>6, <2>7, <1>4
  <2> QED
    BY <2>2, <2>4, <2>8
<1>13. walk[N].at \in WptOrNone
  <2>1. walk[N] \in S
    BY <1>3, <1>12
  <2> QED
    BY <2>1 DEF S
<1> QED
  BY <1>1, <1>13

-----------------------------------------------------------------------------
\* A goal that was taken has parents up to the start, and a search that waits
\* for its next call is left as it is.
Promise ==
    /\ SearchRooted
    /\ phase = "called" /\ found => node[goal].opened
    /\ waiting => outcome # "none"
    /\ phase = "idle" /\ waiting /\ open # <<>> /\ goal # NoWpt /\ current # NoWpt
          => working /\ Rooted

NavInv == SearchInv /\ WalkTypeOK /\ Promise /\ RouteLeadsToGoal

\* Where a call that found the goal returns, it has a route.
LEMMA RouteFound ==
    ASSUME NavInv, Return, ~OutOfLoops, found, ~CycleFound
    PROVE  working /\ IsRoute(current, BackTrace, goal)
<1>1. working /\ Rooted /\ node[goal].opened
  BY DEF NavInv, Promise, SearchRooted, Searching, Return
<1> QED
  BY <1>1, BackTraceIsRoute

LEMMA WalkInit == Init => WalkTypeOK
<1> SUFFICES ASSUME Init PROVE WalkTypeOK
  OBVIOUS
<1>1. /\ outcome = "none" /\ working = FALSE /\ waiting = FALSE /\ clearAt = FALSE
      /\ current = NoWpt /\ prev = NoWpt /\ lastFailedWpt = NoWpt /\ failedGoals = {}
      /\ route = <<>>
      /\ lastFailedPath = [from |-> 0, to |-> 0, valid |-> FALSE, skipped |-> FALSE]
  BY DEF Init, ServiceInit
<1>2. route \in Seq(Waypoints)
  BY <1>1, EmptySeq
<1>3. lastFailedPath \in [from : Int, to : Int, valid : BOOLEAN, skipped : BOOLEAN]
  BY <1>1
<1> QED
  BY <1>1, <1>2, <1>3 DEF WalkTypeOK, WptOrNone

\* Each action keeps the types of what a bot remembers when it walks.
LEMMA WalkTypeStart ==
    ASSUME WalkTypeOK, NEW g \in WptOrNone, NEW s \in WptOrNone, NEW byId \in BOOLEAN,
           StartRoute(g, s, byId)
    PROVE  WalkTypeOK'
<1>1. /\ UNCHANGED <<prev, route, failedGoals, clearAt, lastFailedPath, waiting>>
      /\ working' \in BOOLEAN /\ outcome' \in {outcome, "failed"}
      /\ current' \in {current, s, NoWpt} /\ lastFailedWpt' \in {lastFailedWpt, NoWpt}
  BY DEF StartRoute, Begin, CallLocals
<1> QED
  BY <1>1 DEF WalkTypeOK, WptOrNone

LEMMA WalkTypeExplore ==
    ASSUME WalkTypeOK, NEW W \in SUBSET Waypoints, NEW b \in BOOLEAN, Explore(W, b),
           waiting' = waiting
    PROVE  WalkTypeOK'
<1>1. /\ UNCHANGED <<working, outcome, current, prev, route, clearAt, lastFailedWpt, waiting>>
      /\ failedGoals' = failedGoals \ W
      /\ lastFailedPath' = [lastFailedPath EXCEPT !.skipped = lastFailedPath.skipped \/ b]
  BY DEF Explore, searchVars, walkVars
<1>2. lastFailedPath' \in [from : Int, to : Int, valid : BOOLEAN, skipped : BOOLEAN]
  BY <1>1 DEF WalkTypeOK
<1> QED
  BY <1>1, <1>2 DEF WalkTypeOK

LEMMA WalkTypeReturn ==
    ASSUME NavInv, Return
    PROVE  WalkTypeOK'
<1> USE DEF NavInv
<1>1. waiting' \in BOOLEAN
  BY DEF Return, WalkTypeOK
<1>2. CASE OutOfLoops
  <2>1. UNCHANGED <<working, walkVars, memoryVars>> /\ outcome' = "pending"
    BY <1>2 DEF Return, ReturnPending, Report
  <2> QED
    BY <2>1, <1>1 DEF walkVars, memoryVars, WalkTypeOK
<1>3. CASE ~OutOfLoops /\ ~found
  <2>1. /\ UNCHANGED <<current, prev, route, lastFailedWpt>> /\ outcome' = "failed"
        /\ working' = FALSE /\ failedGoals' = failedGoals \cup {goal}
        /\ clearAt' \in BOOLEAN
        /\ lastFailedPath' = [lastFailedPath EXCEPT
              !.valid = lastFailedPath.valid /\ ~lastFailedPath.skipped]
    BY <1>3 DEF Return, ReturnFailed, RememberFailedGoal, Report, walkVars
  <2>2. lastFailedPath' \in [from : Int, to : Int, valid : BOOLEAN, skipped : BOOLEAN]
    BY <2>1 DEF WalkTypeOK
  <2> QED
    BY <2>1, <2>2, <1>1 DEF WalkTypeOK, SearchInv, SearchTypeOK
<1>4. CASE ~OutOfLoops /\ found
  <2>1. /\ UNCHANGED <<current, prev, memoryVars>>
        /\ outcome' \in {"failed", "found"} /\ working' = FALSE
        /\ route' = IF CycleFound THEN <<>> ELSE BackTrace
    BY <1>4 DEF Return, ReturnCycle, ReturnRoute, Report
  <2>2. route' \in Seq(Waypoints)
    <3>1. CASE CycleFound
      BY <2>1, <3>1, EmptySeq
    <3>2. CASE ~CycleFound
      BY <2>1, <3>2, <1>4, RouteFound DEF IsRoute
    <3> QED
      BY <3>1, <3>2
  <2> QED
    BY <2>1, <2>2, <1>1 DEF memoryVars, WalkTypeOK
<1> QED
  BY <1>2, <1>3, <1>4

LEMMA WalkTypeStep == NavInv /\ [Next]_vars => WalkTypeOK'
<1> SUFFICES ASSUME NavInv, [Next]_vars PROVE WalkTypeOK'
  OBVIOUS
<1>0. WalkTypeOK /\ SearchTypeOK
  BY DEF NavInv, SearchInv
<1>1. ASSUME NEW g \in WptOrNone, NEW s \in WptOrNone, NEW byId \in BOOLEAN,
             StartRoute(g, s, byId)
      PROVE  WalkTypeOK'
  BY <1>0, <1>1, WalkTypeStart
<1>2. CASE ContinueRoute
  <2>1. /\ UNCHANGED <<walkVars, memoryVars, waiting>> /\ working' \in {working, FALSE}
        /\ outcome' \in {outcome, "failed"}
    BY <1>2 DEF ContinueRoute, Resume, CallLocals
  <2> QED
    BY <1>0, <2>1 DEF walkVars, memoryVars, WalkTypeOK
<1>3. CASE TakeNode
  <2>1. Head(open) \in Waypoints
    BY <1>0, <1>3, HeadTailProperties DEF TakeNode, SearchTypeOK
  <2>2. CASE UNCHANGED navVars
    BY <1>0, <1>3, <2>2 DEF TakeNode, navVars, searchVars, walkVars, memoryVars, WalkTypeOK
  <2>3. CASE Explore({Head(open)}, FALSE)
    BY <1>0, <1>3, <2>1, <2>3, WalkTypeExplore DEF TakeNode
  <2> QED
    BY <1>3, <2>2, <2>3 DEF TakeNode
<1>4. CASE TryPath
  <2>1. PICK b \in BOOLEAN : Explore({}, b)
    BY <1>4 DEF TryPath, FailedLastTime
  <2> QED
    BY <1>0, <1>4, <2>1, WalkTypeExplore DEF TryPath
<1>5. CASE CloseNode \/ UNCHANGED vars
  BY <1>0, <1>5 DEF CloseNode, vars, navVars, searchVars, walkVars, memoryVars, astarVars, WalkTypeOK
<1>6. CASE Return
  BY <1>6, WalkTypeReturn
<1>7. ASSUME NEW t \in BOOLEAN, NEW e \in BOOLEAN, UpdatePosition(t, e), UNCHANGED astarVars
      PROVE  WalkTypeOK'
  <2>1. /\ UNCHANGED <<working, outcome, lastFailedWpt, lastFailedPath, waiting>>
        /\ failedGoals' \in {failedGoals, {}} /\ clearAt' \in BOOLEAN
    BY <1>7 DEF UpdatePosition, searchVars, astarVars
  <2>2. CASE UNCHANGED walkVars
    BY <1>0, <2>1, <2>2 DEF walkVars, WalkTypeOK
  <2>3. CASE ~UNCHANGED walkVars
    <3>1. /\ prev' = current /\ current' = IF route = <<>> THEN NoWpt ELSE Head(route)
          /\ route' = IF route = <<>> THEN <<>> ELSE Tail(route)
      BY <1>7, <2>3 DEF UpdatePosition
    <3>2. CASE route = <<>>
      BY <1>0, <2>1, <3>1, <3>2, EmptySeq DEF WalkTypeOK, WptOrNone
    <3>3. CASE route # <<>>
      <4>1. Head(route) \in Waypoints /\ Tail(route) \in Seq(Waypoints)
        BY <1>0, <3>3, HeadTailProperties DEF WalkTypeOK
      <4> QED
        BY <1>0, <2>1, <3>1, <3>3, <4>1 DEF WalkTypeOK, WptOrNone
    <3> QED
      BY <3>2, <3>3
  <2> QED
    BY <2>2, <2>3
<1>8. CASE FailMove /\ UNCHANGED astarVars
  <2>1. /\ UNCHANGED <<working, outcome, current, prev, route, waiting>>
        /\ lastFailedWpt' = current /\ failedGoals' = failedGoals \cup {goal}
        /\ clearAt' \in BOOLEAN
        /\ lastFailedPath' = [from |-> prev, to |-> current, valid |-> TRUE, skipped |-> FALSE]
    BY <1>8 DEF FailMove, RememberFailedGoal, searchVars, walkVars, astarVars
  <2>2. prev \in Int /\ current \in Int
    <3>1. prev \in WptOrNone /\ current \in WptOrNone
      BY <1>0 DEF WalkTypeOK
    <3>2. WptOrNone \subseteq Int
      BY NoWptIsNone DEF WptOrNone
    <3> QED
      BY <3>1, <3>2
  <2>3. lastFailedPath' \in [from : Int, to : Int, valid : BOOLEAN, skipped : BOOLEAN]
    BY <2>1, <2>2
  <2> QED
    BY <1>0, <2>1, <2>3 DEF WalkTypeOK, SearchTypeOK
<1>9. CASE Clear /\ UNCHANGED astarVars
  <2>1. /\ UNCHANGED <<working, outcome, current, prev, clearAt, lastFailedWpt,
                       lastFailedPath, waiting>>
        /\ route' = <<>> /\ failedGoals' = {}
    BY <1>9 DEF Clear, searchVars, astarVars
  <2> QED
    BY <1>0, <2>1, EmptySeq DEF WalkTypeOK
<1>10. CASE LoseWay
  <2>1. PICK s \in WptOrNone, again \in WptOrNone : RollBack(s, again)
    BY <1>10 DEF LoseWay
  <2>2. current' \in WptOrNone /\ route' = <<>>
    BY <1>0, <2>1, RollBackFacts
  <2>3. UNCHANGED <<prev, working, outcome, memoryVars>> /\ waiting' = FALSE
    BY <1>10, <2>1 DEF LoseWay, RollBack, searchVars
  <2> QED
    BY <1>0, <2>2, <2>3, EmptySeq DEF memoryVars, WalkTypeOK
<1>11. CASE Walk
  BY <1>7, <1>8, <1>9, <1>11 DEF Walk
<1> QED
  BY <1>1, <1>2, <1>3, <1>4, <1>5, <1>6, <1>10, <1>11 DEF Next


\* What was tried and skipped does not matter to where the search may go.
LEMMA UsableFrame ==
    ASSUME WalkTypeOK, NEW b \in BOOLEAN, NEW u, NEW v, NEW g,
           lastFailedPath' = [lastFailedPath EXCEPT !.skipped = lastFailedPath.skipped \/ b],
           Usable(u, v, g)
    PROVE  /\ <<u, v>> \in Edges
           /\ v = g \/ v \notin Blocked
           /\ ~(lastFailedPath'.valid /\ lastFailedPath'.from = u /\ lastFailedPath'.to = v)
<1>1. /\ lastFailedPath'.valid = lastFailedPath.valid
      /\ lastFailedPath'.from = lastFailedPath.from /\ lastFailedPath'.to = lastFailedPath.to
  BY DEF WalkTypeOK
<1> QED
  BY <1>1 DEF Usable

\* The tree stays while the nodes keep their parents.
LEMMA RootedFrame ==
    ASSUME Rooted, WalkTypeOK, goal' = goal, current' = current, NEW b \in BOOLEAN,
           \/ lastFailedPath' = lastFailedPath
           \/ lastFailedPath' = [lastFailedPath EXCEPT !.skipped = lastFailedPath.skipped \/ b]
           \/ lastFailedPath'.to = current,
           \A w \in Waypoints : node'[w].parent = node[w].parent /\ node'[w].opened = node[w].opened
    PROVE  Rooted'
<1>1. ASSUME NEW w \in Waypoints, node[w].opened, w # current
      PROVE  Usable(node[w].parent, w, goal)'
  <2>1. Usable(node[w].parent, w, goal)
    BY <1>1 DEF Rooted
  <2>2. node'[w].parent = node[w].parent
    BY <1>1
  <2>3. CASE lastFailedPath' = lastFailedPath
    BY <2>1, <2>2, <2>3 DEF Usable
  <2>4. CASE lastFailedPath' = [lastFailedPath EXCEPT !.skipped = lastFailedPath.skipped \/ b]
    <3> DEFINE p == node[w].parent
    <3>1. Usable(p, w, goal)
      BY <2>1
    <3> HIDE DEF p
    <3>2. /\ <<p, w>> \in Edges
          /\ w = goal \/ w \notin Blocked
          /\ ~(lastFailedPath'.valid /\ lastFailedPath'.from = p /\ lastFailedPath'.to = w)
      BY <2>4, <3>1, UsableFrame
    <3> QED
      BY <2>2, <3>2 DEF Usable, p
  <2>5. CASE lastFailedPath'.to = current
    BY <1>1, <2>1, <2>2, <2>5 DEF Usable
  <2> QED
    BY <2>3, <2>4, <2>5
<1>2. ASSUME NEW w \in Waypoints, node[w].opened, w # current
      PROVE  node'[w].parent \in Waypoints /\ node'[node'[w].parent].opened
  BY <1>2 DEF Rooted
<1>3. goal' \in Waypoints /\ current' \in Waypoints /\ node'[current'].opened
      /\ node'[current'].parent = NoWpt
  BY DEF Rooted
<1> QED
  BY <1>1, <1>2, <1>3 DEF Rooted

LEMMA PromiseStart ==
    ASSUME NavInv, NEW g \in WptOrNone, NEW s \in WptOrNone, NEW byId \in BOOLEAN,
           StartRoute(g, s, byId)
    PROVE  Promise'
<1> USE DEF NavInv
<1>1. /\ curr' = NoWpt /\ loops' = 0 /\ found' = FALSE /\ waiting' = waiting
      /\ goal' = g /\ phase = "idle" /\ outcome' \in {outcome, "failed"}
  BY DEF StartRoute, Begin, CallLocals
<1>2. CASE g = NoWpt \/ s = NoWpt
  <2>1. phase' = "idle" /\ (g # NoWpt => current' = NoWpt)
    BY <1>1, <1>2 DEF StartRoute, Begin
  <2> QED
    BY <1>1, <1>2, <2>1 DEF Promise, SearchRooted
<1>3. CASE g # NoWpt /\ s # NoWpt
  <2>1. PICK h \in Heuristics :
          node' = [w \in Waypoints |-> IF w = s
                     THEN [FreshNode EXCEPT !.opened = TRUE, !.heur = h, !.heurSet = TRUE]
                     ELSE FreshNode]
    BY <1>3 DEF StartRoute
  <2>2. g \in Waypoints /\ s \in Waypoints
    BY <1>3 DEF WptOrNone
  <2>3. phase' = "called" /\ working' = TRUE /\ current' = s
    BY <1>3 DEF StartRoute, Begin
  <2>4. node'[s].opened /\ node'[s].parent = NoWpt
    BY <2>1, <2>2 DEF FreshNode
  <2>5. \A w \in Waypoints : w # s => ~node'[w].opened
    BY <2>1 DEF FreshNode
  <2>6. Rooted'
    BY <1>1, <2>2, <2>3, <2>4, <2>5 DEF Rooted
  <2> QED
    BY <1>1, <2>3, <2>6 DEF Promise, SearchRooted
<1> QED
  BY <1>2, <1>3

LEMMA PromiseContinue ==
    ASSUME NavInv, ContinueRoute
    PROVE  Promise'
<1> USE DEF NavInv
<1>1. /\ curr' = NoWpt /\ loops' = 0 /\ found' = FALSE /\ waiting /\ waiting' = waiting
      /\ UNCHANGED <<node, open, goal, current, lastFailedPath>>
      /\ phase = "idle" /\ outcome' \in {outcome, "failed"}
  BY DEF ContinueRoute, Resume, CallLocals, walkVars, memoryVars
<1>2. CASE goal = NoWpt \/ current = NoWpt
  <2>1. phase' = "idle"
    BY <1>1, <1>2 DEF ContinueRoute, Resume
  <2> QED
    BY <1>1, <1>2, <2>1 DEF Promise, SearchRooted
<1>3. CASE goal # NoWpt /\ current # NoWpt
  <2>1. phase' = "called" /\ working' = working
    BY <1>3 DEF ContinueRoute, Resume
  <2>2. Searching' => open # <<>>
    BY <1>1 DEF Searching
  <2>3. open # <<>> => working /\ Rooted
    BY <1>1, <1>3 DEF Promise
  <2>4. Rooted => Rooted'
    BY <1>1 DEF Rooted, Usable
  <2> QED
    BY <1>1, <2>1, <2>2, <2>3, <2>4 DEF Promise, SearchRooted
<1> QED
  BY <1>2, <1>3

LEMMA PromiseTake ==
    ASSUME NavInv, TakeNode
    PROVE  Promise'
<1> USE DEF NavInv
<1>1. /\ phase = "called" /\ open # <<>> /\ node' = node /\ waiting' = waiting
      /\ found' => Head(open) = goal
  BY DEF TakeNode
<1>2. UNCHANGED <<phase, goal, current, working, outcome>>
  BY DEF TakeNode, navVars, searchVars, walkVars, Explore
<1>3. working /\ Rooted
  BY <1>1 DEF Promise, SearchRooted, Searching
<1>4. \/ lastFailedPath' = lastFailedPath
      \/ lastFailedPath' = [lastFailedPath EXCEPT !.skipped = lastFailedPath.skipped \/ FALSE]
  BY DEF TakeNode, navVars, memoryVars, Explore
<1>5. Rooted'
  BY <1>1, <1>2, <1>3, <1>4, RootedFrame
<1>6. node[Head(open)].opened
  <2>1. 1 \in DOMAIN open /\ Head(open) = open[1]
    BY <1>1 DEF SearchInv, SearchTypeOK
  <2> QED
    BY <2>1 DEF SearchInv, OpenListSound
<1> QED
  BY <1>1, <1>2, <1>3, <1>5, <1>6 DEF Promise, SearchRooted

LEMMA PromiseTry ==
    ASSUME NavInv, TryPath
    PROVE  Promise'
<1> USE DEF NavInv
<1>1. phase = "called" /\ curr # NoWpt /\ UNCHANGED <<curr, loops, lastNode, found, waiting>>
  BY DEF TryPath
<1>2. PICK b \in BOOLEAN : Explore({}, b)
  BY DEF TryPath, FailedLastTime
<1>3. /\ UNCHANGED <<phase, goal, current, working, outcome>>
      /\ lastFailedPath' = [lastFailedPath EXCEPT !.skipped = lastFailedPath.skipped \/ b]
  BY <1>2 DEF Explore, searchVars, walkVars
<1>4. working /\ Rooted
  BY <1>1 DEF Promise, SearchRooted, Searching
<1>5. CASE node' = node
  <2>1. Rooted'
    BY <1>3, <1>4, <1>5, RootedFrame
  <2> QED
    BY <1>1, <1>3, <1>4, <1>5, <2>1 DEF Promise, SearchRooted
<1>6. ASSUME NEW v \in Waypoints, NEW h \in Nat, Improves(v), curr \in Waypoints,
             Usable(curr, v, goal), node' = [node EXCEPT ![v] = Reached(v, h)]
      PROVE  Promise'
  <2>1. node \in [Waypoints -> NodeRecord] /\ node[curr].opened
    BY <1>1 DEF SearchInv, SearchTypeOK
  <2>2. v # current
    BY <1>4, <1>6 DEF Rooted, Improves
  <2>3. node'[v].opened /\ node'[v].parent = curr
    BY <1>6, <2>1 DEF Reached
  <2>4. \A w \in Waypoints : w # v => node'[w] = node[w]
    BY <1>6, <2>1
  <2>5. \A w \in Waypoints : node[w].opened => node'[w].opened
    BY <2>3, <2>4
  <2>7. ASSUME NEW w \in Waypoints, node'[w].opened, w # current
        PROVE  /\ node'[w].parent \in Waypoints /\ node'[node'[w].parent].opened
               /\ Usable(node[w].parent, w, goal)'
    <3>1. CASE w = v
      <4>1. /\ <<curr, v>> \in Edges
            /\ v = goal \/ v \notin Blocked
            /\ ~(lastFailedPath'.valid /\ lastFailedPath'.from = curr /\ lastFailedPath'.to = v)
        BY <1>3, <1>6, UsableFrame
      <4>2. node'[w].parent = curr /\ node'[curr].opened
        BY <1>6, <2>1, <2>3, <2>5, <3>1
      <4> QED
        BY <1>3, <1>6, <3>1, <4>1, <4>2 DEF Usable
    <3>2. CASE w # v
      <4> DEFINE p == node[w].parent
      <4>1. node'[w].parent = p /\ node[w].opened
        BY <2>4, <2>7, <3>2
      <4>2. p \in Waypoints /\ node[p].opened /\ Usable(p, w, goal)
        BY <1>4, <2>7, <4>1 DEF Rooted
      <4>3. node'[p].opened
        BY <2>5, <4>2
      <4> HIDE DEF p
      <4>4. /\ <<p, w>> \in Edges
            /\ w = goal \/ w \notin Blocked
            /\ ~(lastFailedPath'.valid /\ lastFailedPath'.from = p /\ lastFailedPath'.to = w)
        BY <1>3, <4>2, UsableFrame
      <4> QED
        BY <1>3, <4>1, <4>2, <4>3, <4>4 DEF Usable
    <3> QED
      BY <3>1, <3>2
  <2>8. Rooted'
    <3>1. /\ goal' \in Waypoints /\ current' \in Waypoints
          /\ node'[current'].opened /\ node'[current'].parent = NoWpt
      BY <1>3, <1>4, <2>2, <2>4 DEF Rooted
    <3> QED
      BY <1>3, <2>7, <3>1 DEF Rooted
  <2>9. found' => node'[goal'].opened
    BY <1>1, <1>3, <1>4, <2>5 DEF Promise, Rooted
  <2> QED
    BY <1>1, <1>3, <1>4, <2>8, <2>9 DEF Promise, SearchRooted
<1> QED
  BY <1>5, <1>6, PathTried

LEMMA PromiseReturn ==
    ASSUME NavInv, Return
    PROVE  Promise'
<1> USE DEF NavInv
<1>1. /\ phase = "called" /\ phase' = "idle" /\ outcome' \in {"pending", "failed", "found"}
      /\ UNCHANGED <<node, goal, current>>
  BY DEF Return, ReturnPending, ReturnFailed, ReturnCycle, ReturnRoute, Report, walkVars
<1>2. CASE ~OutOfLoops
  <2>1. open' = <<>>
    BY <1>2 DEF Return
  <2> QED
    BY <1>1, <2>1 DEF Promise, SearchRooted
<1>3. CASE OutOfLoops
  <2>1. working /\ Rooted
    BY <1>1, <1>3, CostAssumption DEF OutOfLoops, Promise, SearchRooted, Searching
  <2>2. working' = working /\ lastFailedPath' = lastFailedPath
    BY <1>3 DEF Return, ReturnPending, memoryVars
  <2>3. Rooted'
    BY <1>1, <2>1, <2>2 DEF Rooted, Usable
  <2> QED
    BY <1>1, <2>1, <2>2, <2>3 DEF Promise, SearchRooted
<1> QED
  BY <1>2, <1>3

LEMMA PromiseWalk ==
    ASSUME NavInv, Walk
    PROVE  Promise'
<1> USE DEF NavInv
<1>1. UNCHANGED astarVars /\ UNCHANGED <<phase, goal, working, outcome>> /\ phase = "idle"
  BY DEF Walk, UpdatePosition, FailMove, Clear, searchVars
<1>2. UNCHANGED <<node, open, waiting>>
  BY <1>1 DEF astarVars
<1>3. ASSUME waiting, open # <<>>, goal # NoWpt, current' # NoWpt
      PROVE  working /\ Rooted'
  <2>1. current # NoWpt
    BY <1>3, NoWptIsNone DEF Walk, UpdatePosition, Clear
  <2>2. working /\ Rooted
    BY <1>1, <1>3, <2>1 DEF Promise
  <2>3. current' = current
    BY <2>2 DEF Walk, UpdatePosition, FailMove, Clear, walkVars
  <2>4. lastFailedPath' = lastFailedPath \/ lastFailedPath'.to = current
    BY DEF Walk, UpdatePosition, FailMove, Clear
  <2>5. Rooted'
    BY <1>1, <1>2, <2>2, <2>3, <2>4, RootedFrame
  <2> QED
    BY <2>2, <2>5
<1> QED
  BY <1>1, <1>2, <1>3 DEF Promise, SearchRooted

LEMMA PromiseStep == NavInv /\ [Next]_vars => Promise'
<1> SUFFICES ASSUME NavInv, [Next]_vars PROVE Promise'
  OBVIOUS
<1>1. ASSUME NEW g \in WptOrNone, NEW s \in WptOrNone, NEW byId \in BOOLEAN,
             StartRoute(g, s, byId)
      PROVE  Promise'
  BY <1>1, PromiseStart
<1>2. CASE CloseNode
  <2>1. /\ UNCHANGED <<phase, goal, current, working, outcome, lastFailedPath, waiting>>
        /\ UNCHANGED <<open, loops, found>> /\ curr # NoWpt /\ phase = "called"
        /\ node' = [node EXCEPT ![curr].closed = TRUE]
        /\ node \in [Waypoints -> NodeRecord]
    BY <1>2 DEF CloseNode, navVars, searchVars, walkVars, memoryVars, NavInv, SearchInv, SearchTypeOK
  <2>2. \A w \in Waypoints : /\ node'[w].parent = node[w].parent
                             /\ node'[w].opened = node[w].opened
    BY <2>1 DEF NodeRecord
  <2>3. working /\ Rooted
    BY <2>1 DEF NavInv, Promise, SearchRooted, Searching
  <2>4. Rooted'
    BY <2>1, <2>2, <2>3, RootedFrame DEF NavInv
  <2>5. found' => node'[goal'].opened
    BY <2>1, <2>2, <2>3 DEF NavInv, Promise, Rooted
  <2> QED
    BY <2>1, <2>3, <2>4, <2>5 DEF NavInv, Promise, SearchRooted
<1>3. CASE LoseWay
  <2>1. phase = "idle" /\ phase' = "idle" /\ waiting' = FALSE
    BY <1>3 DEF LoseWay, RollBack, searchVars
  <2> QED
    BY <2>1 DEF Promise, SearchRooted
<1>4. CASE UNCHANGED vars
  BY <1>4 DEF vars, navVars, searchVars, walkVars, memoryVars, astarVars, NavInv, Promise,
              SearchRooted, Searching, Rooted, Usable
<1> QED
  BY <1>1, <1>2, <1>3, <1>4, PromiseContinue, PromiseTake, PromiseTry, PromiseReturn, PromiseWalk
     DEF Next


\* Touching a waypoint of a route leaves the rest of the way as it was.
LEMMA LeadsWhenTouched ==
    ASSUME NavInv, NEW t \in BOOLEAN, NEW e \in BOOLEAN, UpdatePosition(t, e)
    PROVE  RouteLeadsToGoal'
<1> USE DEF NavInv
<1>1. UNCHANGED <<phase, working, goal, outcome>>
  BY DEF UpdatePosition, searchVars
<1>2. CASE UNCHANGED walkVars
  BY <1>1, <1>2 DEF walkVars, RouteLeadsToGoal, Last
<1>3. CASE ~UNCHANGED walkVars /\ route # <<>>
  <2>1. current' = Head(route) /\ route' = Tail(route)
    BY <1>3 DEF UpdatePosition
  <2>2. route \in Seq(Waypoints) /\ Len(route) \in Nat \ {0}
    BY <1>3 DEF WalkTypeOK
  <2>3. /\ <<current'>> \o route' = route /\ Len(route') = Len(route) - 1
        /\ \A i \in 1 .. Len(route) - 1 : route'[i] = route[i + 1]
        /\ route' \in Seq(Waypoints)
    BY <1>3, <2>1, <2>2, HeadTailProperties
  <2>4. SUFFICES ASSUME phase' = "idle", outcome' = "found", route' # <<>>
                 PROVE  /\ Last(route') = goal'
                        /\ \A i \in 1 .. Len(route') :
                             <<(<<current'>> \o route')[i], (<<current'>> \o route')[i + 1]>> \in Edges
    BY DEF RouteLeadsToGoal
  <2>5. Len(route') \in Nat \ {0}
    BY <2>3, <2>4
  <2>6. /\ Last(route) = goal
        /\ \A i \in 1 .. Len(route) :
             <<(<<current>> \o route)[i], (<<current>> \o route)[i + 1]>> \in Edges
    BY <1>1, <1>3, <2>4 DEF RouteLeadsToGoal
  <2>7. Last(route') = goal'
    BY <1>1, <2>2, <2>3, <2>5, <2>6 DEF Last
  <2>8. \A i \in 1 .. Len(route) + 1 : (<<current>> \o route)[i] = IF i = 1 THEN current ELSE route[i - 1]
    <3>1. route \in Seq(WptOrNone) /\ current \in WptOrNone
      BY <2>2 DEF WalkTypeOK, WptOrNone
    <3> QED
      BY <3>1, InFrontFacts
  <2>9. ASSUME NEW i \in 1 .. Len(route') PROVE <<route[i], route[i + 1]>> \in Edges
    <3>1. i + 1 \in 1 .. Len(route) /\ i + 1 # 1 /\ i + 2 \in 1 .. Len(route) + 1
      BY <2>2, <2>3
    <3>2. (<<current>> \o route)[i + 1] = route[i] /\ (<<current>> \o route)[i + 1 + 1] = route[i + 1]
      BY <2>2, <2>8, <3>1
    <3> QED
      BY <2>6, <3>1, <3>2
  <2> QED
    BY <2>3, <2>7, <2>9
<1>4. CASE ~UNCHANGED walkVars /\ route = <<>>
  <2>1. route' = <<>>
    BY <1>4 DEF UpdatePosition
  <2> QED
    BY <2>1 DEF RouteLeadsToGoal
<1> QED
  BY <1>2, <1>3, <1>4

LEMMA LeadsWhenFound ==
    ASSUME NavInv, Return
    PROVE  RouteLeadsToGoal'
<1> USE DEF NavInv
<1>1. CASE OutOfLoops \/ ~found \/ CycleFound
  <2>1. outcome' # "found"
    BY <1>1 DEF Return, ReturnPending, ReturnFailed, ReturnCycle, Report
  <2> QED
    BY <2>1 DEF RouteLeadsToGoal
<1>2. CASE ~OutOfLoops /\ found /\ ~CycleFound
  <2>1. route' = BackTrace /\ goal' = goal /\ current' = current
    BY <1>2 DEF Return, ReturnRoute
  <2>2. IsRoute(current, route', goal)
    BY <1>2, <2>1, RouteFound
  <2>3. route' \in Seq(Waypoints) /\ Len(route') \in Nat
    BY <2>2 DEF IsRoute
  <2>4. /\ Len(<<current>> \o route') = Len(route') + 1
        /\ \A i \in 1 .. Len(route') + 1 :
             (<<current>> \o route')[i] = IF i = 1 THEN current ELSE route'[i - 1]
    <3>1. route' \in Seq(WptOrNone) /\ current \in WptOrNone
      BY <2>3 DEF WalkTypeOK, WptOrNone
    <3> QED
      BY <3>1, InFrontFacts
  <2>5. ASSUME route' # <<>> PROVE Last(route') = goal
    <3>1. Len(route') # 0
      BY <2>3, <2>5
    <3>2. (<<current>> \o route')[Len(route') + 1] = route'[Len(route')]
      BY <2>3, <2>4, <3>1
    <3> QED
      BY <2>2, <2>4, <3>2 DEF IsRoute, Last
  <2>6. \A i \in 1 .. Len(route') :
           <<(<<current>> \o route')[i], (<<current>> \o route')[i + 1]>> \in Edges
    BY <2>2 DEF IsRoute, Usable
  <2> QED
    BY <2>1, <2>5, <2>6 DEF RouteLeadsToGoal
<1> QED
  BY <1>1, <1>2

LEMMA LeadsStep == NavInv /\ [Next]_vars => RouteLeadsToGoal'
<1> SUFFICES ASSUME NavInv, [Next]_vars PROVE RouteLeadsToGoal'
  OBVIOUS
<1>1. ASSUME NEW g \in WptOrNone, NEW s \in WptOrNone, NEW byId \in BOOLEAN,
             StartRoute(g, s, byId)
      PROVE  RouteLeadsToGoal'
  BY <1>1 DEF StartRoute, Begin, RouteLeadsToGoal
<1>2. CASE ContinueRoute
  BY <1>2 DEF ContinueRoute, Resume, RouteLeadsToGoal
<1>3. CASE TakeNode \/ TryPath \/ CloseNode
  <2>1. phase' = "called"
    BY <1>3 DEF TakeNode, TryPath, CloseNode, Explore, navVars, searchVars
  <2> QED
    BY <2>1 DEF RouteLeadsToGoal
<1>4. ASSUME NEW t \in BOOLEAN, NEW e \in BOOLEAN, UpdatePosition(t, e)
      PROVE  RouteLeadsToGoal'
  BY <1>4, LeadsWhenTouched
<1>5. CASE FailMove \/ UNCHANGED vars
  <2>1. UNCHANGED <<phase, goal, outcome, current, route>>
    BY <1>5 DEF FailMove, vars, navVars, searchVars, walkVars
  <2> QED
    BY <2>1 DEF NavInv, RouteLeadsToGoal
<1>6. CASE Clear \/ LoseWay
  <2>1. route' = <<>>
    BY <1>6 DEF Clear, LoseWay, RollBack
  <2> QED
    BY <2>1 DEF RouteLeadsToGoal
<1> QED
  BY <1>1, <1>2, <1>3, <1>4, <1>5, <1>6, LeadsWhenFound DEF Next, Walk

LEMMA NavInitially == Init => NavInv
<1> SUFFICES ASSUME Init PROVE NavInv
  OBVIOUS
<1>1. SearchInv /\ WalkTypeOK
  BY SearchInit, WalkInit
<1>2. Promise
  BY DEF Init, ServiceInit, Promise, SearchRooted
<1>3. RouteLeadsToGoal
  BY DEF Init, ServiceInit, RouteLeadsToGoal
<1> QED
  BY <1>1, <1>2, <1>3 DEF NavInv

LEMMA NavStep == NavInv /\ [Next]_vars => NavInv'
<1> SUFFICES ASSUME NavInv, [Next]_vars PROVE NavInv'
  OBVIOUS
<1>1. SearchInv'
  BY SearchStep DEF NavInv
<1> QED
  BY <1>1, WalkTypeStep, PromiseStep, LeadsStep DEF NavInv

(* Every variable of the navigator keeps its type, on every map: above all *)
(* a route never holds "no waypoint", whatever order it is called in.      *)
THEOREM NavigatorTyped == Spec => []TypeOK
<1>1. Init => NavInv
  BY NavInitially
<1>2. NavInv /\ [Next]_vars => NavInv'
  BY NavStep
<1>3. NavInv => TypeOK
  BY DEF NavInv, SearchInv, TypeOK
<1> QED
  BY <1>1, <1>2, <1>3, PTL DEF Spec

(* A call that searches does so for a task, and the parents of the nodes   *)
(* it has met lead back to its start, whatever happened between its calls. *)
THEOREM SearchStaysRooted == Spec => []SearchRooted
<1>1. Init => NavInv
  BY NavInitially
<1>2. NavInv /\ [Next]_vars => NavInv'
  BY NavStep
<1>3. NavInv => SearchRooted
  BY DEF NavInv, Promise
<1> QED
  BY <1>1, <1>2, <1>3, PTL DEF Spec

(* On every map a bot that follows a route workRoute has found follows     *)
(* paths that exist, and they end at the goal.                             *)
THEOREM RoutesLeadToGoal == Spec => []RouteLeadsToGoal
<1>1. Init => NavInv
  BY NavInitially
<1>2. NavInv /\ [Next]_vars => NavInv'
  BY NavStep
<1>3. NavInv => RouteLeadsToGoal
  BY DEF NavInv
<1> QED
  BY <1>1, <1>2, <1>3, PTL DEF Spec

\* Where workRoute returns it keeps the promise of the service.
LEMMA ReturnAnswers ==
    ASSUME NavInv, Return
    PROVE  Answer
<1>1. CASE OutOfLoops
  <2>1. working
    BY <1>1, CostAssumption DEF OutOfLoops, Return, NavInv, Promise, SearchRooted, Searching
  <2>2. ReturnPending
    BY <1>1 DEF Return
  <2> QED
    BY <2>1, <2>2 DEF Answer
<1>2. CASE ~OutOfLoops /\ ~found
  <2>1. ReturnFailed
    BY <1>2 DEF Return
  <2> QED
    BY <2>1 DEF Answer
<1>3. CASE ~OutOfLoops /\ found /\ CycleFound
  <2>1. ReturnCycle
    BY <1>3 DEF Return
  <2>2. working
    BY <1>3 DEF Return, NavInv, Promise, SearchRooted, Searching
  <2> QED
    BY <2>1, <2>2 DEF Answer
<1>4. CASE ~OutOfLoops /\ found /\ ~CycleFound
  <2>1. ReturnRoute(BackTrace)
    BY <1>4 DEF Return
  <2>2. route' = BackTrace
    BY <2>1 DEF ReturnRoute
  <2>3. working /\ IsRoute(current, BackTrace, goal)
    BY <1>4, RouteFound
  <2> QED
    BY <2>1, <2>2, <2>3 DEF Answer
<1> QED
  BY <1>1, <1>2, <1>3, <1>4

LEMMA ServiceStep == NavInv /\ [Next]_vars => [ServiceNext]_navVars
<1> SUFFICES ASSUME NavInv, [Next]_vars PROVE ServiceNext \/ UNCHANGED navVars
  OBVIOUS
<1>1. ASSUME NEW g \in WptOrNone, NEW s \in WptOrNone, NEW byId \in BOOLEAN,
             StartRoute(g, s, byId)
      PROVE  ServiceNext
  <2>1. Begin(g, s, byId)
    BY <1>1 DEF StartRoute
  <2> QED
    BY <2>1 DEF ServiceNext
<1>2. CASE ContinueRoute
  <2>1. outcome # "none" /\ Resume
    BY <1>2 DEF ContinueRoute, NavInv, Promise
  <2> QED
    BY <2>1 DEF ServiceNext
<1>3. CASE TakeNode
  <2>1. Head(open) \in Waypoints
    BY <1>3, HeadTailProperties DEF TakeNode, NavInv, SearchInv, SearchTypeOK
  <2>2. CASE Explore({Head(open)}, FALSE)
    <3>1. {Head(open)} \in SUBSET Waypoints
      BY <2>1
    <3> QED
      BY <2>2, <3>1 DEF ServiceNext
  <2> QED
    BY <1>3, <2>2 DEF TakeNode
<1>4. CASE TryPath
  <2>1. PICK b \in BOOLEAN : Explore({}, b)
    BY <1>4 DEF TryPath, FailedLastTime
  <2>2. {} \in SUBSET Waypoints
    OBVIOUS
  <2> QED
    BY <2>1, <2>2 DEF ServiceNext
<1>5. CASE CloseNode
  BY <1>5 DEF CloseNode
<1>6. CASE Return
  BY <1>6, ReturnAnswers DEF ServiceNext
<1>7. CASE Walk
  BY <1>7 DEF Walk, ServiceNext
<1>8. CASE LoseWay
  BY <1>8 DEF LoseWay, ServiceNext
<1>9. CASE UNCHANGED vars
  BY <1>9 DEF vars
<1> QED
  BY <1>1, <1>2, <1>3, <1>4, <1>5, <1>6, <1>7, <1>8, <1>9 DEF Next

(* The A* search, spread over calls, with its loop limit, its failed path  *)
(* and its cycles of parents, gives the answers RouteService promises: a   *)
(* route it reports leads along usable paths from the bot to the goal.     *)
THEOREM SearchImplementsService == Spec => Refines
<1>1. Init => NavInv
  BY NavInitially
<1>2. NavInv /\ [Next]_vars => NavInv'
  BY NavStep
<1>3. Init => ServiceInit
  BY DEF Init
<1>4. NavInv /\ [Next]_vars => [ServiceNext]_navVars
  BY ServiceStep
<1> QED
  BY <1>1, <1>2, <1>3, <1>4, PTL DEF Spec, Refines, ServiceSpec

(* And so a task sees nothing of the search but RoutePort.                 *)
THEOREM SearchImplementsPort == Spec => PortKept
<1>1. Spec => ServiceSpec
  BY SearchImplementsService DEF Refines
<1>2. ServiceSpec => PortKept
  BY PortImplemented
<1> QED
  BY <1>1, <1>2, PTL
-----------------------------------------------------------------------------
\* Why a search gives up: whatever the nodes it has taken lead to was opened.

Explored(u, v) == Usable(u, v, goal) => node[v].opened

InSearch == working /\ (phase = "called" \/ waiting)

\* A node whose paths have all been tried; the goal ends the search instead.
Done(u) == Taken(u) /\ u # curr /\ u # goal

TakenExplored ==
    InSearch =>
        /\ current \in Waypoints /\ node[current].opened
        /\ \A u, v \in Waypoints : Done(u) => Explored(u, v)
        /\ curr # NoWpt =>
             \A i \in 1 .. Len(Paths[curr]) : i < iPath => Explored(curr, Paths[curr][i])

\* The paths workRoute skips without a look lead to nodes it has met.
SkippedOpened ==
    /\ lastNode # NoWpt => node[lastNode].opened
    /\ \A w \in Waypoints : node[w].closed => node[w].opened
    /\ phase = "idle" => curr = NoWpt

FailureInv == NavInv /\ TakenExplored /\ SkippedOpened

\* The failed path that the search leaves out stays the same.
PathKept ==
    /\ lastFailedPath'.valid = lastFailedPath.valid
    /\ lastFailedPath'.from = lastFailedPath.from /\ lastFailedPath'.to = lastFailedPath.to

LEMMA ExploredStays ==
    ASSUME NEW u, NEW v, Explored(u, v), goal' = goal, PathKept,
           node[v].opened => node'[v].opened
    PROVE  Explored(u, v)'
  BY DEF Explored, Usable, PathKept

\* What was done stays done when nodes stay opened and none more is taken.
LEMMA TakenExploredStays ==
    ASSUME TakenExplored, InSearch, PathKept, UNCHANGED <<goal, current>>,
           \A w \in Waypoints : node[w].opened => node'[w].opened,
           \A w \in Waypoints : Done(w)' => Done(w)
    PROVE  /\ current' \in Waypoints /\ node'[current'].opened
           /\ \A u, v \in Waypoints : Done(u)' => Explored(u, v)'
<1>1. ASSUME NEW u \in Waypoints, NEW v \in Waypoints, Done(u)' PROVE Explored(u, v)'
  <2>1. Explored(u, v)
    BY <1>1 DEF TakenExplored
  <2> QED
    BY <2>1, ExploredStays
<1> QED
  BY <1>1 DEF TakenExplored

LEMMA ExplorePathKept ==
    ASSUME WalkTypeOK, NEW W, NEW b \in BOOLEAN, Explore(W, b)
    PROVE  PathKept /\ UNCHANGED <<searchVars, walkVars>>
  BY DEF Explore, WalkTypeOK, PathKept

LEMMA FailureInitially == Init => FailureInv
<1> SUFFICES ASSUME Init PROVE FailureInv
  OBVIOUS
<1>1. \A w \in Waypoints : ~node[w].closed
  BY DEF Init, FreshNode
<1>2. working = FALSE /\ lastNode = NoWpt /\ curr = NoWpt
  BY DEF Init, ServiceInit
<1> QED
  BY <1>1, <1>2, NavInitially DEF FailureInv, TakenExplored, InSearch, SkippedOpened

LEMMA ExploredStart ==
    ASSUME FailureInv, NEW g \in WptOrNone, NEW s \in WptOrNone, NEW byId \in BOOLEAN,
           StartRoute(g, s, byId)
    PROVE  TakenExplored' /\ SkippedOpened'
<1> USE DEF FailureInv
<1>1. curr' = NoWpt /\ lastNode' = NoWpt
  BY DEF StartRoute, CallLocals
<1>2. CASE g = NoWpt \/ s = NoWpt
  <2>1. working' = FALSE /\ node' = node
    BY <1>2 DEF StartRoute, Begin
  <2> QED
    BY <1>1, <2>1 DEF TakenExplored, InSearch, SkippedOpened
<1>3. CASE g # NoWpt /\ s # NoWpt
  <2>1. PICK h \in Heuristics :
          /\ node' = [w \in Waypoints |-> IF w = s
                     THEN [FreshNode EXCEPT !.opened = TRUE, !.heur = h, !.heurSet = TRUE]
                     ELSE FreshNode]
          /\ open' = <<s>>
    BY <1>3 DEF StartRoute
  <2>2. s \in Waypoints /\ current' = s
    BY <1>3 DEF StartRoute, Begin, WptOrNone
  <2>3. \A w \in Waypoints : (node'[w].opened <=> w = s) /\ ~node'[w].closed
    BY <2>1 DEF FreshNode
  <2>4. s \in Range(open')
    <3>1. 1 \in DOMAIN open' /\ open'[1] = s
      BY <2>1
    <3> QED
      BY <3>1 DEF Range
  <2>5. \A w \in Waypoints : ~Done(w)'
    BY <2>3, <2>4 DEF Done, Taken
  <2> QED
    BY <1>1, <2>2, <2>3, <2>5 DEF TakenExplored, SkippedOpened
<1> QED
  BY <1>2, <1>3

LEMMA ExploredContinue ==
    ASSUME FailureInv, ContinueRoute
    PROVE  TakenExplored' /\ SkippedOpened'
<1> USE DEF FailureInv
<1>1. /\ curr' = NoWpt /\ lastNode' = NoWpt /\ waiting /\ phase = "idle"
      /\ UNCHANGED <<node, open, goal, current, lastFailedPath>>
      /\ working' \in {working, FALSE}
  BY DEF ContinueRoute, Resume, CallLocals, walkVars, memoryVars
<1>2. SkippedOpened'
  BY <1>1 DEF SkippedOpened
<1>3. ASSUME working PROVE TakenExplored'
  <2>1. InSearch /\ PathKept /\ \A w \in Waypoints : Done(w)' => Done(w)
    BY <1>1, <1>3 DEF InSearch, PathKept, Done, Taken, SkippedOpened
  <2>2. /\ current' \in Waypoints /\ node'[current'].opened
        /\ \A u, v \in Waypoints : Done(u)' => Explored(u, v)'
    BY <1>1, <2>1, TakenExploredStays
  <2> QED
    BY <1>1, <2>2 DEF TakenExplored
<1>4. ASSUME ~working PROVE TakenExplored'
  BY <1>1, <1>4 DEF TakenExplored, InSearch, NavInv, WalkTypeOK
<1> QED
  BY <1>2, <1>3, <1>4

LEMMA ExploredTake ==
    ASSUME FailureInv, TakeNode
    PROVE  TakenExplored' /\ SkippedOpened'
<1> USE DEF FailureInv
<1>1. /\ phase = "called" /\ curr = NoWpt /\ open # <<>> /\ open' = Tail(open) /\ iPath' = 1
      /\ UNCHANGED <<node, lastNode>>
      /\ curr' = Head(open) \/ Head(open) = goal
  BY DEF TakeNode
<1>2. UNCHANGED <<searchVars, walkVars>> /\ PathKept
  <2>1. CASE UNCHANGED navVars
    BY <2>1 DEF navVars, memoryVars, PathKept
  <2>2. CASE Explore({Head(open)}, FALSE)
    BY <2>2, ExplorePathKept DEF NavInv
  <2> QED
    BY <2>1, <2>2 DEF TakeNode
<1>3. UNCHANGED <<phase, goal, current, working>>
  BY <1>2 DEF searchVars, walkVars
<1>4. working
  BY <1>1 DEF NavInv, Promise, SearchRooted, Searching
<1>5. Range(open) \subseteq Range(open') \cup {Head(open)}
  <2>1. open \in Seq(Waypoints) /\ Len(open) \in Nat \ {0} /\ Head(open) = open[1]
    BY <1>1 DEF NavInv, SearchInv, SearchTypeOK
  <2>2. /\ Len(open') = Len(open) - 1 /\ open' \in Seq(Waypoints)
        /\ \A i \in 1 .. Len(open) - 1 : open'[i] = open[i + 1]
    BY <1>1, <2>1, HeadTailProperties
  <2>3. ASSUME NEW i \in 1 .. Len(open), i # 1 PROVE open[i] \in Range(open')
    <3>1. i - 1 \in 1 .. Len(open) - 1 /\ open'[i - 1] = open[i - 1 + 1] /\ i - 1 + 1 = i
      BY <2>1, <2>2, <2>3
    <3> QED
      BY <2>2, <3>1 DEF Range
  <2> QED
    BY <2>1, <2>3 DEF Range
<1>6. ASSUME NEW w \in Waypoints, Done(w)' PROVE Done(w)
  BY <1>1, <1>3, <1>5, <1>6, NoWptIsNone DEF Done, Taken
<1>7. InSearch
  BY <1>1, <1>4 DEF InSearch
<1>8. /\ current' \in Waypoints /\ node'[current'].opened
      /\ \A u, v \in Waypoints : Done(u)' => Explored(u, v)'
  BY <1>1, <1>2, <1>3, <1>6, <1>7, TakenExploredStays
<1>9. TakenExplored'
  BY <1>1, <1>8 DEF TakenExplored
<1> QED
  BY <1>1, <1>3, <1>9 DEF SkippedOpened

\* A path that was tried leads to a node that was opened, if it may be used:
\* it was opened now, or before, or the path is the one that failed last time.
LEMMA ExploredTry ==
    ASSUME FailureInv, TryPath
    PROVE  TakenExplored' /\ SkippedOpened'
<1> USE DEF FailureInv
<1> DEFINE v == Paths[curr][iPath]
           skip == v # lastNode /\ v # curr /\ FailedLastTime(v)
           entered == v # lastNode /\ v # curr /\ ~skip /\ MayEnter(v) /\ Improves(v)
<1>1. /\ phase = "called" /\ curr # NoWpt /\ iPath <= Len(Paths[curr]) /\ iPath' = iPath + 1
      /\ UNCHANGED <<curr, loops, lastNode, found, waiting>>
  BY DEF TryPath
<1>2. Explore({}, skip)
  BY DEF TryPath
<1>3. PathKept /\ UNCHANGED <<phase, goal, current, working>>
  <2>1. skip \in BOOLEAN
    BY DEF FailedLastTime
  <2> HIDE DEF skip
  <2>2. PathKept /\ UNCHANGED <<searchVars, walkVars>>
    BY <1>2, <2>1, ExplorePathKept DEF NavInv
  <2> QED
    BY <2>2 DEF searchVars, walkVars
<1>4. working
  BY <1>1 DEF NavInv, Promise, SearchRooted, Searching
<1>5. /\ curr \in Waypoints /\ iPath \in 1 .. Len(Paths[curr]) /\ v \in Waypoints
      /\ Paths[curr] \in Seq(Waypoints)
  <2>1. curr \in Waypoints /\ iPath \in 1 .. Len(Paths[curr]) /\ Paths[curr] \in Seq(Waypoints)
    BY PathsAssumption, LenProperties DEF NavInv, SearchInv, SearchTypeOK, TryPath, WptOrNone
  <2> QED
    BY <2>1, ElementOfSeq
<1>6. /\ node \in [Waypoints -> NodeRecord] /\ open \in Seq(Waypoints) /\ node[curr].opened
      /\ lastNode \in WptOrNone
  BY <1>1 DEF NavInv, SearchInv, SearchTypeOK
<1>7. ASSUME entered
      PROVE  \E h : /\ node' = [node EXCEPT ![v] = Reached(v, h)]
                    /\ open' = IF Enters(v) THEN Insert(open, node', v) ELSE open
  BY <1>7 DEF TryPath
<1>8. ~entered => UNCHANGED <<node, open>>
  BY DEF TryPath
<1>9. \A w \in Waypoints : w # v => node'[w] = node[w]
  BY <1>6, <1>7, <1>8
<1>10. entered => node'[Paths[curr][iPath]].opened /\ ~node'[Paths[curr][iPath]].closed
  <2> HIDE DEF entered
  <2>1. SUFFICES ASSUME entered PROVE node'[v].opened /\ ~node'[v].closed
    OBVIOUS
  <2>2. PICK h : node' = [node EXCEPT ![v] = Reached(v, h)]
    BY <1>7, <2>1
  <2>3. node'[v] = Reached(v, h)
    BY <1>5, <1>6, <2>2
  <2> QED
    BY <2>3 DEF Reached
<1>11. \A w \in Waypoints : node[w].opened => node'[w].opened
  BY <1>8, <1>9, <1>10
<1>12. Range(open) \subseteq Range(open') /\ (entered /\ ~node[v].opened => v \in Range(open'))
  <2>1. CASE entered /\ ~node[v].opened
    <3>1. open' = Insert(open, node', v)
      BY <1>7, <2>1 DEF Enters
    <3> QED
      BY <1>5, <1>6, <3>1, InsertFacts
  <2>2. CASE ~(entered /\ ~node[v].opened)
    <3>1. open' = open
      BY <1>7, <1>8, <2>2 DEF Enters
    <3> QED
      BY <2>2, <3>1
  <2> QED
    BY <2>1, <2>2
<1>13. ASSUME NEW w \in Waypoints, Done(w)' PROVE Done(w)
  <2>1. node[w].opened
    BY <1>8, <1>9, <1>12, <1>13 DEF Done, Taken
  <2> QED
    BY <1>1, <1>3, <1>12, <1>13, <2>1 DEF Done, Taken
<1>14. InSearch
  BY <1>1, <1>4 DEF InSearch
<1>15. /\ current' \in Waypoints /\ node'[current'].opened
       /\ \A u, w \in Waypoints : Done(u)' => Explored(u, w)'
  BY <1>3, <1>11, <1>13, <1>14, TakenExploredStays
<1>16. \A w \in Waypoints : node'[w].closed => node'[w].opened
  BY <1>8, <1>9, <1>10 DEF SkippedOpened
<1>17. ASSUME NEW w \in Waypoints, w = v PROVE Explored(curr, w)'
  <2>1. SUFFICES ASSUME Usable(curr, w, goal)' PROVE node'[w].opened
    BY DEF Explored
  <2>2. MayEnter(v) /\ ~FailedLastTime(v)
    BY <1>1, <1>3, <1>17, <2>1 DEF Usable, MayEnter, FailedLastTime, PathKept
  <2>3. CASE entered
    BY <1>10, <1>17, <2>3
  <2>4. CASE ~entered
    <3>1. v = lastNode \/ v = curr \/ ~Improves(v)
      BY <2>2, <2>4
    <3>2. node[v].opened
      BY <1>5, <1>6, <3>1, NoWptIsNone DEF Improves, SkippedOpened
    <3> QED
      BY <1>5, <1>11, <1>17, <3>2
  <2> QED
    BY <2>3, <2>4
<1>18. ASSUME NEW i \in 1 .. Len(Paths[curr]), i < iPath' PROVE Explored(curr, Paths[curr][i])'
  <2>1. CASE i = iPath
    <3> DEFINE w == Paths[curr][i]
    <3>1. w \in Waypoints /\ w = v
      BY <1>5, <2>1
    <3>2. \A x \in Waypoints : x = v => Explored(curr, x)'
      BY <1>17
    <3> QED
      BY <1>1, <3>1, <3>2 DEF Explored
  <2>2. CASE i # iPath
    <3> DEFINE w == Paths[curr][i]
    <3>1. i < iPath
      BY <1>1, <1>5, <1>18, <2>2
    <3>2. w \in Waypoints
      BY <1>5, ElementOfSeq
    <3>3. Explored(curr, w)
      BY <1>1, <1>14, <3>1 DEF TakenExplored
    <3>4. Usable(curr, w, goal) <=> Usable(curr, w, goal)'
      BY <1>1, <1>3 DEF Usable, PathKept
    <3> QED
      BY <1>1, <1>11, <3>2, <3>3, <3>4 DEF Explored
  <2> QED
    BY <2>1, <2>2
<1>19. TakenExplored'
  BY <1>1, <1>15, <1>18 DEF TakenExplored
<1>20. lastNode' # NoWpt => node'[lastNode'].opened
  BY <1>1, <1>6, <1>11 DEF SkippedOpened, WptOrNone
<1> QED
  BY <1>1, <1>3, <1>16, <1>19, <1>20 DEF SkippedOpened

\* A node is closed when all its paths were tried.
LEMMA ExploredClose ==
    ASSUME FailureInv, CloseNode
    PROVE  TakenExplored' /\ SkippedOpened'
<1> USE DEF FailureInv
<1>1. /\ phase = "called" /\ curr # NoWpt /\ iPath > Len(Paths[curr])
      /\ node' = [node EXCEPT ![curr].closed = TRUE]
      /\ lastNode' = curr /\ curr' = NoWpt /\ UNCHANGED <<navVars, open>>
  BY DEF CloseNode
<1>2. PathKept /\ UNCHANGED <<phase, goal, current, working>>
  BY <1>1 DEF navVars, searchVars, walkVars, memoryVars, PathKept
<1>3. curr \in Waypoints /\ node \in [Waypoints -> NodeRecord] /\ node[curr].opened
  BY <1>1 DEF NavInv, SearchInv, SearchTypeOK, WptOrNone
<1>4. \A w \in Waypoints : /\ node'[w].opened = node[w].opened
                           /\ w # curr => node'[w].closed = node[w].closed
  BY <1>1, <1>3 DEF NodeRecord
<1>5. InSearch
  BY <1>1 DEF InSearch, NavInv, Promise, SearchRooted, Searching
<1>6. ASSUME NEW v \in Waypoints PROVE Explored(curr, v)
  <2>1. SUFFICES ASSUME Usable(curr, v, goal) PROVE node[v].opened
    BY DEF Explored
  <2>2. v \in Range(Paths[curr]) /\ Paths[curr] \in Seq(Waypoints)
    BY <1>3, <2>1, PathsAssumption DEF Usable
  <2>3. PICK i \in 1 .. Len(Paths[curr]) : Paths[curr][i] = v
    BY <2>2 DEF Range
  <2>4. i < iPath
    BY <1>1, <2>2, <2>3 DEF NavInv, SearchInv, SearchTypeOK
  <2>5. Explored(curr, Paths[curr][i])
    BY <1>1, <1>5, <2>4 DEF TakenExplored
  <2> QED
    BY <2>1, <2>3, <2>5 DEF Explored
<1>7. ASSUME NEW u \in Waypoints, NEW v \in Waypoints, Done(u)' PROVE Explored(u, v)'
  <2>1. Explored(u, v)
    <3>1. CASE u = curr
      BY <1>6, <3>1
    <3>2. CASE u # curr
      <4>1. Done(u)
        BY <1>1, <1>2, <1>4, <1>7, <3>2 DEF Done, Taken
      <4> QED
        BY <1>5, <4>1 DEF TakenExplored
    <3> QED
      BY <3>1, <3>2
  <2> QED
    BY <1>2, <1>4, <2>1, ExploredStays
<1>8. current' \in Waypoints /\ node'[current'].opened
  BY <1>2, <1>4, <1>5 DEF TakenExplored
<1>9. \A w \in Waypoints : node'[w].closed => node'[w].opened
  BY <1>3, <1>4 DEF SkippedOpened
<1> QED
  BY <1>1, <1>2, <1>3, <1>4, <1>7, <1>8, <1>9 DEF TakenExplored, SkippedOpened

LEMMA ExploredReturn ==
    ASSUME FailureInv, Return
    PROVE  TakenExplored' /\ SkippedOpened'
<1> USE DEF FailureInv
<1>1. /\ phase = "called" /\ curr = NoWpt /\ UNCHANGED <<node, curr, iPath, lastNode, found>>
  BY DEF Return, SearchOver
<1>2. SkippedOpened'
  BY <1>1 DEF SkippedOpened
<1> SUFFICES TakenExplored'
  BY <1>2
<1>3. CASE OutOfLoops
  <2>1. /\ UNCHANGED <<open, working, goal, current, lastFailedPath>>
    BY <1>3 DEF Return, ReturnPending, walkVars, memoryVars
  <2>2. CASE working
    <3>1. InSearch /\ PathKept /\ \A w \in Waypoints : Done(w)' => Done(w)
      BY <1>1, <2>1, <2>2 DEF InSearch, PathKept, Done, Taken
    <3>2. /\ current' \in Waypoints /\ node'[current'].opened
          /\ \A u, v \in Waypoints : Done(u)' => Explored(u, v)'
      BY <1>1, <2>1, <3>1, TakenExploredStays
    <3> QED
      BY <1>1, <3>2 DEF TakenExplored
  <2>3. CASE ~working
    BY <2>1, <2>3 DEF TakenExplored, InSearch
  <2> QED
    BY <2>2, <2>3
<1>4. CASE ~OutOfLoops
  <2>1. working' = FALSE
    BY <1>4 DEF Return, ReturnFailed, ReturnCycle, ReturnRoute
  <2> QED
    BY <2>1 DEF TakenExplored, InSearch
<1> QED
  BY <1>3, <1>4

\* Walking on does not move the bot while a search is in progress.
LEMMA ExploredWalk ==
    ASSUME FailureInv, Walk, FailMove => ~working
    PROVE  TakenExplored' /\ SkippedOpened'
<1> USE DEF FailureInv
<1>1. UNCHANGED <<node, open, curr, iPath, lastNode, waiting>>
  BY DEF Walk, astarVars
<1>2. UNCHANGED <<phase, working, goal>> /\ phase = "idle"
  BY DEF Walk, UpdatePosition, FailMove, Clear, searchVars
<1>3. SkippedOpened'
  BY <1>1, <1>2 DEF SkippedOpened
<1>4. CASE InSearch
  <2>1. working /\ UNCHANGED <<current, lastFailedPath>>
    BY <1>4 DEF Walk, UpdatePosition, Clear, walkVars, InSearch
  <2>2. PathKept /\ curr' = NoWpt /\ \A w \in Waypoints : Done(w)' => Done(w)
    BY <1>1, <1>2, <2>1 DEF PathKept, Done, Taken, SkippedOpened
  <2>3. /\ current' \in Waypoints /\ node'[current'].opened
        /\ \A u, v \in Waypoints : Done(u)' => Explored(u, v)'
    BY <1>1, <1>2, <1>4, <2>1, <2>2, TakenExploredStays
  <2> QED
    BY <1>3, <2>2, <2>3 DEF TakenExplored
<1>5. CASE ~InSearch
  <2>1. ~InSearch'
    BY <1>1, <1>2, <1>5 DEF InSearch
  <2> QED
    BY <1>3, <2>1 DEF TakenExplored
<1> QED
  BY <1>4, <1>5

LEMMA ExploredLoseWay ==
    ASSUME FailureInv, LoseWay
    PROVE  TakenExplored' /\ SkippedOpened'
<1>1. UNCHANGED <<node, curr, lastNode, phase>> /\ phase = "idle" /\ waiting' = FALSE
  BY DEF LoseWay, RollBack, searchVars
<1>2. ~InSearch'
  BY <1>1 DEF InSearch
<1>3. SkippedOpened'
  BY <1>1 DEF FailureInv, SkippedOpened
<1> QED
  BY <1>2, <1>3 DEF TakenExplored

LEMMA FailureStep == FailureInv /\ [Next]_vars /\ [FailMove => ~working]_vars => FailureInv'
<1> SUFFICES ASSUME FailureInv, [Next]_vars, [FailMove => ~working]_vars PROVE FailureInv'
  OBVIOUS
<1>1. NavInv'
  BY NavStep DEF FailureInv
<1>2. ASSUME NEW g \in WptOrNone, NEW s \in WptOrNone, NEW byId \in BOOLEAN,
             StartRoute(g, s, byId)
      PROVE  TakenExplored' /\ SkippedOpened'
  BY <1>2, ExploredStart
<1>3. ASSUME UNCHANGED vars PROVE TakenExplored' /\ SkippedOpened'
  <2>1. /\ UNCHANGED <<phase, working, goal, current, lastFailedPath>>
        /\ UNCHANGED <<node, open, curr, iPath, lastNode, waiting>>
    BY <1>3 DEF vars, navVars, searchVars, walkVars, memoryVars, astarVars
  <2>2. SkippedOpened'
    BY <2>1 DEF FailureInv, SkippedOpened
  <2>3. TakenExplored'
    BY <2>1 DEF FailureInv, TakenExplored, InSearch, Done, Taken, Explored, Usable
  <2> QED
    BY <2>2, <2>3
<1>4. ASSUME Walk, ~UNCHANGED vars PROVE TakenExplored' /\ SkippedOpened'
  BY <1>4, ExploredWalk
<1>5. TakenExplored' /\ SkippedOpened'
  BY <1>2, <1>3, <1>4, ExploredContinue, ExploredTake, ExploredTry, ExploredClose,
     ExploredReturn, ExploredLoseWay DEF Next
<1> QED
  BY <1>1, <1>5 DEF FailureInv

\* What is reached from inside a set that no usable path leaves is inside it.
LEMMA ReachableInside ==
    ASSUME NEW C \in SUBSET Waypoints, current \in C,
           \A u \in C, v \in Waypoints : Usable(u, v, goal) => v \in C
    PROVE  Reachable \subseteq C
<1> DEFINE N == Cardinality(Waypoints)
           within[k \in 0 .. Cardinality(Waypoints)] ==
             IF k = 0 THEN {current}
             ELSE within[k - 1] \cup
                    {v \in Waypoints : \E u \in within[k - 1] : Usable(u, v, goal)}
           onward(W) == W \cup {v \in Waypoints : \E u \in W : Usable(u, v, goal)}
           S == SUBSET C
           base == {current}
           step == [k \in Nat |-> [W \in S |-> onward(W)]]
<1>1. Reachable = within[N]
  BY DEF Reachable
<1>2. within = CHOOSE f : f = [k \in 0 .. Cardinality(Waypoints) |->
                IF k = 0 THEN {current}
                ELSE f[k - 1] \cup
                       {v \in Waypoints : \E u \in f[k - 1] : Usable(u, v, goal)}]
  OBVIOUS
<1> HIDE DEF within
<1>3. N \in Nat
  BY WaypointsAssumption, FS_CardinalityType
<1>4. \A W \in S : onward(W) \in S
  OBVIOUS
<1>5. base \in S
  OBVIOUS
<1>6. step \in [Nat -> [S -> S]] /\ \A k \in Nat, W \in S : step[k][W] = onward(W)
  <2> HIDE DEF onward, S
  <2> QED
    BY <1>4
<1> HIDE DEF step, S, base, N
<1>7. PICK g \in Runs(S, base, step, N) : TRUE
  BY <1>3, <1>5, <1>6, StepsExist
<1>8. g \in [0 .. N -> S] /\ g[0] = base /\ \A k \in 1 .. N : g[k] = step[k][g[k - 1]]
  BY <1>7 DEF Runs
<1> DEFINE follow(f, k) == IF k = 0 THEN base ELSE onward(f[k - 1])
<1>9. g = [k \in 0 .. N |-> follow(g, k)]
  <2>1. ASSUME NEW k \in 0 .. N PROVE g[k] = follow(g, k)
    <3>1. CASE k = 0
      BY <3>1, <1>8
    <3>2. CASE k # 0
      <4>1. k \in 1 .. N /\ k - 1 \in 0 .. N /\ k \in Nat
        BY <3>2, <1>3
      <4>2. g[k - 1] \in S
        BY <4>1, <1>8
      <4> HIDE DEF onward
      <4> QED
        BY <3>2, <4>1, <4>2, <1>6, <1>8
    <3> QED
      BY <3>1, <3>2
  <2> HIDE DEF follow
  <2> QED
    BY <2>1, <1>8
<1>10. within = [k \in 0 .. N |-> follow(within, k)]
  BY <1>2, <1>9, Zenon DEF N, base
<1>11. \A k \in 0 .. N : within[k] = follow(within, k)
  <2> HIDE DEF follow
  <2> QED
    BY <1>10
<1>12. \A k \in 0 .. N : within[k] \in S
  <2> DEFINE Bad == {k \in 0 .. N : within[k] \notin S}
  <2>1. SUFFICES ASSUME Bad # {} PROVE FALSE
    OBVIOUS
  <2>2. /\ Bad \subseteq 0 .. N /\ Bad \subseteq Nat
        /\ \A k \in 0 .. N : k \in Bad <=> within[k] \notin S
    BY <1>3
  <2> HIDE DEF Bad
  <2>3. PICK k \in Bad : \A l \in Bad : k <= l
    BY <2>1, <2>2, LeastExists
  <2>4. k # 0
    BY <2>2, <2>3, <1>5, <1>11
  <2>5. k - 1 \in 0 .. N /\ k - 1 \notin Bad
    BY <2>2, <2>3, <2>4, <1>3
  <2>6. within[k - 1] \in S
    BY <2>2, <2>5
  <2>7. within[k] = onward(within[k - 1])
    BY <2>2, <2>3, <2>4, <1>11
  <2>8. onward(within[k - 1]) \in S
    BY <2>6, <1>4
  <2> HIDE DEF onward
  <2> QED
    BY <2>2, <2>3, <2>7, <2>8
<1>13. N \in 0 .. N
  BY <1>3
<1> QED
  BY <1>1, <1>12, <1>13 DEF S

\* A search that ends with an empty list has opened all it could reach.
LEMMA FailureReason ==
    ASSUME FailureInv, GivesUp
    PROVE  goal \notin Reachable \/ Taken(goal)
<1> DEFINE Met == {w \in Waypoints : node[w].opened}
<1>1. open = <<>> /\ curr = NoWpt
  BY CostAssumption
     DEF GivesUp, SearchOver, OutOfLoops, LoopsLeft, FailureInv, NavInv, SearchInv, SearchTypeOK
<1>2. InSearch
  BY DEF GivesUp, InSearch
<1>3. \A w \in Waypoints : Taken(w) <=> node[w].opened
  BY <1>1 DEF Taken, Range
<1>4. SUFFICES ASSUME ~Taken(goal), goal \in Reachable PROVE FALSE
  OBVIOUS
<1>5. current \in Met
  BY <1>2 DEF FailureInv, TakenExplored
<1>6. ASSUME NEW u \in Met, NEW v \in Waypoints, Usable(u, v, goal) PROVE v \in Met
  <2>1. Done(u)
    BY <1>1, <1>3, <1>4, NoWptIsNone DEF Done
  <2>2. Explored(u, v)
    BY <1>2, <2>1 DEF FailureInv, TakenExplored
  <2> QED
    BY <1>6, <2>2 DEF Explored
<1>7. Reachable \subseteq Met
  BY <1>5, <1>6, ReachableInside
<1> QED
  BY <1>3, <1>4, <1>7

(* If failMove is not called while a search is in progress, then on every  *)
(* map a search, however many calls it is spread over, gives up only on a  *)
(* goal that usable paths do not reach, or that it had already taken.      *)
THEOREM FailuresAreExplained == Spec /\ [][FailMove => ~working]_vars => FailureExplained
<1>1. Init => FailureInv
  BY FailureInitially
<1>2. FailureInv /\ [Next]_vars /\ [FailMove => ~working]_vars => FailureInv'
  BY FailureStep
<1>3. FailureInv => (GivesUp /\ Return => goal \notin Reachable \/ Taken(goal))
  BY FailureReason
<1> QED
  BY <1>1, <1>2, <1>3, PTL DEF Spec, FailureExplained

-----------------------------------------------------------------------------
\* Why a search ends: each of its steps brings it closer to its end.

\* The nodes that may still be taken, and how far the search is with the one it
\* has: a call that has not begun, a search that waits, one that is between two
\* nodes, and one that has so many paths left to try.
Untaken == {w \in Waypoints : ~Taken(w)}

Stage == IF phase = "idle" THEN 1
         ELSE IF loops = 0 THEN 0
         ELSE IF curr = NoWpt THEN 2
         ELSE 4 + Len(Paths[curr]) - iPath

\* In lexicographic order.
Closer == \/ Cardinality(Untaken)' < Cardinality(Untaken)
          \/ Untaken' = Untaken /\ Stage' < Stage

OfTheSearch == ContinueRoute \/ TakeNode \/ TryPath \/ CloseNode \/ Return

StageInv ==
    /\ SearchInv
    /\ curr # NoWpt => loops > 0 /\ iPath <= Len(Paths[curr]) + 1
    /\ phase = "idle" => curr = NoWpt

LEMMA UntakenFinite == Untaken \subseteq Waypoints /\ Cardinality(Untaken) \in Nat
<1>1. Untaken \subseteq Waypoints
  BY DEF Untaken
<1>2. IsFiniteSet(Untaken)
  BY <1>1, WaypointsAssumption, FS_Subset
<1> QED
  BY <1>1, <1>2, FS_CardinalityType

LEMMA StageIsNatural == StageInv => Stage \in Nat
<1> SUFFICES ASSUME StageInv PROVE Stage \in Nat
  OBVIOUS
<1>1. CASE curr = NoWpt
  BY <1>1 DEF Stage
<1>2. CASE curr # NoWpt
  <2>1. curr \in Waypoints /\ iPath \in Nat
    BY <1>2 DEF StageInv, SearchInv, SearchTypeOK, WptOrNone
  <2>2. Len(Paths[curr]) \in Nat
    BY <2>1, PathsAssumption, LenProperties
  <2> QED
    BY <1>2, <2>1, <2>2 DEF Stage, StageInv
<1> QED
  BY <1>1, <1>2

LEMMA StageStep == StageInv /\ [Next]_vars => StageInv'
<1> SUFFICES ASSUME StageInv, [Next]_vars PROVE StageInv'
  OBVIOUS
<1> SUFFICES /\ curr' # NoWpt => loops' > 0 /\ iPath' <= Len(Paths[curr']) + 1
             /\ phase' = "idle" => curr' = NoWpt
  BY SearchStep DEF StageInv
<1>1. ASSUME NEW g \in WptOrNone, NEW s \in WptOrNone, NEW byId \in BOOLEAN,
             StartRoute(g, s, byId)
      PROVE  curr' = NoWpt
  BY <1>1 DEF StartRoute, CallLocals
<1>2. CASE ContinueRoute
  BY <1>2 DEF ContinueRoute, CallLocals
<1>3. CASE TakeNode
  <2>1. /\ iPath' = 1 /\ loops' = loops + 1 /\ loops \in Nat /\ phase' = "called"
        /\ curr' = NoWpt \/ (curr' = Head(open) /\ Head(open) \in Waypoints)
    <3>1. open \in Seq(Waypoints) /\ open # <<>> /\ loops \in Nat
      BY <1>3, CostAssumption DEF TakeNode, StageInv, SearchInv, SearchTypeOK
    <3>2. Head(open) \in Waypoints
      BY <3>1, HeadTailProperties
    <3> QED
      BY <1>3, <3>1, <3>2 DEF TakeNode, Explore, navVars, searchVars
  <2>2. ASSUME NEW w \in Waypoints PROVE Len(Paths[w]) \in Nat
    BY PathsAssumption, LenProperties
  <2> QED
    BY <2>1, <2>2
<1>4. CASE TryPath
  <2>1. /\ curr' = curr /\ loops' = loops /\ iPath' = iPath + 1 /\ iPath <= Len(Paths[curr])
        /\ curr # NoWpt /\ phase' = "called"
    BY <1>4 DEF TryPath, Explore, searchVars
  <2>2. curr \in Waypoints /\ iPath \in Nat
    BY <2>1 DEF StageInv, SearchInv, SearchTypeOK, WptOrNone
  <2>3. Len(Paths[curr]) \in Nat
    BY <2>2, PathsAssumption, LenProperties
  <2> QED
    BY <2>1, <2>2, <2>3 DEF StageInv
<1>5. CASE CloseNode
  BY <1>5 DEF CloseNode
<1>6. CASE Return
  BY <1>6 DEF Return, SearchOver
<1>7. CASE Walk \/ LoseWay \/ UNCHANGED vars
  <2>1. UNCHANGED <<phase, curr, loops, iPath>>
    BY <1>7 DEF Walk, UpdatePosition, FailMove, Clear, LoseWay, RollBack, vars, navVars, searchVars,
                astarVars
  <2> QED
    BY <2>1 DEF StageInv
<1> QED
  BY <1>1, <1>2, <1>3, <1>4, <1>5, <1>6, <1>7 DEF Next

\* A node that is taken goes from the untaken ones, and no other does.
LEMMA TakeTakesOne ==
    ASSUME SearchInv, TakeNode
    PROVE  Cardinality(Untaken)' < Cardinality(Untaken)
<1>1. /\ open \in Seq(Waypoints) /\ open # <<>> /\ open' = Tail(open) /\ node' = node
      /\ IsInjective(open)
  BY DEF TakeNode, SearchInv, SearchTypeOK, OpenListSound
<1>2. Len(open) \in Nat \ {0} /\ DOMAIN open = 1 .. Len(open) /\ Head(open) = open[1]
  BY <1>1
<1>3. /\ Head(open) \in Waypoints /\ open' \in Seq(Waypoints)
      /\ DOMAIN open' = 1 .. Len(open) - 1
      /\ \A i \in 1 .. Len(open) - 1 : open'[i] = open[i + 1]
  BY <1>1, <1>2, HeadTailProperties, LenProperties
<1>4. Range(open') \subseteq Range(open) /\ Head(open) \in Range(open)
  <2>1. \A i \in 1 .. Len(open) - 1 : open'[i] \in Range(open)
    BY <1>2, <1>3 DEF Range
  <2>2. Head(open) \in Range(open)
    BY <1>2 DEF Range
  <2> QED
    BY <2>1, <2>2, <1>3 DEF Range
<1>5. Head(open) \notin Range(open')
  <2>1. \A i \in 1 .. Len(open) : i # 1 => open[i] # open[1]
    BY <1>1, <1>2 DEF IsInjective
  <2>2. \A i \in 1 .. Len(open) - 1 : open'[i] # Head(open)
    BY <1>2, <1>3, <2>1
  <2> QED
    BY <1>3, <2>2 DEF Range
<1>6. node[Head(open)].opened
  BY <1>2 DEF SearchInv, OpenListSound
<1>7. Untaken' \subseteq Untaken \ {Head(open)} /\ Head(open) \in Untaken
  BY <1>1, <1>3, <1>4, <1>5, <1>6 DEF Untaken, Taken
<1>8. IsFiniteSet(Untaken)
  BY UntakenFinite, WaypointsAssumption, FS_Subset
<1>9. /\ IsFiniteSet(Untaken \ {Head(open)})
      /\ Cardinality(Untaken \ {Head(open)}) = Cardinality(Untaken) - 1
  BY <1>7, <1>8, FS_RemoveElement
<1>10. Cardinality(Untaken') <= Cardinality(Untaken \ {Head(open)})
  BY <1>7, <1>9, FS_Subset
<1>11. Cardinality(Untaken') \in Nat /\ Cardinality(Untaken) \in Nat
  <2>1. IsFiniteSet(Untaken')
    BY <1>7, <1>9, FS_Subset
  <2> QED
    BY <2>1, <1>8, FS_CardinalityType
<1> QED
  BY <1>9, <1>10, <1>11

LEMMA TryTakesNone ==
    ASSUME SearchInv, TryPath
    PROVE  Untaken' = Untaken
<1>1. CASE UNCHANGED <<node, open>>
  BY <1>1 DEF Untaken, Taken
<1>2. ASSUME NEW v \in Waypoints, NEW h, node' = [node EXCEPT ![v] = Reached(v, h)],
             open' = IF node[v].opened THEN open ELSE Insert(open, node', v)
      PROVE  Untaken' = Untaken
  <2>1. node \in [Waypoints -> NodeRecord] /\ open \in Seq(Waypoints)
    BY DEF SearchInv, SearchTypeOK
  <2>2. node'[v] = Reached(v, h) /\ \A w \in Waypoints : w # v => node'[w] = node[w]
    BY <1>2, <2>1
  <2>3. node'[v].opened
    BY <2>2 DEF Reached
  <2>4. CASE node[v].opened
    <3>1. \A w \in Waypoints : node'[w].opened = node[w].opened
      BY <2>1, <2>2, <2>3, <2>4 DEF NodeRecord
    <3> QED
      BY <1>2, <2>4, <3>1 DEF Untaken, Taken
  <2>5. CASE ~node[v].opened
    <3>1. Range(open') = Range(open) \cup {v}
      BY <1>2, <2>1, <2>5, InsertFacts
    <3>2. \A w \in Waypoints : Taken(w)' <=> Taken(w)
      BY <2>2, <2>5, <3>1 DEF Taken
    <3> QED
      BY <3>2 DEF Untaken
  <2> QED
    BY <2>4, <2>5
<1> QED
  BY <1>1, <1>2, PathTried

LEMMA SearchCloser ==
    ASSUME NavInv, StageInv, StageInv', OfTheSearch, working'
    PROVE  Closer
<1>0. Stage \in Nat /\ Stage' \in Nat
  <2>1. (StageInv => Stage \in Nat)'
    BY StageIsNatural, PTL
  <2> QED
    BY <2>1, StageIsNatural
<1>1. CASE ContinueRoute
  <2>1. /\ phase = "idle" /\ phase' = "called" /\ loops' = 0 /\ UNCHANGED <<node, open>>
    BY <1>1 DEF ContinueRoute, Resume, CallLocals
  <2> QED
    BY <2>1 DEF Closer, Stage, Untaken, Taken
<1>2. CASE TakeNode
  BY <1>2, TakeTakesOne DEF Closer, NavInv
<1>3. CASE TryPath
  <2>1. /\ phase = "called" /\ phase' = "called" /\ curr # NoWpt /\ iPath' = iPath + 1
        /\ UNCHANGED <<curr, loops>>
    BY <1>3 DEF TryPath, Explore, searchVars
  <2>2. loops # 0 /\ curr \in Waypoints /\ iPath \in Nat
    BY <2>1, CostAssumption DEF StageInv, SearchInv, SearchTypeOK, WptOrNone
  <2>3. Len(Paths[curr]) \in Nat
    BY <2>2, PathsAssumption, LenProperties
  <2>4. Stage' < Stage
    BY <2>1, <2>2, <2>3 DEF Stage
  <2> QED
    BY <1>3, <2>4, TryTakesNone DEF Closer, NavInv
<1>4. CASE CloseNode
  <2>1. /\ phase = "called" /\ phase' = "called" /\ curr # NoWpt /\ curr' = NoWpt
        /\ UNCHANGED <<loops, open>> /\ node' = [node EXCEPT ![curr].closed = TRUE]
    BY <1>4 DEF CloseNode, navVars, searchVars
  <2>2. loops # 0 /\ curr \in Waypoints /\ iPath \in Nat /\ node \in [Waypoints -> NodeRecord]
    BY <2>1, CostAssumption DEF StageInv, SearchInv, SearchTypeOK, WptOrNone
  <2>3. Len(Paths[curr]) \in Nat
    BY <2>2, PathsAssumption, LenProperties
  <2>4. Stage' = 2 /\ Stage > 2
    BY <2>1, <2>2, <2>3 DEF Stage, StageInv
  <2>5. \A w \in Waypoints : node'[w].opened = node[w].opened
    BY <2>1, <2>2 DEF NodeRecord
  <2>6. Untaken' = Untaken
    BY <2>1, <2>5 DEF Untaken, Taken
  <2> QED
    BY <2>4, <2>6 DEF Closer
<1>5. CASE Return
  <2>1. OutOfLoops
    BY <1>5 DEF Return, ReturnFailed, ReturnCycle, ReturnRoute
  <2>2. /\ phase = "called" /\ phase' = "idle" /\ curr = NoWpt /\ loops # 0
        /\ UNCHANGED <<node, open>>
    BY <1>5, <2>1, CostAssumption
       DEF Return, SearchOver, ReturnPending, Report, OutOfLoops
  <2> QED
    BY <2>2 DEF Closer, Stage, Untaken, Taken
<1> QED
  BY <1>1, <1>2, <1>3, <1>4, <1>5 DEF OfTheSearch

\* Whatever else happens while a search is in progress leaves it where it was,
\* unless it begins another.
LEMMA OthersLeaveSearch ==
    ASSUME Walk \/ LoseWay \/ UNCHANGED vars
    PROVE  UNCHANGED <<Untaken, Stage>>
<1>1. UNCHANGED <<phase, node, open, curr, loops, iPath>>
  BY DEF Walk, UpdatePosition, FailMove, Clear, LoseWay, RollBack, vars, navVars, searchVars,
         astarVars
<1> QED
  BY <1>1 DEF Untaken, Taken, Stage

\* A search in progress is replaced by another, or gets on; walking, getting
\* stuck and losing the way neither bring it on nor set it back.
SearchGetsOn ==
    [][working /\ working' =>
          /\ OfTheSearch => Closer
          /\ \/ \E g, s \in WptOrNone, byId \in BOOLEAN : StartRoute(g, s, byId)
             \/ Closer
             \/ UNCHANGED <<Untaken, Stage>>]_vars

(* The measure behind SearchEnds, on every map: each step of a search ends *)
(* it or lowers the pair of the nodes not yet taken and the stage of the   *)
(* present one, natural numbers both; and nothing but a new search raises  *)
(* it.  So a search that is continued has only finitely many steps, though *)
(* it forgets in every call how many loops it had already.                 *)
THEOREM SearchesGetOn == Spec => SearchGetsOn
<1> DEFINE Begins == \E g, s \in WptOrNone, byId \in BOOLEAN : StartRoute(g, s, byId)
           GetsOn == working /\ working' =>
                        /\ OfTheSearch => Closer
                        /\ Begins \/ Closer \/ UNCHANGED <<Untaken, Stage>>
<1>1. Init => NavInv /\ StageInv
  <2>1. Init => curr = NoWpt
    BY DEF Init
  <2> QED
    BY <2>1, NavInitially DEF StageInv, NavInv
<1>2. NavInv /\ StageInv /\ [Next]_vars => (NavInv /\ StageInv)'
  BY NavStep, StageStep
<1>3. NavInv /\ StageInv /\ (NavInv /\ StageInv)' /\ [Next]_vars => [GetsOn]_vars
  <2> SUFFICES ASSUME NavInv, StageInv, StageInv', Next, working'
               PROVE  /\ OfTheSearch => Closer
                      /\ Begins \/ Closer \/ UNCHANGED <<Untaken, Stage>>
    OBVIOUS
  <2>1. OfTheSearch => Closer
    BY SearchCloser
  <2>2. Begins \/ OfTheSearch \/ Walk \/ LoseWay
    BY DEF Next, OfTheSearch
  <2> HIDE DEF Begins
  <2> QED
    BY <2>1, <2>2, OthersLeaveSearch
<1> QED
  BY <1>1, <1>2, <1>3, PTL DEF Spec, SearchGetsOn
=============================================================================
