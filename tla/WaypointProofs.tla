-------------------------- MODULE WaypointProofs --------------------------
(***************************************************************************)
(* For every size of the waypoint table: paths lead to used waypoints, the *)
(* back links cover them, and the table implements a graph.                *)
(***************************************************************************)
EXTENDS WaypointTable, TLAPS

Links == Slots \X Slots

TableInv ==
    /\ num \in 0 .. MaxWpts /\ used \subseteq 0 .. num - 1
    /\ paths \subseteq Links /\ back \in [Links -> Nat]
    /\ NoPathToUnused /\ BackLinksComplete

\* The file was written from a table with these properties.
DiskSound ==
    /\ disk.num \in 0 .. MaxWpts /\ disk.used \subseteq 0 .. disk.num - 1
    /\ disk.paths \subseteq Links
    /\ \A p \in disk.paths : p[2] \in disk.used /\ p[1] # p[2] /\ p[1] < disk.num

IInv == TableInv /\ DiskSound /\ marks \in [Marks -> Slots \cup {NoWpt}]

LEMMA InvTyped == IInv => TypeOK /\ NoPathToUnused /\ BackLinksComplete
BY DEF IInv, TableInv, DiskSound, TypeOK, Links

\* The graph is unchanged when its part of the table is.
LEMMA GraphStutters ==
    ASSUME UNCHANGED <<used, paths, disk>>
    PROVE  UNCHANGED Graph!graphVars
BY DEF Graph!graphVars, EdgesOf

\* Slots in use are below num, and so is every end of a path.
LEMMA Ends ==
    ASSUME TableInv
    PROVE  /\ used \subseteq Slots
           /\ \A i \in Slots : Valid(i) <=> i < num
           /\ \A i \in 0 .. num - 1 : Valid(i) /\ i \in Slots
           /\ \A p \in paths : Valid(p[1]) /\ Valid(p[2]) /\ p = <<p[1], p[2]>>
           /\ \A i, j \in Slots : back[<<i, j>>] \in Nat
<1>1. num \in Nat /\ num <= MaxWpts
  BY MaxWptsAssumption DEF TableInv
<1>2. used \subseteq Slots /\ \A i \in 0 .. num - 1 : Valid(i) /\ i \in Slots
  BY <1>1, MaxWptsAssumption DEF TableInv, Valid, Slots
<1>3. \A i \in Slots : Valid(i) <=> i < num
  BY <1>1, MaxWptsAssumption DEF Valid, Slots
<1>4. ASSUME NEW p \in paths PROVE Valid(p[1]) /\ Valid(p[2]) /\ p = <<p[1], p[2]>>
  <2>1. p \in Links
    BY DEF TableInv
  <2>2. p = <<p[1], p[2]>> /\ <<p[2], p[1]>> \in Links
    BY <2>1 DEF Links
  <2>3. back[<<p[2], p[1]>>] > 0
    BY DEF TableInv, BackLinksComplete
  <2> QED
    BY <2>2, <2>3 DEF TableInv, BackLinksComplete, Links
<1>5. \A i, j \in Slots : back[<<i, j>>] \in Nat
  BY DEF TableInv, Links
<1> QED
  BY <1>2, <1>3, <1>4, <1>5

LEMMA Below ==
    \A m, n \in Nat : /\ m <= n => \A i \in 0 .. m - 1 : i \in 0 .. n - 1
                      /\ m < n => m \in 0 .. n - 1
OBVIOUS

LEMMA FreeSlot ==
    ASSUME TableInv, NEW k \in Slots, IsFree(k)
    PROVE  /\ k \notin used /\ k <= num /\ k < CountOf(k)
           /\ CountOf(k) \in num .. num + 1 /\ CountOf(k) \in 0 .. MaxWpts
<1>1. k \notin used /\ 0 .. k - 1 \subseteq used /\ k \in Nat /\ k < MaxWpts
  BY MaxWptsAssumption DEF IsFree, Slots
<1>2. num \in Nat /\ num \notin used
  BY DEF TableInv
<1>3. k <= num
  <2>1. CASE k > num
    BY <2>1, <1>1, <1>2
  <2> QED
    BY <2>1, <1>1, <1>2
<1> QED
  BY <1>1, <1>2, <1>3, MaxWptsAssumption DEF CountOf, TableInv
-----------------------------------------------------------------------------
\* A new waypoint, joined from slots getWaypoint knows and to used ones.
LEMMA AddKeeps ==
    ASSUME TableInv, NEW k \in Slots, NEW from \in SUBSET (0 .. num - 1),
           NEW to \in SUBSET used, k \notin from, AddWaypoint(k, from, to)
    PROVE  TableInv' /\ Graph!GraphNext
<1>1. /\ k \notin used /\ k < num' /\ num \in Nat
      /\ num' \in num .. num + 1 /\ num' \in 0 .. MaxWpts
  BY FreeSlot DEF AddWaypoint, TableInv
<1>2. /\ used' = used \cup {k} /\ used' \subseteq 0 .. num' - 1
  BY <1>1, MaxWptsAssumption DEF AddWaypoint, TableInv, Slots
<1>3. \A p \in paths' : \/ p \in paths /\ p[1] # k
                        \/ \E i \in from : p = <<i, k>>
                        \/ \E j \in to : p = <<k, j>>
  <2>1. paths' = (paths \ From(k)) \cup (from \X {k}) \cup ({k} \X to)
    BY DEF AddWaypoint
  <2>2. \A p \in paths \ From(k) : p \in paths /\ p[1] # k
    BY DEF From
  <2>3. \A p \in from \X {k} : \E i \in from : p = <<i, k>>
    <3> SUFFICES ASSUME NEW p \in from \X {k} PROVE \E i \in from : p = <<i, k>>
      OBVIOUS
    <3>1. p[1] \in from /\ p = <<p[1], k>>
      OBVIOUS
    <3> QED
      BY <3>1
  <2>4. \A p \in {k} \X to : \E j \in to : p = <<k, j>>
    OBVIOUS
  <2> QED
    BY <2>1, <2>2, <2>3, <2>4
<1>4. \A p \in paths : p[1] # k => p \in paths'
  BY DEF AddWaypoint, From
<1>5. /\ from \subseteq Slots /\ to \subseteq Slots /\ k \notin to
  BY <1>1, Ends
<1>6. paths' \subseteq Links
  BY <1>3, <1>5 DEF TableInv, Links
<1>7. back' = [l \in Links |->
                  IF l[1] = k THEN (IF l[2] \in from THEN 1 ELSE 0)
                  ELSE IF l[2] = k /\ l[1] \in to THEN back[l] + 1
                  ELSE back[l]]
  BY DEF AddWaypoint, Links
<1>8. back' \in [Links -> Nat]
  BY <1>7 DEF TableInv
<1>9. NoPathToUnused'
  <2> SUFFICES ASSUME NEW p \in paths'
               PROVE  p[2] \in used' /\ p[1] # p[2]
    BY DEF NoPathToUnused
  <2>1. CASE p \in paths /\ p[1] # k
    BY <2>1, <1>2 DEF TableInv, NoPathToUnused
  <2>2. CASE \E i \in from : p = <<i, k>>
    BY <2>2, <1>2
  <2>3. CASE \E j \in to : p = <<k, j>>
    BY <2>3, <1>2, <1>5
  <2> QED
    BY <1>3, <2>1, <2>2, <2>3
<1>10. ASSUME NEW p \in paths' PROVE back'[<<p[2], p[1]>>] > 0
  <2>1. CASE p \in paths /\ p[1] # k
    <3>1. p[2] # k /\ <<p[2], p[1]>> \in Links
      BY <2>1, <1>1 DEF TableInv, NoPathToUnused, Links
    <3>2. back'[<<p[2], p[1]>>] = back[<<p[2], p[1]>>]
      BY <2>1, <3>1, <1>7
    <3> QED
      BY <2>1, <3>2 DEF TableInv, BackLinksComplete
  <2>2. CASE \E i \in from : p = <<i, k>>
    BY <2>2, <1>5, <1>7 DEF Links
  <2>3. CASE \E j \in to : p = <<k, j>>
    <3>1. PICK j \in to : p = <<k, j>>
      BY <2>3
    <3>2. <<j, k>> \in Links /\ j # k
      BY <1>5 DEF Links
    <3>3. back'[<<j, k>>] = back[<<j, k>>] + 1 /\ back[<<j, k>>] \in Nat
      BY <3>2, <1>7 DEF TableInv
    <3> QED
      BY <3>1, <3>3
  <2> QED
    BY <1>3, <2>1, <2>2, <2>3
<1>11. ASSUME NEW l \in Links, back'[l] > 0 PROVE (Valid(l[1]) /\ Valid(l[2]))'
  <2>0. num \in Nat /\ num' \in Nat /\ num <= num' /\ k \in Nat /\ k < num'
    BY <1>1, MaxWptsAssumption DEF Slots
  <2>1. \A i \in 0 .. num - 1 : i \in 0 .. num' - 1
    BY <2>0, Below
  <2>2. k \in 0 .. num' - 1
    BY <2>0, Below
  <2>3. CASE l[1] = k
    <3>1. l[2] \in from
      BY <2>3, <1>7, <1>11
    <3> QED
      BY <3>1, <2>1, <2>2, <2>3 DEF Valid
  <2>4. CASE l[1] # k /\ l[2] = k /\ l[1] \in to
    <3>1. l[1] \in 0 .. num - 1
      BY <2>4 DEF TableInv
    <3> QED
      BY <3>1, <2>1, <2>2, <2>4 DEF Valid
  <2>5. CASE l[1] # k /\ ~(l[2] = k /\ l[1] \in to)
    <3>1. back'[l] = back[l]
      BY <2>5, <1>7
    <3>2. Valid(l[1]) /\ Valid(l[2])
      BY <3>1, <1>11 DEF TableInv, BackLinksComplete, Links
    <3> QED
      BY <3>2, <2>1 DEF Valid
  <2> QED
    BY <2>3, <2>4, <2>5
<1>12. BackLinksComplete'
  BY <1>10, <1>11 DEF BackLinksComplete, Links
<1>13. TableInv'
  BY <1>1, <1>2, <1>6, <1>8, <1>9, <1>12 DEF TableInv
<1>14. Graph!AddNode
  <2> DEFINE E == EdgesOf(paths, used)
             F == EdgesOf(paths', used')
  <2>1. E \subseteq F
    BY <1>1, <1>2, <1>4 DEF EdgesOf
  <2>2. F \subseteq used' \X used'
    BY <1>6, <1>9 DEF EdgesOf, NoPathToUnused, Links
  <2>3. F \ E \subseteq {e \in F : e[1] = k \/ e[2] = k}
    BY <1>2, <1>3 DEF EdgesOf
  <2>4. <<k, k>> \notin F
    BY <1>9 DEF EdgesOf, NoPathToUnused
  <2>5. k \in Slots \ used
    BY <1>1
  <2>6. UNCHANGED disk
    BY DEF AddWaypoint
  <2> QED
    BY <2>1, <2>2, <2>3, <2>4, <2>5, <2>6, <1>2 DEF Graph!AddNode, Graph!Touching
<1> QED
  BY <1>13, <1>14 DEF Graph!GraphNext
-----------------------------------------------------------------------------
\* A path from a slot getWaypoint knows to a used waypoint.
LEMMA PathKeeps ==
    ASSUME TableInv, NEW i \in 0 .. num - 1, NEW j \in used, AddPathTo(i, j),
           UNCHANGED <<num, used, disk>>
    PROVE  TableInv' /\ [Graph!GraphNext]_Graph!graphVars
<1>1. CASE UNCHANGED <<paths, back>>
  <2>1. TableInv'
    BY <1>1 DEF TableInv, NoPathToUnused, BackLinksComplete, Valid
  <2> QED
    BY <2>1, <1>1, GraphStutters
<1>2. CASE i # j /\ BothEnds(i, j)
  <2>1. /\ i \in Slots /\ j \in Slots /\ Valid(i) /\ Valid(j)
        /\ back[<<j, i>>] \in Nat /\ <<j, i>> \in Links /\ <<i, j>> \in Links
    BY Ends DEF TableInv, Links
  <2>2. /\ paths' = paths \cup {<<i, j>>}
        /\ back' = [back EXCEPT ![<<j, i>>] = back[<<j, i>>] + 1]
    BY <1>2 DEF BothEnds
  <2>3. /\ back' \in [Links -> Nat] /\ back'[<<j, i>>] > 0
        /\ \A l \in Links : l # <<j, i>> => back'[l] = back[l]
    BY <2>1, <2>2 DEF TableInv
  <2>4. NoPathToUnused'
    BY <1>2, <2>2 DEF TableInv, NoPathToUnused
  <2>5. ASSUME NEW p \in paths' PROVE back'[<<p[2], p[1]>>] > 0
    <3>1. CASE p = <<i, j>>
      BY <3>1, <2>3
    <3>2. CASE p \in paths
      <4>1. <<p[2], p[1]>> \in Links /\ back[<<p[2], p[1]>>] > 0
        BY <3>2 DEF TableInv, BackLinksComplete, Links
      <4> QED
        BY <4>1, <2>3
    <3> QED
      BY <3>1, <3>2, <2>2
  <2>6. ASSUME NEW l \in Links, back'[l] > 0 PROVE (Valid(l[1]) /\ Valid(l[2]))'
    <3>1. Valid(l[1]) /\ Valid(l[2])
      BY <2>1, <2>3, <2>6 DEF TableInv, BackLinksComplete, Links
    <3> QED
      BY <3>1 DEF Valid
  <2>7. BackLinksComplete'
    BY <2>5, <2>6 DEF BackLinksComplete, Links
  <2>8. paths' \subseteq Links
    BY <2>1, <2>2 DEF TableInv
  <2>9. TableInv'
    BY <2>3, <2>4, <2>7, <2>8 DEF TableInv
  <2>10. CASE i \in used
    <3>1. EdgesOf(paths, used)' = EdgesOf(paths, used) \cup {<<i, j>>}
      BY <2>2, <2>10 DEF EdgesOf
    <3>2. Graph!AddEdge
      BY <3>1, <2>10, <1>2 DEF Graph!AddEdge
    <3> QED
      BY <2>9, <3>2 DEF Graph!GraphNext
  <2>11. CASE i \notin used
    <3>1. EdgesOf(paths, used)' = EdgesOf(paths, used)
      BY <2>2, <2>11 DEF EdgesOf
    <3> QED
      BY <2>9, <3>1 DEF Graph!graphVars
  <2> QED
    BY <2>10, <2>11
<1> QED
  BY <1>1, <1>2 DEF AddPathTo

\* What only takes paths and links away, and no link without its path.
LEMMA ShrinkKeeps ==
    ASSUME TableInv, num' = num, used' \subseteq used, paths' \subseteq paths,
           back' \in [Links -> Nat],
           \A p \in paths' : p[2] \in used' /\ back'[<<p[2], p[1]>>] > 0,
           \A l \in Links : back'[l] > 0 => back[l] > 0
    PROVE  TableInv'
<1>1. NoPathToUnused'
  BY DEF TableInv, NoPathToUnused
<1>2. BackLinksComplete'
  BY DEF TableInv, BackLinksComplete, Valid, Links
<1>3. num' \in 0 .. MaxWpts /\ used' \subseteq 0 .. num' - 1
  BY DEF TableInv
<1> QED
  BY <1>1, <1>2, <1>3 DEF TableInv

LEMMA RemoveKeeps ==
    ASSUME TableInv, NEW i \in 0 .. num - 1, NEW j \in used, RemovePathTo(i, j),
           UNCHANGED <<num, used, disk>>
    PROVE  TableInv' /\ [Graph!GraphNext]_Graph!graphVars
<1>1. /\ i \in Slots /\ j \in Slots /\ Valid(j) /\ <<j, i>> \in Links
      /\ back[<<j, i>>] \in Nat
  BY Ends DEF TableInv, Links
<1>2. /\ paths' = paths \ {<<i, j>>}
      /\ back' = [back EXCEPT ![<<j, i>>] = IF back[<<j, i>>] > 0 THEN back[<<j, i>>] - 1 ELSE 0]
  BY <1>1 DEF RemovePathTo
<1>3. /\ back' \in [Links -> Nat]
      /\ \A l \in Links : l # <<j, i>> => back'[l] = back[l]
      /\ back'[<<j, i>>] > 0 => back[<<j, i>>] > 0
  BY <1>1, <1>2 DEF TableInv
<1>4. ASSUME NEW p \in paths' PROVE p[2] \in used' /\ back'[<<p[2], p[1]>>] > 0
  <2>1. p \in paths /\ p = <<p[1], p[2]>> /\ p # <<i, j>> /\ <<p[2], p[1]>> \in Links
    BY <1>2 DEF TableInv, Links
  <2>2. p[2] \in used /\ back[<<p[2], p[1]>>] > 0
    BY <2>1 DEF TableInv, NoPathToUnused, BackLinksComplete
  <2>3. <<p[2], p[1]>> # <<j, i>>
    BY <2>1
  <2> QED
    BY <2>1, <2>2, <2>3, <1>3
<1>5. TableInv'
  BY <1>2, <1>3, <1>4, ShrinkKeeps
<1>6. Graph!RemoveEdges
  <2>1. EdgesOf(paths, used)' = EdgesOf(paths, used) \ {<<i, j>>}
    BY <1>2 DEF EdgesOf
  <2> QED
    BY <2>1 DEF Graph!RemoveEdges, Graph!Touching
<1> QED
  BY <1>5, <1>6 DEF Graph!GraphNext

\* deletePathsTo finds every path to k.
LEMMA PathsToGone ==
    ASSUME TableInv, NEW k \in 0 .. num - 1, NEW P \in SUBSET paths
    PROVE  /\ PathsLeft(P, k) = {p \in P : p[2] # k}
           /\ LinksLeft(k) \in [Links -> Nat]
           /\ \A l \in Links : LinksLeft(k)[l] = (IF l[1] = k THEN 0 ELSE back[l])
<1>1. \A p \in P : p[2] = k => back[<<k, p[1]>>] > 0
  BY DEF TableInv, BackLinksComplete
<1> QED
  BY <1>1 DEF PathsLeft, LinksLeft, TableInv, Links

LEMMA DeleteKeeps ==
    ASSUME TableInv, Delete
    PROVE  TableInv' /\ [Graph!GraphNext]_Graph!graphVars
<1>1. PICK k \in used : /\ used' = used \ {k}
                        /\ paths' = PathsLeft(paths \ From(k), k)
                        /\ back' = LinksLeft(k)
  BY DEF Delete
<1>2. UNCHANGED <<num, marks, disk>>
  BY DEF Delete
<1>3. k \in 0 .. num - 1 /\ k \in Slots
  BY Ends DEF TableInv
<1>4. /\ paths' = {p \in paths : p[1] # k /\ p[2] # k}
      /\ back' \in [Links -> Nat]
      /\ \A l \in Links : back'[l] = (IF l[1] = k THEN 0 ELSE back[l])
  BY <1>1, <1>3, PathsToGone DEF From
<1>5. ASSUME NEW p \in paths' PROVE p[2] \in used' /\ back'[<<p[2], p[1]>>] > 0
  <2>1. p \in paths /\ p[2] # k /\ <<p[2], p[1]>> \in Links
    BY <1>4 DEF TableInv, Links
  <2> QED
    BY <2>1, <1>1, <1>4 DEF TableInv, NoPathToUnused, BackLinksComplete
<1>6. TableInv'
  <2>1. num' = num /\ used' \subseteq used /\ paths' \subseteq paths
    BY <1>1, <1>2, <1>4
  <2>2. \A l \in Links : back'[l] > 0 => back[l] > 0
    BY <1>4
  <2> QED
    BY <2>1, <2>2, <1>4, <1>5, ShrinkKeeps
<1>7. Graph!DeleteNode
  <2>1. EdgesOf(paths, used)' = {e \in EdgesOf(paths, used) : e[1] # k /\ e[2] # k}
    BY <1>1, <1>4 DEF EdgesOf
  <2>2. EdgesOf(paths, used)' = EdgesOf(paths, used) \ Graph!Touching(EdgesOf(paths, used), k)
    BY <2>1 DEF Graph!Touching
  <2> QED
    BY <2>2, <1>1, <1>2 DEF Graph!DeleteNode
<1> QED
  BY <1>6, <1>7 DEF Graph!GraphNext

LEMMA DeleteToKeeps ==
    ASSUME TableInv, DeletePathsTo
    PROVE  TableInv' /\ [Graph!GraphNext]_Graph!graphVars
<1>1. PICK k \in 0 .. num - 1, unreachable \in BOOLEAN :
         /\ paths' = PathsLeft(paths, k) \ (IF unreachable THEN From(k) ELSE {})
         /\ back' = LinksLeft(k)
  BY DEF DeletePathsTo
<1>2. UNCHANGED <<num, used, marks, disk>>
  BY DEF DeletePathsTo
<1>3. /\ \A p \in paths' : p \in paths /\ p[2] # k
      /\ \A p \in paths : p[1] # k /\ p[2] # k => p \in paths'
      /\ back' \in [Links -> Nat]
      /\ \A l \in Links : back'[l] = (IF l[1] = k THEN 0 ELSE back[l])
  BY <1>1, PathsToGone DEF From
<1>4. ASSUME NEW p \in paths' PROVE p[2] \in used' /\ back'[<<p[2], p[1]>>] > 0
  <2>1. p \in paths /\ p[2] # k /\ <<p[2], p[1]>> \in Links
    BY <1>3 DEF TableInv, Links
  <2> QED
    BY <2>1, <1>2, <1>3 DEF TableInv, NoPathToUnused, BackLinksComplete
<1>5. TableInv'
  <2>1. num' = num /\ used' \subseteq used /\ paths' \subseteq paths
    BY <1>2, <1>3
  <2>2. \A l \in Links : back'[l] > 0 => back[l] > 0
    BY <1>3
  <2> QED
    BY <2>1, <2>2, <1>3, <1>4, ShrinkKeeps
<1>6. CASE k \in used
  <2>1. EdgesOf(paths, used)' \subseteq EdgesOf(paths, used)
    BY <1>2, <1>3 DEF EdgesOf
  <2>2. EdgesOf(paths, used) \ EdgesOf(paths, used)'
           \subseteq Graph!Touching(EdgesOf(paths, used), k)
    BY <1>2, <1>3 DEF EdgesOf, Graph!Touching
  <2>3. Graph!RemoveEdges
    BY <1>6, <1>2, <2>1, <2>2 DEF Graph!RemoveEdges
  <2> QED
    BY <1>5, <2>3 DEF Graph!GraphNext
<1>7. CASE k \notin used
  <2>1. EdgesOf(paths, used)' = EdgesOf(paths, used)
    BY <1>7, <1>2, <1>3 DEF EdgesOf, TableInv, NoPathToUnused
  <2> QED
    BY <1>5, <1>2, <2>1 DEF Graph!graphVars
<1> QED
  BY <1>6, <1>7

LEMMA DeleteFromKeeps ==
    ASSUME TableInv, DeletePathsFrom
    PROVE  TableInv' /\ [Graph!GraphNext]_Graph!graphVars
<1>1. PICK k \in 0 .. num - 1 : paths' = paths \ From(k)
  BY DEF DeletePathsFrom
<1>2. UNCHANGED <<num, used, back, marks, disk>>
  BY DEF DeletePathsFrom
<1>3. paths' = {p \in paths : p[1] # k}
  BY <1>1 DEF From
<1>4. ASSUME NEW p \in paths' PROVE p[2] \in used' /\ back'[<<p[2], p[1]>>] > 0
  BY <1>2, <1>3 DEF TableInv, NoPathToUnused, BackLinksComplete
<1>5. TableInv'
  <2>1. num' = num /\ used' \subseteq used /\ paths' \subseteq paths
    BY <1>2, <1>3
  <2>2. back' \in [Links -> Nat] /\ \A l \in Links : back'[l] > 0 => back[l] > 0
    BY <1>2 DEF TableInv
  <2> QED
    BY <2>1, <2>2, <1>4, ShrinkKeeps
<1>6. CASE k \in used
  <2>1. EdgesOf(paths, used)' \subseteq EdgesOf(paths, used)
    BY <1>2, <1>3 DEF EdgesOf
  <2>2. EdgesOf(paths, used) \ EdgesOf(paths, used)'
           \subseteq Graph!Touching(EdgesOf(paths, used), k)
    BY <1>2, <1>3 DEF EdgesOf, Graph!Touching
  <2>3. Graph!RemoveEdges
    BY <1>6, <1>2, <2>1, <2>2 DEF Graph!RemoveEdges
  <2> QED
    BY <1>5, <2>3 DEF Graph!GraphNext
<1>7. CASE k \notin used
  <2>1. EdgesOf(paths, used)' = EdgesOf(paths, used)
    BY <1>7, <1>2, <1>3 DEF EdgesOf
  <2> QED
    BY <1>5, <1>2, <2>1 DEF Graph!graphVars
<1> QED
  BY <1>6, <1>7
-----------------------------------------------------------------------------
LEMMA ClearKeeps ==
    ASSUME Clear
    PROVE  TableInv' /\ Graph!GraphNext
<1>1. TableInv'
  BY MaxWptsAssumption
  DEF Clear, TableInv, NoPathToUnused, BackLinksComplete, Links, Slots
<1>2. Graph!Reset
  BY DEF Clear, Graph!Reset, EdgesOf
<1> QED
  BY <1>1, <1>2 DEF Graph!GraphNext

LEMMA LoadKeeps ==
    ASSUME DiskSound, LoadTable
    PROVE  TableInv' /\ Graph!GraphNext
<1>1. \A p \in disk.paths : p \in Links /\ p[2] < disk.num /\ p[1] # p[2]
  BY MaxWptsAssumption DEF DiskSound, Links, Slots
<1>2. num' = disk.num /\ used' = disk.used /\ paths' = disk.paths /\ disk' = disk
  BY <1>1 DEF LoadTable
<1>3. back' = [l \in Links |-> IF <<l[2], l[1]>> \in paths' THEN 1 ELSE 0]
  BY DEF LoadTable, Links
<1>4. num' \in 0 .. MaxWpts /\ used' \subseteq 0 .. num' - 1 /\ paths' \subseteq Links
  BY <1>2 DEF DiskSound
<1>5. NoPathToUnused'
  BY <1>2 DEF DiskSound, NoPathToUnused
<1>6. ASSUME NEW p \in paths' PROVE back'[<<p[2], p[1]>>] > 0
  <2>1. <<p[2], p[1]>> \in Links /\ p = <<p[1], p[2]>>
    BY <1>4 DEF Links
  <2> QED
    BY <2>1, <1>3
<1>7. ASSUME NEW l \in Links, back'[l] > 0 PROVE (Valid(l[1]) /\ Valid(l[2]))'
  <2>1. <<l[2], l[1]>> \in disk.paths
    BY <1>2, <1>3, <1>7
  <2>2. l[1] \in disk.used /\ l[2] < disk.num /\ l[1] \in Slots /\ l[2] \in Slots
    BY <2>1 DEF DiskSound, Links
  <2>3. l[1] \in 0 .. num' - 1 /\ l[2] \in 0 .. num' - 1
    BY <2>2, <1>2, <1>4, MaxWptsAssumption DEF Slots
  <2> QED
    BY <2>3 DEF Valid
<1>8. BackLinksComplete'
  BY <1>6, <1>7 DEF BackLinksComplete, Links
<1>9. back' \in [Links -> Nat]
  BY <1>3
<1>10. TableInv'
  BY <1>4, <1>5, <1>8, <1>9 DEF TableInv
<1>11. Graph!Load
  BY <1>2 DEF Graph!Load
<1> QED
  BY <1>10, <1>11 DEF Graph!GraphNext

LEMMA SaveKeeps ==
    ASSUME TableInv, Save
    PROVE  TableInv' /\ DiskSound' /\ Graph!GraphNext
<1>1. UNCHANGED tableVars /\ disk' = [num |-> num, used |-> used, paths |-> paths]
  BY DEF Save
<1>2. TableInv'
  BY <1>1 DEF tableVars, TableInv, NoPathToUnused, BackLinksComplete, Valid
<1>3. \A p \in paths : p[1] < num
  <2>1. \A p \in paths : Valid(p[1])
    BY Ends
  <2> QED
    BY <2>1 DEF Valid, TableInv
<1>4. DiskSound'
  BY <1>1, <1>3 DEF DiskSound, TableInv, NoPathToUnused
<1>5. Graph!Save
  BY <1>1 DEF Graph!Save, tableVars, EdgesOf
<1> QED
  BY <1>2, <1>4, <1>5 DEF Graph!GraphNext
-----------------------------------------------------------------------------
\* The steps of autowaypointing add a waypoint, a path, or only change marks.
LEMMA TableStutters ==
    ASSUME TableInv, UNCHANGED <<tableVars, disk>>
    PROVE  TableInv' /\ [Graph!GraphNext]_Graph!graphVars
<1>1. UNCHANGED <<num, used, paths, back, disk>>
  BY DEF tableVars
<1>2. TableInv'
  BY <1>1 DEF TableInv, NoPathToUnused, BackLinksComplete, Valid
<1> QED
  BY <1>1, <1>2, GraphStutters

LEMMA AddUsedKeeps ==
    ASSUME TableInv, NEW k \in Slots, NEW from \in SUBSET used,
           NEW to \in SUBSET used, AddWaypoint(k, from, to)
    PROVE  TableInv' /\ Graph!GraphNext
<1>1. from \subseteq 0 .. num - 1
  BY DEF TableInv
<1>2. k \notin from
  BY FreeSlot DEF AddWaypoint
<1> QED
  BY <1>1, <1>2, AddKeeps

LEMMA ArrivingKeeps ==
    ASSUME TableInv, NEW start, NEW k \in Slots, ArrivesAtNew(start, k)
    PROVE  TableInv' /\ Graph!GraphNext
<1>1. PICK from \in SUBSET used, to \in SUBSET used :
         AddWaypoint(k, (from \cup {start}) \ {k}, to)
  BY DEF ArrivesAtNew
<1>2. start \in 0 .. num - 1 /\ from \subseteq 0 .. num - 1
  BY DEF ArrivesAtNew, Valid, TableInv
<1>3. (from \cup {start}) \ {k} \in SUBSET (0 .. num - 1)
  BY <1>2
<1> QED
  BY <1>1, <1>3, AddKeeps

LEMMA TakingOffKeeps ==
    ASSUME TableInv, marks \in [Marks -> Slots \cup {NoWpt}],
           NEW m \in Marks, TakesOff(m)
    PROVE  /\ TableInv' /\ [Graph!GraphNext]_Graph!graphVars
           /\ marks' \in [Marks -> Slots \cup {NoWpt}] /\ UNCHANGED disk
<1>1. CASE \E k \in Slots, from \in SUBSET used, to \in SUBSET used :
             AddWaypoint(k, from, to) /\ marks' = [marks EXCEPT ![m] = k]
  <2>1. PICK k \in Slots, from \in SUBSET used, to \in SUBSET used :
           AddWaypoint(k, from, to) /\ marks' = [marks EXCEPT ![m] = k]
    BY <1>1
  <2>2. TableInv' /\ Graph!GraphNext
    BY <2>1, AddUsedKeeps
  <2>3. UNCHANGED disk
    BY <2>1 DEF AddWaypoint
  <2> QED
    BY <2>1, <2>2, <2>3
<1>2. CASE \E i \in used : marks' = [marks EXCEPT ![m] = i] /\ UNCHANGED <<tableVars, disk>>
  <2>1. used \subseteq Slots
    BY Ends
  <2> QED
    BY <1>2, <2>1, TableStutters
<1>3. CASE /\ used = Slots /\ marks' = [marks EXCEPT ![m] = NoWpt]
           /\ UNCHANGED <<tableVars, disk>>
  BY <1>3, TableStutters
<1> QED
  BY <1>1, <1>2, <1>3 DEF TakesOff

LEMMA LandingKeeps ==
    ASSUME TableInv, marks \in [Marks -> Slots \cup {NoWpt}], Land
    PROVE  /\ TableInv' /\ [Graph!GraphNext]_Graph!graphVars
           /\ marks' \in [Marks -> Slots \cup {NoWpt}] /\ UNCHANGED disk
<1>1. marks' \in [Marks -> Slots \cup {NoWpt}]
  BY DEF Land
<1>2. CASE \E k \in Slots : ArrivesAtNew(marks["jump"], k)
  <2>1. TableInv' /\ Graph!GraphNext
    BY <1>2, ArrivingKeeps
  <2>2. UNCHANGED disk
    BY <1>2 DEF ArrivesAtNew, AddWaypoint
  <2> QED
    BY <1>1, <2>1, <2>2
<1>3. CASE UNCHANGED <<tableVars, disk>>
  BY <1>1, <1>3, TableStutters
<1>4. CASE /\ Valid(marks["jump"]) /\ UNCHANGED <<num, used, disk>>
           /\ \E j \in used \ {marks["jump"]} : AddPathTo(marks["jump"], j)
  BY <1>1, <1>4, PathKeeps DEF Valid
<1> QED
  BY <1>2, <1>3, <1>4 DEF Land

LEMMA LeavingLadderKeeps ==
    ASSUME TableInv, marks \in [Marks -> Slots \cup {NoWpt}], OffLadder
    PROVE  /\ TableInv' /\ [Graph!GraphNext]_Graph!graphVars
           /\ marks' \in [Marks -> Slots \cup {NoWpt}] /\ UNCHANGED disk
<1>1. CASE \E k \in Slots :
             /\ ArrivesAtNew(marks["ladder"], k)
             /\ marks' = [marks EXCEPT !["ladder"] = NoWpt, !["join"] = k]
  <2>1. TableInv' /\ Graph!GraphNext
    BY <1>1, ArrivingKeeps
  <2>2. UNCHANGED disk
    BY <1>1 DEF ArrivesAtNew, AddWaypoint
  <2> QED
    BY <1>1, <2>1, <2>2
<1>2. CASE /\ marks' = [marks EXCEPT !["ladder"] = NoWpt]
           /\ UNCHANGED <<tableVars, disk>>
  BY <1>2, TableStutters
<1>3. CASE /\ Valid(marks["join"]) /\ UNCHANGED <<num, used, disk>>
           /\ \E j \in used \ {marks["ladder"]} :
                /\ AddPathTo(marks["join"], j)
                /\ marks' = [marks EXCEPT !["ladder"] = NoWpt, !["join"] = j]
  <2>1. PICK j \in used :
           /\ AddPathTo(marks["join"], j)
           /\ marks' = [marks EXCEPT !["ladder"] = NoWpt, !["join"] = j]
    BY <1>3
  <2>2. TableInv' /\ [Graph!GraphNext]_Graph!graphVars
    BY <1>3, <2>1, PathKeeps DEF Valid
  <2>3. j \in Slots
    BY Ends
  <2> QED
    BY <1>3, <2>1, <2>2, <2>3
<1> QED
  BY <1>1, <1>2, <1>3 DEF OffLadder

LEMMA JoiningKeeps ==
    ASSUME TableInv, marks \in [Marks -> Slots \cup {NoWpt}], JoinLadder
    PROVE  /\ TableInv' /\ [Graph!GraphNext]_Graph!graphVars
           /\ marks' \in [Marks -> Slots \cup {NoWpt}] /\ UNCHANGED disk
<1>1. marks' \in [Marks -> Slots \cup {NoWpt}]
  BY DEF JoinLadder
<1>2. CASE \E k \in Slots : ArrivesAtNew(marks["join"], k)
  <2>1. TableInv' /\ Graph!GraphNext
    BY <1>2, ArrivingKeeps
  <2>2. UNCHANGED disk
    BY <1>2 DEF ArrivesAtNew, AddWaypoint
  <2> QED
    BY <1>1, <2>1, <2>2
<1>3. CASE UNCHANGED <<tableVars, disk>>
  BY <1>1, <1>3, TableStutters
<1>4. CASE /\ Valid(marks["join"]) /\ UNCHANGED <<num, used, disk>>
           /\ \E j \in used \ {marks["join"]} : AddPathTo(marks["join"], j)
  BY <1>1, <1>4, PathKeeps DEF Valid
<1> QED
  BY <1>2, <1>3, <1>4 DEF JoinLadder
-----------------------------------------------------------------------------
LEMMA InitIInv == Init => IInv
<1> SUFFICES ASSUME Init PROVE IInv
  OBVIOUS
<1>1. TableInv
  BY MaxWptsAssumption
  DEF Init, TableInv, NoPathToUnused, BackLinksComplete, Links, Slots
<1>2. DiskSound
  BY MaxWptsAssumption DEF Init, DiskSound, Blank
<1>3. marks \in [Marks -> Slots \cup {NoWpt}]
  BY DEF Init
<1> QED
  BY <1>1, <1>2, <1>3 DEF IInv

LEMMA InitGraph == Init => Graph!GraphInit
BY DEF Init, Blank, Graph!GraphInit, Graph!Empty, EdgesOf

\* Each step keeps the invariant, and is a step of the graph or a stutter.
Marked == marks \in [Marks -> Slots \cup {NoWpt}]

LEMMA Step ==
    ASSUME IInv, [Next]_vars
    PROVE  IInv' /\ [Graph!GraphNext]_Graph!graphVars
<1> USE DEF IInv
<1>1. TableInv /\ DiskSound /\ Marked
  BY DEF Marked
<1>2. ASSUME UNCHANGED disk PROVE DiskSound'
  BY <1>1, <1>2 DEF DiskSound
<1>3. ASSUME UNCHANGED marks PROVE Marked'
  BY <1>1, <1>3 DEF Marked
<1>4. SUFFICES /\ TableInv' /\ DiskSound' /\ Marked'
               /\ [Graph!GraphNext]_Graph!graphVars
  BY DEF Marked
<1>5. CASE Add
  <2>1. PICK k \in Slots, from \in SUBSET used, to \in SUBSET used : AddWaypoint(k, from, to)
    BY <1>5 DEF Add
  <2>2. UNCHANGED <<marks, disk>>
    BY <1>5, <2>1 DEF Add, AddWaypoint
  <2> QED
    BY <1>1, <1>2, <1>3, <2>1, <2>2, AddUsedKeeps
<1>6. CASE Delete
  <2>1. UNCHANGED <<marks, disk>>
    BY <1>6 DEF Delete
  <2> QED
    BY <1>1, <1>2, <1>3, <1>6, <2>1, DeleteKeeps
<1>7. CASE DeletePathsTo
  <2>1. UNCHANGED <<marks, disk>>
    BY <1>7 DEF DeletePathsTo
  <2> QED
    BY <1>1, <1>2, <1>3, <1>7, <2>1, DeleteToKeeps
<1>8. CASE DeletePathsFrom
  <2>1. UNCHANGED <<marks, disk>>
    BY <1>8 DEF DeletePathsFrom
  <2> QED
    BY <1>1, <1>2, <1>3, <1>8, <2>1, DeleteFromKeeps
<1>9. CASE CreateFromTo
  <2>1. PICK i \in used, j \in used : AddPathTo(i, j)
    BY <1>9 DEF CreateFromTo
  <2>2. UNCHANGED <<num, used, marks, disk>> /\ i \in 0 .. num - 1
    BY <1>1, <1>9 DEF CreateFromTo, TableInv
  <2> QED
    BY <1>1, <1>2, <1>3, <2>1, <2>2, PathKeeps
<1>10. CASE RemoveFromTo
  <2>1. PICK i \in used, j \in used : RemovePathTo(i, j)
    BY <1>10 DEF RemoveFromTo
  <2>2. UNCHANGED <<num, used, marks, disk>> /\ i \in 0 .. num - 1
    BY <1>1, <1>10 DEF RemoveFromTo, TableInv
  <2> QED
    BY <1>1, <1>2, <1>3, <2>1, <2>2, RemoveKeeps
<1>11. CASE Create1
  <2>1. PICK i \in used : marks' = [marks EXCEPT !["path"] = i]
    BY <1>11 DEF Create1
  <2>2. Marked'
    BY <1>1, <2>1, Ends DEF Marked
  <2>3. UNCHANGED <<tableVars, disk>>
    BY <1>11 DEF Create1
  <2> QED
    BY <1>1, <1>2, <2>2, <2>3, TableStutters
<1>12. CASE Create2
  <2>1. PICK j \in used : AddPathTo(marks["path"], j)
    BY <1>12 DEF Create2
  <2>2. UNCHANGED <<num, used, marks, disk>> /\ marks["path"] \in 0 .. num - 1
    BY <1>12 DEF Create2, Valid
  <2> QED
    BY <1>1, <1>2, <1>3, <2>1, <2>2, PathKeeps
<1>13. CASE Remove2
  <2>1. PICK j \in used : RemovePathTo(marks["path"], j)
    BY <1>13 DEF Remove2
  <2>2. UNCHANGED <<num, used, marks, disk>> /\ marks["path"] \in 0 .. num - 1
    BY <1>13 DEF Remove2, Valid
  <2> QED
    BY <1>1, <1>2, <1>3, <2>1, <2>2, RemoveKeeps
<1>14. CASE Jump
  BY <1>1, <1>2, <1>14, TakingOffKeeps DEF Jump, Marks, Marked
<1>15. CASE OnLadder
  BY <1>1, <1>2, <1>15, TakingOffKeeps DEF OnLadder, Marks, Marked
<1>16. CASE Land
  BY <1>1, <1>2, <1>16, LandingKeeps DEF Marked
<1>17. CASE OffLadder
  BY <1>1, <1>2, <1>17, LeavingLadderKeeps DEF Marked
<1>18. CASE JoinLadder
  BY <1>1, <1>2, <1>18, JoiningKeeps DEF Marked
<1>19. CASE Clear
  <2>1. UNCHANGED <<marks, disk>>
    BY <1>19 DEF Clear
  <2> QED
    BY <1>2, <1>3, <1>19, <2>1, ClearKeeps
<1>20. CASE Save
  <2>1. UNCHANGED marks
    BY <1>20 DEF Save
  <2> QED
    BY <1>1, <1>3, <1>20, <2>1, SaveKeeps
<1>21. CASE Load
  <2>1. LoadTable /\ UNCHANGED <<marks, disk>>
    BY <1>21 DEF Load, LoadTable
  <2> QED
    BY <1>1, <1>2, <1>3, <2>1, LoadKeeps
<1>22. CASE MapChange
  <2>1. LoadTable /\ UNCHANGED disk /\ marks' = [m \in Marks |-> NoWpt]
    BY <1>22 DEF MapChange, LoadTable
  <2>2. Marked'
    BY <2>1 DEF Marked
  <2> QED
    BY <1>1, <1>2, <2>1, <2>2, LoadKeeps
<1>23. CASE UNCHANGED vars
  <2>1. UNCHANGED <<tableVars, disk, marks>>
    BY <1>23 DEF vars, tableVars
  <2> QED
    BY <1>1, <1>2, <1>3, <2>1, TableStutters
<1> QED
  BY <1>5, <1>6, <1>7, <1>8, <1>9, <1>10, <1>11, <1>12, <1>13, <1>14, <1>15,
     <1>16, <1>17, <1>18, <1>19, <1>20, <1>21, <1>22, <1>23 DEF Next

(* The table, its marks and its file stay within their types, and the file *)
(* always holds a sound table.                                             *)
THEOREM SpecIInv == Spec => []IInv
<1>1. IInv /\ [Next]_vars => IInv'
  BY Step
<1> QED
  BY <1>1, InitIInv, PTL DEF Spec

(* Whatever is added, deleted, joined and loaded, slots, paths and marks   *)
(* have their types.                                                       *)
THEOREM TableTyped == Spec => []TypeOK
BY SpecIInv, InvTyped, PTL

(* A deletion (CWaypoints::deleteWaypoint) leaves no path to the slot, so  *)
(* no waypoint that gets the slot later inherits one.                      *)
THEOREM NoPathDangles == Spec => []NoPathToUnused
BY SpecIInv, InvTyped, PTL

(* m_PathsTo covers every path, and leads to slots getWaypoint knows.      *)
THEOREM LinksComplete == Spec => []BackLinksComplete
BY SpecIInv, InvTyped, PTL

(* The waypoint table implements the graph of WaypointGraph.               *)
THEOREM TableIsGraph == Spec => Refines
<1>1. IInv /\ [Next]_vars => [Graph!GraphNext]_Graph!graphVars
  BY Step
<1> QED
  BY <1>1, InitGraph, SpecIInv, PTL DEF Spec, Refines, Graph!GraphSpec
=============================================================================
