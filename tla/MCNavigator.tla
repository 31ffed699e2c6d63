---------------------------- MODULE MCNavigator ----------------------------
(***************************************************************************)
(* Maps for Navigator.  The triangle has three waypoints, few enough   *)
(* for every order of calls; the ladder has five, among them a cheap       *)
(* detour, a dead end and a costly direct path, for one search of its own; *)
(* and the danger map one where the parents of a search form a cycle.      *)
(***************************************************************************)
EXTENDS Navigator

TriangleWaypoints == 0 .. 2
TrianglePaths == (0 :> <<1, 2>>) @@ (1 :> <<2>>) @@ (2 :> <<1, 0>>)
TriangleEdges == {<<u, v>> \in TriangleWaypoints \X TriangleWaypoints :
                     v \in Range(TrianglePaths[u])}
TriangleDist == [u \in TriangleWaypoints |-> [v \in TriangleWaypoints |->
                    IF {u, v} = {0, 1} THEN 3 ELSE 1]]
TriangleBelief == [w \in TriangleWaypoints |-> 0]

\* Bounds of the triangle: MaxGoals counts the goals that failed, together with
\* the present one; a bot starts near waypoint 0 or 1, or near none.
MaxGoals == 2
Goals  == {1, 2, NoWpt}
Starts == {0, 1, NoWpt}

TriangleNext ==
    /\ \/ \E g \in Goals, s \in Starts, byId \in BOOLEAN : StartRoute(g, s, byId)
       \/ ContinueRoute
       \/ TakeNode \/ TryPath \/ CloseNode
       \/ Return
       \/ Walk
       \/ LoseWay
    /\ Cardinality(failedGoals' \cup {goal'}) <= MaxGoals

TriangleSpec == Init /\ [][TriangleNext]_vars

LadderWaypoints == 0 .. 4
LadderPaths == (0 :> <<1, 2>>) @@ (1 :> <<0, 2, 3>>) @@ (2 :> <<1, 0, 4>>)
               @@ (3 :> <<1>>) @@ (4 :> <<>>)
LadderEdges == {<<u, v>> \in LadderWaypoints \X LadderWaypoints :
                   v \in Range(LadderPaths[u])}
LadderDist == [u \in LadderWaypoints |-> [v \in LadderWaypoints |->
                  IF {u, v} = {0, 1} THEN 4 ELSE 1]]
LadderBelief == [w \in LadderWaypoints |-> 0]

\* 1 is dangerous.  It may be expanded at cost 4 + 5, and then be reached more
\* cheaply from 2, which makes it dearer than before, and from its child 3.
DangerPaths == (0 :> <<1, 2>>) @@ (1 :> <<3>>) @@ (2 :> <<1>>) @@ (3 :> <<1, 4>>) @@ (4 :> <<>>)
DangerEdges == {<<u, v>> \in LadderWaypoints \X LadderWaypoints : v \in Range(DangerPaths[u])}
DangerDist == [u \in LadderWaypoints |-> [v \in LadderWaypoints |->
                  IF {u, v} = {0, 1} THEN 4 ELSE IF {u, v} = {0, 2} THEN 7 ELSE 1]]
DangerBelief == [w \in LadderWaypoints |-> IF w = 1 THEN 5 ELSE 0]

\* One search, from any waypoint to any other, with any failed path remembered.
OneSearchInit ==
    /\ phase = "idle" /\ working = FALSE /\ goal = NoWpt /\ outcome = "none"
    /\ current = NoWpt /\ prev = NoWpt /\ route = <<>>
    /\ failedGoals = {} /\ clearAt = FALSE /\ lastFailedWpt = NoWpt
    /\ lastFailedPath \in [from : Waypoints, to : Waypoints, valid : BOOLEAN,
                           skipped : {FALSE}]
    /\ lastFailedPath.valid \/ (lastFailedPath.from = 0 /\ lastFailedPath.to = 0)
    /\ node = [w \in Waypoints |-> FreshNode]
    /\ open = <<>> /\ curr = NoWpt /\ iPath = 1 /\ loops = 0 /\ lastNode = NoWpt /\ found = FALSE
    /\ waiting = FALSE

Search ==
    \/ outcome = "pending" /\ ContinueRoute
    \/ TakeNode \/ TryPath \/ CloseNode
    \/ Return

OneSearchNext ==
    \/ outcome = "none" /\ \E g, s \in Waypoints : StartRoute(g, s, TRUE)
    \/ Search

OneSearch == OneSearchInit /\ [][OneSearchNext]_vars

\* workRoute is a loop, which goes on until it returns; and a task that has to
\* continue a search is executed again in a later frame.
FairSearch == OneSearch /\ WF_vars(Search)
=============================================================================
