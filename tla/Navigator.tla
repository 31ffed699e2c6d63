------------------------------ MODULE Navigator ------------------------------
(***************************************************************************)
(* CWaypointNavigator of bot_waypoint.cpp: the A* search of workRoute,     *)
(* spread over frames.  A call expands at most MaxLoops nodes; the open    *)
(* list and the node records survive from one call to the next.  A step    *)
(* takes a node from the open list, or tries one of its paths, or closes   *)
(* it; while a call is running (phase = "called") nothing else happens,    *)
(* since the plugin is single threaded.                                    *)
(***************************************************************************)
EXTENDS RouteService, FiniteSets, SequencesExt

CONSTANTS Paths,         \* paths of a waypoint, in the order they were added
          Dist,          \* straight-line length of a path
          Belief,        \* cost added for danger believed at a waypoint
          TeleportCheat, \* waypoints flagged W_FL_TELEPORT_CHEAT
          Heuristics,    \* values the estimate of the remaining way may have
          MaxLoops       \* bot_pathrevs, doubled for a path without interruptions

ASSUME WaypointsAssumption == IsFiniteSet(Waypoints)

ASSUME PathsAssumption ==
    /\ Paths \in [Waypoints -> Seq(Waypoints)]
    /\ Edges = {e \in Waypoints \X Waypoints : e[2] \in Range(Paths[e[1]])}

ASSUME CostAssumption ==
    /\ Dist \in [Waypoints -> [Waypoints -> Nat]]
    /\ Belief \in [Waypoints -> Nat]
    /\ TeleportCheat \subseteq Waypoints
    /\ Heuristics \subseteq Nat
    /\ MaxLoops \in Nat \ {0}

VARIABLES node,     \* paths[]: the AStarNode of every waypoint
          open,     \* m_theOpenList, head first
          curr,     \* curr: the node whose paths are tried; NoWpt between nodes
          iPath,    \* number of the path to try next
          loops,    \* iLoops
          lastNode, \* iLastNode
          found,    \* bFoundGoal
          waiting   \* a find-path task has yet to continue a search it began

astarVars == <<node, open, curr, iPath, loops, lastNode, found, waiting>>
vars      == <<navVars, astarVars>>

FreshNode == [opened |-> FALSE, closed |-> FALSE, parent |-> NoWpt,
              cost |-> 0, heur |-> 0, heurSet |-> FALSE]

Init ==
    /\ ServiceInit
    /\ node = [w \in Waypoints |-> FreshNode]
    /\ open = <<>> /\ curr = NoWpt /\ iPath = 1 /\ loops = 0 /\ lastNode = NoWpt /\ found = FALSE
    /\ waiting = FALSE

Estimate(nodes, w) == nodes[w].cost + nodes[w].heur

\* AStarOpenList::add: in front of the first entry that it precedes.
Insert(list, nodes, w) ==
    LET after == {i \in DOMAIN list : Estimate(nodes, w) < Estimate(nodes, list[i])}
        at    == IF after = {} THEN Len(list) + 1
                 ELSE CHOOSE i \in after : \A j \in after : i <= j
    IN  InsertAt(list, at, w)

CallLocals ==
    /\ curr' = NoWpt /\ iPath' = 1 /\ loops' = 0
    /\ lastNode' = NoWpt /\ found' = FALSE /\ waiting' = waiting

StartRoute(g, s, byId) ==
    /\ Begin(g, s, byId)
    /\ CallLocals
    /\ IF g = NoWpt \/ s = NoWpt
       THEN UNCHANGED <<node, open>>
       ELSE \E h \in Heuristics :
              /\ node' = [w \in Waypoints |-> IF w = s
                            THEN [FreshNode EXCEPT !.opened = TRUE, !.heur = h,
                                                   !.heurSet = TRUE]
                            ELSE FreshNode]
              /\ open' = <<s>>

\* As ContinueRoute, if it were called with bRestart.
ContinueFromStart ==
    /\ waiting
    /\ Resume
    /\ CallLocals
    /\ node' = [w \in Waypoints |-> [FreshNode EXCEPT !.opened = (w = current)]]
    /\ open' = <<current>>

ContinueRoute ==
    /\ waiting
    /\ Resume
    /\ CallLocals
    /\ UNCHANGED <<node, open>>

OneLoopMore == loops <= MaxLoops
LoopsLeft   == loops < MaxLoops

\* The head of the open list is taken; the search is over if it is the goal.
TakeNode ==
    /\ phase = "called" /\ curr = NoWpt /\ ~found /\ open # <<>> /\ LoopsLeft
    /\ loops' = loops + 1
    /\ open' = Tail(open)
    /\ iPath' = 1
    /\ UNCHANGED <<node, lastNode, waiting>>
    /\ IF Head(open) = goal
       THEN found' = TRUE /\ UNCHANGED <<navVars, curr>>
       ELSE found' = FALSE /\ curr' = Head(open) /\ Explore({Head(open)}, FALSE)

\* Cost of reaching v through curr.
CostVia(v) ==
    IF curr \in TeleportCheat THEN node[curr].cost
    ELSE IF v \in TeleportCheat THEN Dist[curr][v]
    ELSE node[curr].cost + Dist[curr][v]

FailedLastTime(v) ==
    lastFailedPath.valid /\ lastFailedPath.from = curr /\ lastFailedPath.to = v

\* canGotoWaypoint, which is not asked about the goal.
EnterAny(v)     == TRUE
NeverBlocked(v) == v \notin Blocked
MayEnter(v)     == v = goal \/ v \notin Blocked

AlwaysImproves(v) == TRUE

\* Only a node that was not met before, or that this way makes cheaper.
Improves(v) ==
    \/ ~node[v].opened /\ ~node[v].closed
    \/ node[v].parent # NoWpt /\ CostVia(v) < node[v].cost

\* The record of v when it is reached through curr; h is the heuristic, which
\* keeps its value once it is set.
Reached(v, h) ==
    [opened |-> TRUE, closed |-> FALSE, parent |-> curr, cost |-> CostVia(v) + Belief[v],
     heur |-> IF node[v].heurSet THEN node[v].heur ELSE h, heurSet |-> TRUE]

\* Whether a node that is reached enters the open list: once in a search.
AlwaysEnters(v)   == TRUE
EntersIfClosed(v) == ~node[v].opened \/ node[v].closed
Enters(v)         == ~node[v].opened

TryPath ==
    /\ phase = "called" /\ curr # NoWpt /\ iPath <= Len(Paths[curr])
    /\ iPath' = iPath + 1
    /\ UNCHANGED <<curr, loops, lastNode, found, waiting>>
    /\ LET v == Paths[curr][iPath]
           skip == v # lastNode /\ v # curr /\ FailedLastTime(v)
       IN  /\ Explore({}, skip)
           /\ IF v # lastNode /\ v # curr /\ ~skip /\ MayEnter(v) /\ Improves(v)
              THEN \E h \in Heuristics :
                     /\ node' = [node EXCEPT ![v] = Reached(v, h)]
                     /\ open' = IF Enters(v) THEN Insert(open, node', v) ELSE open
              ELSE UNCHANGED <<node, open>>

CloseNode ==
    /\ phase = "called" /\ curr # NoWpt /\ iPath > Len(Paths[curr])
    /\ node' = [node EXCEPT ![curr].closed = TRUE]
    /\ lastNode' = curr /\ curr' = NoWpt
    /\ UNCHANGED <<navVars, open, iPath, loops, found, waiting>>

BackTraceFromParent == IF node[goal].parent = NoWpt THEN <<>> ELSE <<node[goal].parent>>

\* The parents from the goal back to the search start, start excluded; longer
\* than the number of waypoints when they form a cycle.
BackTrace ==
    LET back[k \in 0 .. Cardinality(Waypoints)] ==
          IF k = 0 THEN <<goal>>
          ELSE LET b == back[k - 1]
               IN  IF Head(b) = current THEN b
                   ELSE IF Head(b) = NoWpt THEN b
                   ELSE <<node[Head(b)].parent>> \o b
        full == back[Cardinality(Waypoints)]
    IN  IF Head(full) \in {current, NoWpt} THEN Tail(full) ELSE full

NoCycleTest == FALSE
CycleFound  == Len(BackTrace) > Cardinality(Waypoints)

SearchOver == curr = NoWpt /\ (found \/ open = <<>> \/ ~LoopsLeft)

\* "not finished yet, wait for next iteration"
OutOfLoops == loops = MaxLoops

Return ==
    /\ phase = "called" /\ SearchOver
    /\ UNCHANGED <<node, curr, iPath, loops, lastNode, found>>
    /\ waiting' = (waiting \/ OutOfLoops)
    /\ IF OutOfLoops
       THEN ReturnPending /\ UNCHANGED open
       ELSE /\ open' = <<>>
            /\ IF ~found THEN ReturnFailed
               ELSE IF CycleFound THEN ReturnCycle
               ELSE ReturnRoute(BackTrace)

Walk ==
    /\ UNCHANGED astarVars
    /\ \/ \E touched, expired \in BOOLEAN : UpdatePosition(touched, expired)
       \/ current # NoWpt /\ outcome # "none" /\ FailMove
       \/ Clear

\* Called only by the medic's healing task, whose schedule replaced all others
\* when it started: no task is left that could continue a search.
LoseWay ==
    /\ \E s, again \in WptOrNone : RollBack(s, again)
    /\ waiting' = FALSE
    /\ UNCHANGED <<node, open, curr, iPath, loops, lastNode, found>>

Next ==
    \/ \E g, s \in WptOrNone, byId \in BOOLEAN : StartRoute(g, s, byId)
    \/ ContinueRoute
    \/ TakeNode \/ TryPath \/ CloseNode
    \/ Return
    \/ Walk
    \/ LoseWay

Spec == Init /\ [][Next]_vars
-----------------------------------------------------------------------------
NodeRecord == [opened : BOOLEAN, closed : BOOLEAN, parent : WptOrNone,
               cost : Nat, heur : Nat, heurSet : BOOLEAN]

SearchTypeOK ==
    /\ phase \in {"idle", "called"} /\ found \in BOOLEAN
    /\ goal \in WptOrNone /\ curr \in WptOrNone /\ lastNode \in WptOrNone
    /\ open \in Seq(Waypoints)
    /\ loops \in 0 .. MaxLoops /\ iPath \in Nat \ {0}
    /\ node \in [Waypoints -> NodeRecord]

WalkTypeOK ==
    /\ outcome \in {"none", "pending", "found", "failed"}
    /\ working \in BOOLEAN /\ waiting \in BOOLEAN
    /\ {current, prev, lastFailedWpt} \subseteq WptOrNone
    /\ route \in Seq(Waypoints)
    /\ failedGoals \subseteq WptOrNone /\ clearAt \in BOOLEAN
    /\ lastFailedPath \in [from : Int, to : Int, valid : BOOLEAN, skipped : BOOLEAN]

TypeOK == SearchTypeOK /\ WalkTypeOK

(* Every node enters the open list at most once, so the list holds no node *)
(* twice and only nodes that are marked open (open(), AStarNode::isOpen).  *)
OpenListSound ==
    /\ IsInjective(open)
    /\ \A i \in DOMAIN open : node[open[i]].opened

Taken(w) == node[w].opened /\ w \notin Range(open)

(* A node taken from the open list never comes back during one search:     *)
(* this is what makes the search end.                                      *)
NeverReopened ==
    [][node' # node /\ phase = "called"
          => \A w \in Waypoints : Taken(w) => w \notin Range(open')]_vars

\* The parents of the nodes that were met lead back to the start of the search,
\* which has none, along paths the bot may use on its way to the goal.
Rooted ==
    /\ goal \in Waypoints /\ current \in Waypoints
    /\ node[current].opened /\ node[current].parent = NoWpt
    /\ \A w \in Waypoints : node[w].opened /\ w # current =>
          /\ node[w].parent \in Waypoints /\ node[node[w].parent].opened
          /\ Usable(node[w].parent, w, goal)

Searching == open # <<>> \/ curr # NoWpt \/ found \/ loops > 0

(* A call that searches works for a task, and for the goal and the start   *)
(* its parents were recorded for: neither walking, nor getting stuck, nor  *)
(* losing the way between two calls puts it on another search's tree.      *)
SearchRooted == phase = "called" /\ Searching => working /\ Rooted

(* While the bot follows a route that was found, what is left of it leads  *)
(* along existing paths from the current waypoint to the goal.             *)
RouteLeadsToGoal ==
    phase = "idle" /\ outcome = "found" /\ route # <<>> =>
        LET full == <<current>> \o route
        IN  /\ Last(route) = goal
            /\ \A i \in 1 .. Len(route) : <<full[i], full[i + 1]>> \in Edges

Reachable ==
    LET within[k \in 0 .. Cardinality(Waypoints)] ==
          IF k = 0 THEN {current}
          ELSE within[k - 1] \cup
                 {v \in Waypoints : \E u \in within[k - 1] : Usable(u, v, goal)}
    IN  within[Cardinality(Waypoints)]

GivesUp == phase = "called" /\ working /\ SearchOver /\ ~OutOfLoops /\ ~found

(* A search that was in progress gives up only on a goal that the usable   *)
(* paths do not reach -- or that it had already taken from the open list.  *)
FailureExplained ==
    [][GivesUp /\ Return => goal \notin Reachable \/ Taken(goal)]_vars

(* "waypoint not found but searching is complete" (bot_waypoint.cpp:1175)   *)
SearchComplete == [][GivesUp /\ Return => goal \notin Reachable]_vars

\* A path whose start is not believed dangerous and whose ends are no teleports.
Plain(p, w) == Belief[p] = 0 /\ {p, w} \cap TeleportCheat = {}

(* Along a plain path a node is never cheaper than its parent plus the way *)
(* between them, although the parent may have become cheaper since, and so *)
(* a cycle of parents, which workRoute has to find when it follows them,   *)
(* needs a danger or a teleport.  Danger is left out when costs are        *)
(* compared but added when they are stored, so a dangerous parent may grow *)
(* dearer than its children.                                               *)
CostsGrowAlongParents ==
    \A w \in Waypoints : node[w].parent # NoWpt /\ Plain(node[w].parent, w) =>
        node[w].cost >= node[node[w].parent].cost + Dist[node[w].parent][w]

(* A search that was begun, and is continued in every frame, comes to an   *)
(* end.                                                                    *)
SearchEnds == working ~> ~working

(* The search implements what tasks rely on.                               *)
Refines == ServiceSpec
=============================================================================
