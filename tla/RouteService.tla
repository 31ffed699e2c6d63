---------------------------- MODULE RouteService ----------------------------
(***************************************************************************)
(* What the waypoint navigator promises to the tasks that use it           *)
(* (IBotNavigator in bot_navigator.h): workRoute is called, possibly over  *)
(* several frames, until it reports a route or a failure; updatePosition   *)
(* then leads the bot along the route one waypoint at a time.  How the     *)
(* route is found is left open here; module Navigator gives the search.    *)
(* The state belongs to one bot and is shared by all its tasks.            *)
(***************************************************************************)
EXTENDS Integers, Sequences

CONSTANTS Waypoints,  \* indices of the waypoints in use
          Edges,      \* <<u, v>> for every path from waypoint u to waypoint v
          Blocked     \* waypoints the bot may only enter when they are its goal

NoWpt == -1

ASSUME GraphAssumption ==
    /\ Waypoints \subseteq Nat
    /\ Edges \subseteq Waypoints \X Waypoints
    /\ Blocked \subseteq Waypoints

VARIABLES phase,          \* "called" while inside workRoute
          working,        \* m_bWorkingRoute
          goal,           \* m_iGoalWaypoint
          current,        \* m_iCurrentWaypoint: search start, then walk target
          prev,           \* m_iPrevWaypoint: the waypoint touched last
          route,          \* m_currentRoute, top of the stack first
          failedGoals,    \* m_iFailedGoals
          clearAt,        \* m_fNextClearFailedGoals # 0
          lastFailedWpt,  \* m_iLastFailedWpt
          lastFailedPath, \* m_lastFailedPath
          outcome         \* what the last workRoute call returned

searchVars == <<phase, working, goal, outcome>>
walkVars   == <<current, prev, route>>
memoryVars == <<failedGoals, clearAt, lastFailedWpt, lastFailedPath>>
navVars    == <<searchVars, walkVars, memoryVars>>

WptOrNone == Waypoints \cup {NoWpt}

\* An edge the search may take towards goal g.
Usable(u, v, g) ==
    /\ <<u, v>> \in Edges
    /\ v = g \/ v \notin Blocked
    /\ ~(lastFailedPath.valid /\ lastFailedPath.from = u /\ lastFailedPath.to = v)

\* r leads from s to g along usable edges.
IsRoute(s, r, g) ==
    LET full == <<s>> \o r
    IN  /\ r \in Seq(Waypoints)
        /\ full[Len(full)] = g
        /\ \A i \in 1 .. Len(r) : Usable(full[i], full[i + 1], g)

ServiceInit ==
    /\ phase = "idle" /\ working = FALSE /\ goal = NoWpt /\ outcome = "none"
    /\ current = NoWpt /\ prev = NoWpt /\ route = <<>>
    /\ failedGoals = {} /\ clearAt = FALSE /\ lastFailedWpt = NoWpt
    /\ lastFailedPath = [from |-> 0, to |-> 0, valid |-> FALSE, skipped |-> FALSE]

\* A goal looked up by position is never one that failed recently.
GoalAllowed(g, byId) ==
    g = NoWpt \/ byId \/ (g \notin failedGoals /\ g # lastFailedWpt)

\* workRoute with bRestart: g is the goal waypoint, given by the task or
\* looked up, and s the waypoint nearest to the bot.
Begin(g, s, byId) ==
    /\ phase = "idle"
    /\ GoalAllowed(g, byId)
    /\ goal' = g
    /\ UNCHANGED <<prev, route, failedGoals, clearAt, lastFailedPath>>
    /\ \/ /\ g = NoWpt
          /\ working' = FALSE /\ outcome' = "failed"
          /\ UNCHANGED <<phase, current, lastFailedWpt>>
       \/ /\ g # NoWpt /\ s = NoWpt
          /\ working' = FALSE /\ outcome' = "failed" /\ current' = NoWpt
          /\ UNCHANGED <<phase, lastFailedWpt>>
       \/ /\ g # NoWpt /\ s # NoWpt
          /\ working' = TRUE /\ phase' = "called" /\ current' = s
          /\ lastFailedWpt' = NoWpt
          /\ UNCHANGED outcome

\* workRoute without bRestart: go on with whatever search there is.
Resume ==
    /\ phase = "idle"
    /\ UNCHANGED <<goal, walkVars, memoryVars>>
    /\ IF goal = NoWpt \/ current = NoWpt
       THEN working' = FALSE /\ outcome' = "failed" /\ UNCHANGED phase
       ELSE phase' = "called" /\ UNCHANGED <<working, outcome>>

\* Waypoints that turn out to be reachable are no longer failed goals; the
\* search may also meet, and skip, the path it failed on last time.
Explore(reached, skips) ==
    /\ phase = "called"
    /\ failedGoals' = failedGoals \ reached
    /\ lastFailedPath' = [lastFailedPath EXCEPT !.skipped = @ \/ skips]
    /\ UNCHANGED <<searchVars, walkVars, clearAt, lastFailedWpt>>

Report(result) == phase = "called" /\ phase' = "idle" /\ outcome' = result

\* Out of loops for this frame.
ReturnPending ==
    /\ Report("pending")
    /\ UNCHANGED <<working, goal, walkVars, memoryVars>>

ReturnRoute(r) ==
    /\ Report("found")
    /\ working' = FALSE
    /\ route' = r
    /\ UNCHANGED <<goal, current, prev, memoryVars>>

RememberFailedGoal ==
    /\ failedGoals' = failedGoals \cup {goal}
    /\ clearAt' = (clearAt \/ goal \notin failedGoals)

ReturnFailed ==
    /\ Report("failed")
    /\ working' = FALSE
    /\ lastFailedPath' = [lastFailedPath EXCEPT !.valid = @ /\ ~lastFailedPath.skipped]
    /\ RememberFailedGoal
    /\ UNCHANGED <<goal, walkVars, lastFailedWpt>>

\* The goal was found but its parents form a cycle.
ReturnCycle ==
    /\ Report("failed")
    /\ working' = FALSE
    /\ route' = <<>>
    /\ UNCHANGED <<goal, current, prev, memoryVars>>

\* updatePosition: towards the next waypoint of the route when the bot has
\* touched the current one, unless a search is in progress; the failed goals
\* are forgotten when their time is over.
UpdatePosition(touched, expired) ==
    /\ phase = "idle" /\ current \in Waypoints
    /\ expired => clearAt
    /\ IF touched /\ ~working
       THEN /\ prev' = current
            /\ current' = IF route = <<>> THEN NoWpt ELSE Head(route)
            /\ route' = IF route = <<>> THEN <<>> ELSE Tail(route)
       ELSE UNCHANGED walkVars
    /\ failedGoals' = IF expired THEN {} ELSE failedGoals
    /\ clearAt' = (clearAt /\ ~expired)
    /\ UNCHANGED <<searchVars, lastFailedWpt, lastFailedPath>>

\* failMove: the bot got stuck on its way to the current waypoint.
FailMove ==
    /\ phase = "idle"
    /\ lastFailedWpt' = current
    /\ lastFailedPath' = [from |-> prev, to |-> current, valid |-> TRUE, skipped |-> FALSE]
    /\ RememberFailedGoal
    /\ UNCHANGED <<searchVars, walkVars>>

\* rollBackPosition: s is the waypoint nearest to the bot.  The loop over the
\* route runs until the route is empty; when it meets the current waypoint it
\* moves on to the one after it, if there is one.  A bot that ends up without
\* a waypoint takes the nearest one, again, that did not fail before.
RollBack(s, again) ==
    LET walk[i \in 0 .. Len(route)] ==
            IF i = 0 THEN [at |-> s, next |-> FALSE]
            ELSE IF walk[i - 1].next THEN [at |-> route[i], next |-> FALSE]
            ELSE [at |-> walk[i - 1].at, next |-> walk[i - 1].at = route[i]]
        last == walk[Len(route)].at
    IN  /\ phase = "idle"
        /\ s # lastFailedWpt \/ s = NoWpt
        /\ current' = IF last = NoWpt THEN again ELSE last
        /\ route' = <<>>
        /\ UNCHANGED <<prev, searchVars, memoryVars>>

\* clear: the route and the failed goals go, a search in progress stays.
Clear ==
    /\ phase = "idle"
    /\ route' = <<>> /\ failedGoals' = {}
    /\ UNCHANGED <<current, prev, searchVars, clearAt, lastFailedWpt, lastFailedPath>>

\* The promise: a search in progress, and no other, ends with a route that
\* leads from the bot's waypoint to the goal, or with a failure.
Answer ==
    \/ working /\ ReturnPending
    \/ working /\ IsRoute(current, route', goal) /\ ReturnRoute(route')
    \/ ReturnFailed
    \/ working /\ ReturnCycle

ServiceNext ==
    \/ \E g, s \in WptOrNone, byId \in BOOLEAN : Begin(g, s, byId)
    \/ outcome # "none" /\ Resume
    \/ \E W \in SUBSET Waypoints, b \in BOOLEAN : Explore(W, b)
    \/ Answer
    \/ \E t, e \in BOOLEAN : UpdatePosition(t, e)
    \/ current # NoWpt /\ FailMove
    \/ \E s, again \in WptOrNone : RollBack(s, again)
    \/ Clear

ServiceSpec == ServiceInit /\ [][ServiceNext]_navVars

\* What a task sees of this: the waypoint the way ahead ends at.
EndOf(s, r) == IF r = <<>> THEN s ELSE r[Len(r)]

Port == INSTANCE RoutePort WITH
            called <- phase = "called", busy <- working, target <- goal,
            ahead <- current # NoWpt,
            leads <- current # NoWpt /\ EndOf(current, route) = goal,
            last <- prev, answer <- outcome

(* The tasks' view of the navigator (RoutePort) is what the service keeps. *)
PortKept == Port!PortSpec
=============================================================================
