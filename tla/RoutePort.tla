----------------------------- MODULE RoutePort -----------------------------
(***************************************************************************)
(* The navigator as a task sees it: whether there is a next point, which   *)
(* search was begun last, and whether the way ahead leads to its goal.     *)
(* RouteService implements this module, Navigator implements RouteService  *)
(* (NavigatorProofs), and BotMind runs the tasks of a bot on top of it.     *)
(***************************************************************************)
EXTENDS Integers

CONSTANTS Waypoints  \* indices of the waypoints in use

NoWpt == -1

VARIABLES called, \* inside workRoute
          busy,   \* m_bWorkingRoute
          target, \* m_iGoalWaypoint: the goal of the search begun last
          ahead,  \* hasNextPoint
          leads,  \* the way ahead ends at the target
          last,   \* m_iPrevWaypoint: the waypoint touched last
          answer  \* what workRoute returned last

portVars == <<called, busy, target, ahead, leads, last, answer>>

PortInit ==
    /\ called = FALSE /\ busy = FALSE /\ ahead = FALSE /\ leads = FALSE
    /\ target = NoWpt /\ last = NoWpt /\ answer = "none"

\* workRoute with bRestart, which fails at once if there is no waypoint near
\* the goal or near the bot.  An old route stays until a new one is found.
PortRefuse(g) ==
    /\ ~called
    /\ busy' = FALSE /\ target' = g /\ answer' = "failed"
    /\ IF g = NoWpt
       THEN ahead' = ahead /\ leads' = FALSE
       ELSE ahead' = FALSE /\ leads' = FALSE
    /\ UNCHANGED <<called, last>>

PortBegin(g) ==
    /\ ~called /\ g # NoWpt
    /\ called' = TRUE /\ busy' = TRUE /\ target' = g
    /\ ahead' = TRUE /\ leads' \in BOOLEAN
    /\ UNCHANGED <<last, answer>>

\* workRoute without bRestart: whatever search was begun last goes on.
PortGiveUp ==
    /\ ~called
    /\ target = NoWpt \/ ~ahead
    /\ busy' = FALSE /\ answer' = "failed"
    /\ UNCHANGED <<called, target, ahead, leads, last>>

PortResume ==
    /\ ~called
    /\ target # NoWpt /\ ahead
    /\ called' = TRUE
    /\ UNCHANGED <<busy, target, ahead, leads, last, answer>>

PortReturn(result) ==
    /\ called /\ called' = FALSE
    /\ answer' = result
    /\ UNCHANGED <<target, ahead, last>>

PortPending == PortReturn("pending") /\ busy /\ UNCHANGED <<busy, leads>>
PortFoundStale == PortReturn("found") /\ busy /\ busy' = FALSE /\ UNCHANGED leads
PortFound   == PortReturn("found") /\ busy /\ busy' = FALSE /\ leads' = ahead
PortFailed  == PortReturn("failed") /\ busy' = FALSE /\ UNCHANGED leads

\* The parents of the goal form a cycle: no route, but the waypoint stays.
PortCycle ==
    /\ PortReturn("failed") /\ busy /\ busy' = FALSE
    /\ leads' \in BOOLEAN /\ (leads' => ahead)

\* updatePosition at a waypoint that was touched: on to the next one.
PortTouch(w) ==
    /\ ~called /\ ahead /\ ~busy
    /\ last' = w
    /\ ahead' \in BOOLEAN
    /\ IF ahead' THEN leads' = leads ELSE leads' = FALSE /\ (leads <=> w = target)
    /\ UNCHANGED <<called, busy, target, answer>>

\* rollBackPosition and clear: the route goes, the waypoint may change.
PortLoseWay ==
    /\ ~called
    /\ ahead' \in BOOLEAN /\ leads' \in BOOLEAN /\ (leads' => ahead')
    /\ UNCHANGED <<called, busy, target, last, answer>>

PortNext ==
    \/ \E g \in Waypoints \cup {NoWpt} : PortRefuse(g) \/ PortBegin(g)
    \/ PortGiveUp \/ PortResume
    \/ PortPending \/ PortFound \/ PortFailed \/ PortCycle
    \/ \E w \in Waypoints : PortTouch(w)
    \/ PortLoseWay

PortSpec == PortInit /\ [][PortNext]_portVars
=============================================================================
