------------------------------ MODULE BotMind ------------------------------
(***************************************************************************)
(* What a Half-Life 2 deathmatch bot does in a frame (CBot::think and      *)
(* CHLDMBot): it checks whether it is stuck, chooses a plan if it has none *)
(* or its mind changed, executes the first task of its first schedule,     *)
(* listens, and walks on.  Events between the frames -- being hurt, dying, *)
(* hearing a shot -- push schedules in front of the plan or flush them     *)
(* all.  All path tasks share the one navigator of the bot (RoutePort).    *)
(***************************************************************************)
EXTENDS RoutePort, SequencesExt, FiniteSets

CONSTANTS Utils \* the actions the bot may choose from

NoUtil == "none"

\* The schedules that carry out an action.  A bot that finds no cover to throw
\* its grenade from falls through to sniping.
PlansOf == [roam    |-> {"goto"},
            health  |-> {"fetch"},
            armor   |-> {"fetch"},
            enemy   |-> {"enemy"},
            grenade |-> {"grenade", "snipe"},
            snipe   |-> {"snipe"},
            gravgun |-> {"gravgun"}]

\* The tasks of a schedule: "path" finds and follows a route, "spot" looks for
\* a place to hide, "act" is any task that goes on for some time and ends.
TasksOf == [goto    |-> <<"path", "act">>,
            fetch   |-> <<"path", "act">>,
            enemy   |-> <<"path", "act">>,
            grenade |-> <<"act", "path">>,
            snipe   |-> <<"path", "act">>,
            gravgun |-> <<"act">>,
            order   |-> <<"path">>,
            hide    |-> <<"spot", "path">>,
            noise   |-> <<"path", "act">>]

Plans == DOMAIN TasksOf

Interrupts == {"hide", "noise"}

\* Schedules whose path ends early when the enemy comes into sight, and whose
\* path is to an entity, which may be reached before the route ends, or vanish.
EndsEarly == {"enemy"}
ToEntity  == {"fetch"}

ASSUME UtilsAssumption == Utils \subseteq DOMAIN PlansOf

VARIABLES queue,    \* m_pSchedules
          stage,    \* how far the frame is; "stuck" at its beginning
          changed,  \* CONDITION_CHANGED
          util,     \* m_CurrentUtil
          failNext, \* m_bFailNextMove
          owner     \* history: the plan whose path began a search last

mindVars == <<queue, stage, changed, util, failNext, owner>>
vars     == <<portVars, mindVars>>

\* step is m_iInt of the path task: 0 before it called workRoute, 1 while the
\* search goes on, 2 once it follows its route; goal is the waypoint that
\* workRoute took for its goal.
NewSchedule(p) == [plan |-> p, tasks |-> TasksOf[p], step |-> 0, goal |-> NoWpt]

Init ==
    /\ PortInit
    /\ queue = <<>> /\ stage = "stuck" /\ changed = FALSE /\ util = NoUtil
    /\ failNext \in BOOLEAN \* not initialised
    /\ owner = NoUtil

HasSchedule(p) == \E i \in DOMAIN queue : queue[i].plan = p

AddedAgain(p, q)  == <<NewSchedule(p)>> \o q
AddedAtBack(p, q) == Append(q, NewSchedule(p))

\* removeSchedule, which removes the first of its kind, and addFront.
PutInFront(p, q) ==
    LET places == {i \in DOMAIN q : q[i].plan = p}
        first  == CHOOSE i \in places : \A j \in places : i <= j
    IN  <<NewSchedule(p)>> \o IF places = {} THEN q ELSE RemoveAt(q, first)

Hurt ==
    /\ stage = "stuck"
    /\ queue' = PutInFront("hide", queue)
    /\ UNCHANGED <<portVars, stage, changed, util, failNext, owner>>

\* A shot is heard between two frames, or in one when the bot listens.
Hear ==
    /\ stage \in {"stuck", "listen"}
    /\ queue # <<>> => Head(queue).plan # "noise"
    /\ queue' = PutInFront("noise", queue)
    /\ stage' = IF stage = "listen" THEN "walk" ELSE stage
    /\ UNCHANGED <<portVars, changed, util, failNext, owner>>

HearNothing ==
    /\ stage = "listen" /\ stage' = "walk"
    /\ UNCHANGED <<portVars, queue, changed, util, failNext, owner>>

\* The schedules go, the navigator stays as it is.
Die ==
    /\ stage = "stuck"
    /\ queue' = <<>> /\ changed' = FALSE /\ util' = NoUtil
    /\ UNCHANGED <<portVars, stage, failNext, owner>>

\* The command that sends the bot to a waypoint.
ForceGotoWaypoint ==
    /\ stage = "stuck"
    /\ queue' = <<NewSchedule("order")>>
    /\ UNCHANGED <<portVars, stage, changed, util, failNext, owner>>

\* The enemy is lost, or a charger comes into sight.
MindChanges ==
    /\ stage = "stuck"
    /\ changed' = TRUE
    /\ UNCHANGED <<portVars, queue, stage, util, failNext, owner>>

\* A bot that is stuck on an object picks it up with its gravity gun.
StuckOnObject == ~HasSchedule("gravgun") /\ queue' = <<NewSchedule("gravgun")>>

CheckStuck ==
    /\ stage = "stuck" /\ stage' = "tasks"
    /\ failNext' \in BOOLEAN
    /\ UNCHANGED queue \/ StuckOnObject
    /\ UNCHANGED <<portVars, changed, util, owner>>

KeepTasks ==
    /\ stage = "tasks" /\ stage' = "execute"
    /\ ~changed /\ queue # <<>>
    /\ UNCHANGED <<portVars, queue, changed, util, failNext, owner>>

\* The best action is the one the bot carries out already, or the schedules
\* are flushed for the first action that can be carried out, if any.
GetTasks ==
    /\ stage = "tasks" /\ stage' = "execute"
    /\ changed \/ queue = <<>>
    /\ changed' = FALSE
    /\ \/ queue # <<>> /\ util \in Utils /\ UNCHANGED <<queue, util>>
       \/ /\ queue = <<>> \/ Utils # {util}
          /\ \/ queue' = <<>> /\ UNCHANGED util
             \/ \E u \in Utils : \E p \in PlansOf[u] : queue' = <<NewSchedule(p)>> /\ util' = u
    /\ UNCHANGED <<portVars, failNext, owner>>
-----------------------------------------------------------------------------
Current == Head(queue)

\* The first task of the first schedule is executed.
Executes(task) ==
    /\ stage = "execute" /\ queue # <<>>
    /\ Head(Current.tasks) = task

RemoveSchedule == queue' = Tail(queue)

LeaveEmpty == queue' = [queue EXCEPT ![1].tasks = Tail(@)]

\* The last task that completes takes its schedule with it.
CompleteTask ==
    queue' = IF Len(Current.tasks) = 1 THEN Tail(queue)
             ELSE [queue EXCEPT ![1] = [Current EXCEPT !.tasks = Tail(Current.tasks),
                                                   !.step = 0, !.goal = NoWpt]]

NothingToDo ==
    /\ stage = "execute" /\ queue = <<>>
    /\ stage' = "listen"
    /\ UNCHANGED <<portVars, queue, changed, util, failNext, owner>>

EndEarly ==
    /\ Executes("path") /\ Current.plan \in EndsEarly
    /\ stage' = "listen"
    /\ CompleteTask
    /\ UNCHANGED <<portVars, changed, util, failNext, owner>>

\* Some of these tasks ask, and thereby forget, whether the bot is stuck.
Act ==
    /\ Executes("act")
    /\ stage' = "listen"
    /\ UNCHANGED queue \/ CompleteTask \/ RemoveSchedule
    /\ failNext' \in {failNext, FALSE}
    /\ UNCHANGED <<portVars, changed, util, owner>>

FindHideSpot ==
    /\ Executes("spot")
    /\ stage' = "listen"
    /\ CompleteTask \/ RemoveSchedule
    /\ UNCHANGED <<portVars, changed, util, failNext, owner>>

WithPath(step, g) ==
    queue' = [queue EXCEPT ![1] = [Current EXCEPT !.step = step, !.goal = g]]

BeginPath(g) ==
    /\ Executes("path") /\ Current.step = 0
    /\ owner' = Current.plan
    /\ UNCHANGED <<changed, util>>
    /\ \/ /\ PortBegin(g)
          /\ WithPath(0, g)
          /\ stage' = "routing" /\ UNCHANGED failNext
       \/ /\ PortRefuse(g)
          /\ RemoveSchedule
          /\ stage' = "listen" /\ failNext' = FALSE

\* The search may be another's by now, begun while this task had to wait.
ResumePath ==
    /\ Executes("path") /\ Current.step = 1
    /\ UNCHANGED <<changed, util, owner>>
    /\ \/ /\ PortResume
          /\ stage' = "routing" /\ UNCHANGED <<queue, failNext>>
       \/ /\ PortGiveUp
          /\ RemoveSchedule
          /\ stage' = "listen" /\ failNext' = FALSE

\* workRoute returns.  With a new route the task is followed at once, and a
\* path to an entity may end there.
RouteReturns ==
    /\ stage = "routing" /\ stage' = "listen"
    /\ UNCHANGED <<changed, util, owner>>
    /\ \/ PortPending /\ WithPath(1, Current.goal) /\ UNCHANGED failNext
       \/ /\ PortFound
          /\ failNext' = FALSE
          /\ \/ WithPath(2, Current.goal)
             \/ Current.plan \in ToEntity /\ (CompleteTask \/ RemoveSchedule)
       \/ PortFailed /\ RemoveSchedule /\ failNext' = FALSE
       \/ PortCycle /\ RemoveSchedule /\ failNext' = FALSE

\* "Nowhere to go": there is no next point.
NowhereToGo ==
    /\ Executes("path") /\ Current.step = 2 /\ ~ahead
    /\ stage' = "listen"
    /\ CompleteTask
    /\ UNCHANGED <<portVars, changed, util, failNext, owner>>

NeverStuck == FALSE
IsStuck    == failNext

FollowRoute ==
    /\ Executes("path") /\ Current.step = 2 /\ ahead
    /\ stage' = "listen"
    /\ failNext' = FALSE
    /\ \/ ~IsStuck /\ UNCHANGED queue
       \/ IsStuck /\ RemoveSchedule
       \/ Current.plan \in ToEntity /\ (CompleteTask \/ RemoveSchedule)
    /\ UNCHANGED <<portVars, changed, util, owner>>

Execute ==
    \/ NothingToDo \/ EndEarly \/ Act \/ FindHideSpot
    \/ \E g \in Waypoints \cup {NoWpt} : BeginPath(g)
    \/ ResumePath \/ NowhereToGo \/ FollowRoute

\* updatePosition.
Walk ==
    /\ stage = "walk" /\ stage' = "stuck"
    /\ UNCHANGED portVars \/ \E w \in Waypoints : PortTouch(w)
    /\ UNCHANGED <<queue, changed, util, failNext, owner>>

Event == Hurt \/ Die \/ ForceGotoWaypoint \/ MindChanges

Frame == CheckStuck \/ KeepTasks \/ GetTasks \/ Execute \/ RouteReturns \/ HearNothing \/ Walk

Next == Event \/ Hear \/ Frame

Spec == Init /\ [][Next]_vars

\* The plugin is called in every frame.  Searches end (SearchEnds of module
\* Navigator) and looking around has a time limit.  A bot that follows its route
\* comes to the end of it, or does not see its waypoint for two seconds, or does
\* not reach it for fifteen, and counts as stuck; but not while it has an enemy,
\* when checkStuck does nothing: WayEnds leaves out a fight without end.
SearchOver == RouteReturns /\ ~busy'
ActEnds    == Act /\ queue' # queue
WayEnds    == (CheckStuck /\ failNext') \/ (Walk /\ ~ahead')

FairSpec ==
    /\ Spec
    /\ WF_vars(Frame)
    /\ SF_vars(SearchOver) /\ SF_vars(ActEnds) /\ SF_vars(WayEnds)
-----------------------------------------------------------------------------
Schedule == [plan : Plans, tasks : Seq({"path", "act", "spot"}) \ {<<>>},
             step : 0 .. 2, goal : Waypoints \cup {NoWpt}]

TypeOK ==
    /\ {called, busy, ahead, leads, changed, failNext} \subseteq BOOLEAN
    /\ {target, last} \subseteq Waypoints \cup {NoWpt}
    /\ answer \in {"none", "pending", "found", "failed"}
    /\ stage \in {"stuck", "tasks", "execute", "routing", "listen", "walk"}
    /\ util \in Utils \cup {NoUtil} /\ owner \in Plans \cup {NoUtil}
    /\ queue \in Seq(Schedule)

(* However often the bot is hurt and hears shots, it has one schedule for  *)
(* hiding and one for looking after a noise, and one plan behind them      *)
(* (removeSchedule before addFront; getTasks adds to an empty queue only). *)
OneOfAKind ==
    \A i, j \in DOMAIN queue : queue[i].plan = queue[j].plan => i = j

(* The plan of the bot is its last schedule; only reactions are in front.  *)
PlanAtBottom ==
    \A i \in DOMAIN queue : queue[i].plan \notin Interrupts => i = Len(queue)

(* A path task whose search was the last one to be begun has the navigator *)
(* to itself: the search in progress is for its goal, and so is the route  *)
(* it follows, up to the last waypoint.                                    *)
OwnRoute ==
    \A i \in DOMAIN queue :
        queue[i].plan = owner /\ queue[i].step > 0 =>
            /\ queue[i].goal = target
            /\ queue[i].step = 1 => busy /\ ahead
            /\ queue[i].step = 2 => ~busy /\ IF ahead THEN leads ELSE last = target

(* "complete(); // reached goal" (bot_task.cpp:2136): a path task that has *)
(* nowhere to go has reached its goal.                                     *)
ReachedGoal == [][NowhereToGo => last = Head(queue).goal]_vars

(* A bot that is hurt no more, and hears nothing new, does not hide for    *)
(* ever: it reaches its hiding place or gives up.                          *)
HideEnds == []<>~HasSchedule("hide") \/ []<><<Hurt \/ Hear>>_vars
=============================================================================
