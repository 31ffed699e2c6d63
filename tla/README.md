# RCBot2 in TLA+

RCBot2 is a plugin for Source-engine game servers: it joins bots to a game and,
once per server frame, lets each of them think. This directory holds a formal
model of its core: how a bot decides what to do, how it finds its way, how many
bots there are, the squads they form, the waypoints they walk on, and the
control points they attack and defend in Team Fortress 2.
Modules are checked with TLC on small instances (`tlc -config X.cfg M`) and,
where the results do not depend on the instance, proved with TLAPS (`tlapm M`).
All paths below are under `src/utils/RCBot2_meta/`.

## 1. The system

The plugin is single threaded: the engine calls it in every frame
(`CBots::botThink`, which calls `CBot::think` for each bot in turn) and, between
these calls, for every game event and console command. What makes it hard is
therefore not parallel threads but **work spread over many frames** and **events
that change shared state in the middle of that work**: a path search that takes
fifty frames, a schedule interrupted by a shot, a command that throws away the
schedule whose task began the search.

| Component | State | Operations | Modelled by |
|---|---|---|---|
| Containers (`bot_genclass.h`) | head, tail, cells of a linked list | Add, AddFront, RemoveFront, Remove, IsMember, Destroy | `DataQueue`, `QueueSpec` |
| Navigator (`CWaypointNavigator` in `bot_waypoint.cpp`, `AStarNode`, `AStarOpenList` in `bot_navigator.h`) | node table, open list, route, current, previous and goal waypoint, failed goals and failed path | workRoute, updatePosition, failMove, rollBackPosition, clear | `RouteService`, `Navigator`, `RoutePort` |
| Schedules and tasks (`bot_schedule.*`, `bot_task.*`) | a queue of schedules, each a queue of tasks; `m_iInt` of the path task | addFront, removeSchedule, freeMemory, execute, removeTop; the tasks' execute | `BotMind` |
| Bot frame, HL2DM bot (`bot.cpp`, `bot_hldm_bot.cpp`) | conditions, current utility, `m_bFailNextMove` | think, checkStuck, getTasks, executeAction, hurt, spawnInit, hear, forceGotoWaypoint | `BotMind` |
| Bot manager (`CBots` in `bot.cpp`) | who is a bot with which profile, min/max bots, requests, the queue of players to take over, `m_pNextProfile` | addBot, createBot, controlBot, kickRandomBot, needToAddBot, needToKickBot, handlePlayerJoin, handleAutomaticControl, BotQuotaCheck | `BotManager` |
| Squads (`bot_squads.*`, the voice commands in `bot_dod_bot.cpp`) | leader and stack of each squad, `m_pSquad` of each bot | AddSquadMember, removeMember, RemoveSquad, ChangeLeader, died, FreeMemory | `Squads` |
| Waypoint table (`bot_waypoint.*`, the waypoint commands, autowaypointing in `bot_client.cpp`) | slots, paths and back links, the waypoints a client remembers, the file | add, delete, create, remove, load, save, init; jumping and climbing | `WaypointTable`, `WaypointGraph` |
| Visibility (`bot_waypoint_visibility.*`) | a bit for each pair, the cursor of the work, two files | workVisibility in every frame, addWaypoint, load, save | `WaypointVisibility` |
| TF2 and DOD bots (`bot_fortress.*`, `bot_dod_bot.*`) | the HL2DM state and the game's own | their getTasks, events and tasks | voice commands of DOD in `Squads`, a TF2 bot's areas in `ControlPoints`; else planned |
| TF2 objectives (`bot_tf2_points.*`, `bot_tf2_mod.*`, events in `bot_events.cpp`) | valid points and their signature, the point monitored, areas; flags, teleporters | updatePoints, think, setup, roundReset, the capture event; the areas of a bot | `ControlPoints`; flags, carts and teleporters are not modelled |
| Everything else | see `components` in `PROJECT.json` | text, I/O, offsets, floating-point learning | not modelled |

How they interact in a frame of a bot (`CBot::think`, bot.cpp:769ff):

    checkStuck -> getTasks -> m_pSchedules->execute -> listenForPlayers -> updatePosition
       |             |               |                        |                 |
    sets           flushes        first task of the       puts a noise       next waypoint
    m_bFail-       and refills    first schedule,         schedule in        of the route
    NextMove       the queue      may call workRoute      front

Between frames, being hurt puts a hiding schedule in front, death flushes the
queue, a command replaces it, and losing an enemy sets `CONDITION_CHANGED`,
upon which the next getTasks chooses again. All path tasks of a bot use the one
navigator of the bot, which knows nothing of tasks.

### What is hard, and what should hold

*Search over several frames.* workRoute stops after `MaxLoops` nodes and
continues in a later frame from the open list and the node flags. Should hold:
a node is in the open list at most once and never comes back to it
(`OpenListSound`, `NeverReopened`), so the search ends (`SearchEnds`); a route
that is reported leads along existing paths to the goal (`RouteLeadsToGoal`),
also when danger and teleports make the parents of the nodes a cycle; a failure
is justified (`FailureExplained`; the stronger `SearchComplete` is false).

*One navigator, many tasks.* A path task can be interrupted in any of its three
steps by another schedule whose path task restarts the search. Should hold: the
task that began the last search finds the search and the route its own
(`OwnRoute`). A task that waited does not: `ReachedGoal` is false.

*Events at any moment.* Should hold: however often a bot is hurt and hears
noises, its queue holds one schedule of each kind (`OneOfAKind`), its plan is
the last of them (`PlanAtBottom`), no schedule is left without tasks (part of
`TypeOK`), and a bot does not hide for ever (`HideEnds`).

*Orders that are carried out later.* A kick is a command the engine executes
after the frame; a puppet bot is ordered, joins, is marked as a fake client
frames later and only then taken over; meanwhile players leave, limits change
and the map ends. Should hold: a bot in use is a player (`BotsArePlayers`), one
that is taken over has a profile (`PuppetsHaveProfile`), adding and kicking come
to rest (`Settles`) with the numbers asked for (`LimitsReached`). That bots have
different profiles (`ProfilesDiffer`) is true only where they are created at
once.

*Membership kept twice.* A squad lists its followers, and every bot points to its
squad; voice commands, deaths and disconnects change one side or the other, and
handles of players who left stay behind in the lists. Should hold: no bot points
to a squad that was deleted (`PointersValid`), a bot follows in one squad, the
one it points to (`FollowersBelong`), the two sides differ only after the bot's
own death (`StrayOnlyByDeath`), and only a disconnect leaves a squad without its
leader (`LeaderlessOnlyByLeaving`) -- which then has followers who look for him.

*Slots used again.* Waypoints are numbers. A deleted slot is given to the next
waypoint, while paths, back links and the marks of clients hold the old number.
Should hold: no path leads to a deleted waypoint (`NoPathToUnused`), because the
back links cover all paths (`BackLinksComplete`), so that the table behaves as
a graph (`Refines` of WaypointTable).

*Work that the data changes under.* The visibility of all pairs is worked out over
many frames by a cursor, while waypoints come and go. Should hold: the work ends
(`WorkEnds`), and then the bits are right (`VisibilityRight`), whichever files
they came from. The two files of a map are written one after the other, and the second
may fail: then the bits must be right at least for the waypoints that are in both.

*News that come late, or not at all.* The game changes owners and locks of control
points, with an event or without; the plugin looks again 0.2 seconds after an
event, when a monitored point was lost, or after a minute, and tells the bots only
if a sum of bytes has changed. Should hold: bots have areas that are valid for their
team (`AreasCurrent`; the areas Red attacks are excepted, see below), what one team may attack the other is to defend (`AttackedAreDefended`),
different points have different sums (`SignatureTells`), the loss behind the one point
that is monitored for a team is not missed (`MonitorHonest`), and in the end all is
known (`CatchesUp`).

*Pointers.* Under all of this is a hand-written list: no cell leaks or dangles
(`Owned`), the tail follows (`TailIsLast`), and the list is a sequence
(`Refines` of DataQueue).

The full list, each at its line, is `hazards` in `PROJECT.json`.

## 2. The modules

The models are stacked. Each layer is used by the one above through a smaller
description of itself, and the descriptions are shown to be implemented:

    BotMind        a bot's schedules, tasks and frame      EXTENDS RoutePort
       |  proved: BotUsesPort (it asks no more of the navigator)
    RoutePort      the navigator as a task sees it         7 variables
       ^  proved: PortImplemented (every map);  checked: PortKept
    RouteService   what the navigator promises             any way to find a route
       ^  proved: SearchImplementsService (every map);  checked: Refines
    Navigator      the A* search, one node at a time       EXTENDS RouteService

    DataQueue      the linked list  --- proved: ListImplementsSequence --->  QueueSpec
    BotManager     which players are bots
    Squads         which bots follow whom
    ControlPoints  what TF2 teams attack and defend, and where their bots go

    WaypointTable  slots, paths, back links   --- proved: TableIsGraph --->  WaypointGraph
    WaypointVisibility  the work over frames, on the same table, without paths

**QueueSpec / DataQueue.** `dataQueue<T>`, cell by cell: `head`, `tail`, `next`
and `data` are the pointers and fields, `live` the cells that are allocated, so
that leaks and dangling pointers are visible. One action per member function.
The refinement maps the chain of cells to the sequence of their values.

**RouteService.** The state of `CWaypointNavigator` under the names of the code
without `m_i` (`goal`, `current`, `prev`, `route`, `working`, `failedGoals`,
`lastFailedPath`...), plus `phase`, which is "called" inside workRoute, and
`outcome`, what the last call returned. `Begin` is workRoute with `bRestart`
(with its two early failures), `Resume` without; between them and `Report` the
service may do anything `Explore` allows. `Answer` is the promise: pending, a
route from the bot's waypoint to the goal that avoids blocked waypoints and the
path that failed last, a failure, or the empty route of a cycle -- and a search
that is not in progress can only fail.

**Navigator.** Adds the search: `node` is `paths[]`, `open` the sorted open list,
`curr` and `iPath` the position in workRoute's two nested loops, so that a step
takes a node (`TakeNode`), tries one of its paths (`TryPath`) or closes it
(`CloseNode`). `Improves`, `CostVia`, `Reached` and `Enters` are the tests of
the loop body in their order, with the details that matter kept: danger is
added to a stored cost but not to the compared one, a teleport waypoint resets
or keeps the cost, the heuristic is set once. Heuristics are any of a few
values instead of distances. `waiting` records that a task got "pending" and
may call again; without it workRoute is never called without `bRestart`
(LoseWay says why rollBackPosition ends that).

**RoutePort.** The same object reduced to what a task can tell: is there a next
point (`ahead`), which goal was searched for last (`target`), does the way ahead
lead there (`leads`), what was touched last, and what workRoute returned.

**BotMind.** A Half-Life 2 deathmatch bot. `queue` is `m_pSchedules`; a schedule
is its kind, its remaining tasks, and `m_iInt` and the goal of its path task.
Tasks that only take time (look around, shoot at a place, use the gravity gun)
are "act": they go on, complete or fail. `stage` says how far the frame is, so
events come between frames and noises also at listenForPlayers. One action per
handler; `owner` is a history variable. Which action of the bot has the highest
utility is a free choice.

**BotManager.** `CBots` and the bot quota of the plugin. `player` is what the
engine knows of each slot (a "new" player is a fake client that is not marked
yet), `profile` is `m_Bots[]`: a bot in use has one. `kicked` are the players
for whom a kickid command is under way, `ready` says that `m_flAddKickBotTime`
is over, `requests` is the size of `m_AddBotQueue`, and `controlNext`,
`nextProfile` and `controlQueue` are the variables of the same names. A frame is
BotThink, HandleAutomaticControl, EndOfFrame, as in Hook_GameFrame; commands and
the coming and going of players are between frames, one action per handler.
Whether a name matches the expected puppet's, which free profile or bot is drawn
and which fake clients are marked when, are free choices. `ControlBots` selects
the games with puppets (TF2, DOD) or those with bots created at once. A command
that orders a puppet is executed at once (engine->ServerExecute), so the puppet
joins in the same step.

**Squads.** `squads` is `m_theSquads` from the top, `leader` and `members` the
fields of each squad (`members` is a stack of handles, `NoOne` one whose player
has left), `mySquad` the `m_pSquad` of each bot. A voice command is heard by all
bots in one call; the model gives every bot that obeys a step of its own, in any
order. Which bots obey is left open, as is whether two players are on one team.
`dying` is the player between `CBot::died` and the end of the death event, where
a leader is replaced. `strayed` is a history variable: the bots that died since
they came. A squad that ChangeLeader takes off the list is not deleted by the
code; the model may use its address again. `MaxMembers` bounds a stack, stale
handles included.

**WaypointGraph / WaypointTable.** The graph has nodes and edges, and a saved
copy. The table has slots: `num` is `m_iNumWaypoints`, `used` the slots with
`m_bUsed`, `paths` the pairs in `m_thePaths`, `back` the bag of `m_PathsTo`. One
action per editing command (delete and cut, in a radius as well, are single
deletions repeated; menus do what the commands do), and `Jump`, `Land`,
`OnLadder`, `OffLadder`, `JoinLadder` for a client that autowaypoints. `marks` is
what one client remembers in between. Which waypoint is nearest and which
ones autopath reaches are free choices. There is no step where the code would use a
NULL pointer (a jump whose table was cleared, a ladder without a mark). `disk` is
the file of the map; the table is also saved when the visibility is worked out,
which is the same `Save`. The mapping takes the slots in use for nodes; paths
that a *deleted* waypoint is given through a client's mark are no edges, since
nobody gets there, and they vanish when the slot is used again.

**WaypointVisibility.** `vis` are the bits, `from` and `to` the cursor, `work` the
flag, `wptFile` and `visFile` the two files. `WorkOn` is one frame; the code
returns before it advances the cursor, so the last pair of a frame is done again
in the next (with one pair a frame the work would never get on; the code has 64).
`Finish` ends the work and writes the bits and then the waypoints: none if the bits
cannot be written, or both, or the bits alone, since the result of save is not looked at
(bot_waypoint_visibility.cpp:96; a server that stops in between, and starts again with
`Clear` and `Load`, leaves the same). `moved` is a history
variable: the slots whose waypoint came or moved since the table was loaded.
For these addWaypoint works out one bit only (it passes TRUE as the number of
waypoints, bot_waypoint.cpp:2460), so nothing is promised of them. Bits that stay alone
may be read later with the old waypoint file; `Finish` then notes in `visFile.moved` the
waypoints that this file has elsewhere (`Differing`), and no others. A file cut short
while it is written is not modelled.

**ControlPoints.** `owner` and `open` (visible and unlocked) are what the plugin
reads from the game; `gameRound` is the game's round and `round` the one the plugin
remembers, which only a capture or a round start refreshes. The team arrays
`m_ValidPoints` are `validAttack` and `validDefend`; `signature` is the sum of their
bytes as the code has it: probabilities by the bytes of their floats, flags and
previous points, times the number of the point. `AttackPoints` and `DefendPoints` are
the two long loops; `Waits`, `NextPoints` and `IsAwaited` their flags bPrev,
bNextPoint and bfound. `ResetBots` follows updatePoints, where bots choose areas
between the updates of the arrays. Times are two flags, `checkDue` and `updateDue`
(m_fNextCheckMonitoredPoint, m_fUpdatePointTime). `SetOwner` and `Unlock` are the
game's own: the map may give points (`Given`) without an event and open any set of
`Openings`. `CapAreas` says which area the waypoint near a point
has. A task that finds its point done or not valid lets the bot choose again, and so does
a spawn: both are `UpdateAttackDefendPoints`. A round starts with the owners and open
points of one of `Starts`; the game's resource is found by then, and a player has spawned.
The probabilities with which a bot draws among valid points are any. `seen` is a history variable: the owners when the arrays were updated. Maps
with carts change the arrays further and are left out.

**SequenceLemmas, NavigatorProofs, BotMindProofs, BotManagerProofs, SquadProofs,
WaypointProofs, VisibilityProofs, ControlProofs** hold the proofs, those about the
list in BotMindProofs, before those about the queues that are made of it; **MCDataQueue,
MCNavigator, MCBotManager, MCSquads, MCWaypointTable, MCWaypointVisibility,
MCControlPoints** the instances.

## 3. What TLC checks

| Run | Question | Bounds | Distinct states |
|---|---|---|---|
| `queue` | Is the linked list a sequence without leaks? | 4 cells, 2 values | 750 (symmetric) |
| `triangle` | Every order of navigator calls; do parents lead back to the start? | 3 waypoints, one blocked, 2 nodes per call | 160 000 |
| `search` | One search, interrupted; do parents form a cycle? | 5 waypoints, every failed path, danger, a teleport, 2 nodes per call | 38 000 |
| `complete` | Does a search find what can be reached? **No** | 5 waypoints, no danger, 2 nodes per call | - |
| `mind` | What is in the queue, whose route is followed, does hiding end? | 2 waypoints, 2 actions | 910 000 |
| `reached` | Has a task that completes reached its goal? **No** | 2 waypoints, 1 action | - |
| `puppets` | Are bots players, with profiles? Do limits come to rest? | 2 slots, 1 profile, puppets, quota | 93 000 |
| `created` | Are profiles different, and does the manager come to rest? | 3 slots, 1 profile, created at once | 82 000 |
| `squads` | Do pointers, stacks and leaders stay in step? | 1 human, 3 bots, 2 squads, 3 handles a squad | 47 000 (symmetric) |
| `waypoints` | Do paths lead to waypoints? Is the table a graph? | 3 slots, 2 paths, 1 stale back link | 310 000 |
| `visibility` | Are the bits right, and does the work end? | 3 slots, 2 places, 3 pairs a frame | 802 000 |
| `points` | Do bots have valid areas? Do both teams agree on the points, does the sum tell them apart, and is all known in the end? | 3 points, 2 kinds of rounds, 2 bots | 35 000 |

Why these bounds are enough. *queue*: Remove distinguishes the first, a middle
and the last cell, the only cell, and duplicates; four cells and two values have
all of these. *triangle*: three waypoints are the fewest with a direct path, a
detour and a blocked waypoint in the middle; `MaxGoals` (2) bounds the goals
that are remembered as failed, and starts are 0, 1 or none. Two nodes per call
make every search end in the first or a later call. *search*: a map of five
waypoints with a detour, one blocked waypoint, a believed danger and a
teleport, the smallest we found where parents do form a cycle: without the
code's test (mutant `NoCycleTest`) the run fails. Any waypoint is start and goal
and any path is the one that failed. *complete* has a costly direct path, a cheap
detour and a dead end instead, and no danger. *mind*: hiding, noise and a plan
are all the schedules the queue can hold (this is proved), two waypoints tell two
goals apart; health has a path to an entity, enemy a plan that ends early.
*puppets*: two
slots hold a human and a player that waits, a bot and one that waits, or a slot
that changes hands while it is in the queue; the safety properties are proved
for any number. *created*: three slots leave one free below max_bots 2, so that
humans and bots compete. One profile beside the default makes profiles run out,
so that sharing shows at once. Numbers given to the commands are one below none,
one between and, but for *created*, one above the number of slots.
`MaxWaiting` (2) bounds stale entries of the queue: a
waiting player may go, or the map change, while the queue is shorter. *squads*:
three bots are the fewest that leave a squad in being when one dies, with a
second squad to go to; three handles in a stack let a stale one be counted or
lie on top. *waypoints*: in three slots one is freed and used again while the
other two keep paths and marks; the run keeps two paths, one of them saved, one
back link more than paths, and one mark or the two of a ladder, and what is
beyond is proved. *visibility*: three pairs a frame divide neither four nor nine
pairs, so rows and the table end in the middle of a frame and at its end; the
other map has two waypoints that do not see each other, and one waypoint
may be added or moved, and one be elsewhere or deleted. Bits stay alone only beside
waypoints with the flag (nobody reads them otherwise) and when no waypoint came or
moved; that is enough for another table's bits to be read: were `Differing` empty,
`VisibilityRight` would fail after nine steps. *points*: three
points are the fewest with a base at each end and one between them; Blue needs two
points for the last, Red one for the first, and the middle needs none, so each way of
finding a team's points occurs. Rounds start with a point for each team and one for
nobody, or with Red defending the first two points. The map may give the middle
point to nobody, and lock all but that. One bot of each team is enough, since bots do
not read each other's areas. Areas are set by hand in another order than the points, up to
the last that setup translates; `AreasStayCurrent`
says which other maps are safe.

### Fairness

`SearchEnds` (spec `FairSearch`): a call in progress goes on, because workRoute is
a loop that nothing interrupts; and a task that was told "pending" calls again,
because the schedule is executed in every frame. It is stated for a search that
no one restarts.

`HideEnds` (spec `FairSpec`): frames go on (weak fairness of Frame: the engine
calls the plugin). Three conditions are strong fairness, each for what a bounded
time in the code guarantees: a search that is continued is over at some time
(`SearchEnds`); tasks that look around or shoot have time limits (`ActEnds`);
and a bot that follows a route comes to its end or counts as stuck, since
checkStuck sets `m_bFailNextMove` when the waypoint is out of sight for two
seconds or not reached for fifteen (`WayEnds`). checkStuck returns at once
while the bot has an enemy, so the last condition leaves out a fight that never
ends; in such a fight a blocked bot can hide for ever.

`Settles` and `LimitsReached` (`FairSpec` of BotManager): frames go on, and -- as
they are called in every frame, but the rest happens only between frames --
under strong fairness time passes, the engine executes kickid commands and marks
fake clients. Both say what happens when nobody interferes any more
(neither `Disturbance` nor an act of the quota is repeated for ever). A player
who leaves by himself while
he is being kicked is the engine's step, not an interference; else a manager
that kicks and adds for ever would count as disturbed for ever.

`WorkEnds` (FairSpec of WaypointVisibility): frames go on, since workVisibility is
called in every frame while there is work. Tables that are loaded over and over
start the work anew and are excepted; waypoints added and deleted are not.

`CatchesUp` (FairSpec of ControlPoints): frames go on, and time passes, so that a check
and an update come due. It speaks of a game whose points rest for ever.

CHECK_DEADLOCK is off only in the runs of one search, which do stop.

### Disagreements found

* `complete`: workRoute loses the goal. If the goal is taken from the open list
  by the last loop of a call, `iLoops == iMaxLoops` (bot_waypoint.cpp:1149) makes
  it return "not finished yet"; the goal is not in the open list any more, and
  the next call reports "waypoint not found but searching is complete"
  (bot_waypoint.cpp:1175). `FailureExplained` says that this is the only way to
  miss a goal.
* `reached`: `complete(); // reached goal` (bot_task.cpp:2136) is not so. A path
  task that follows its route and then waits behind a hiding or noise schedule
  takes the end of that schedule's route for its own goal.

Known from reading the code, and followed by the models: createBot reports
"Can't create bot, max_bots reached" (bot.cpp:3154) and goes on to create it, so
that a later frame kicks one; and a puppet takes `m_pNextProfile` when it is
marked (bot.cpp:3679), so that two can share a profile although
getRandomFreeProfile returns one that is unused (bot_profile.cpp:181). Squads keep
handles because "players might leave" (bot_squads.h:222), but when a leader disconnects
nobody replaces him, and his followers ask for the place of a leader who is not there
(bot_dod_bot.cpp:3078, bot_squads.cpp:362). Of the control points: "if changed, bots must
also be updated" (bot_tf2_points.h:220), but resetRedAttack is a CBotFuncResetDefendPoint
(bot_tf2_points.cpp:50), so Red's bots choose an area to defend again and keep the one
they attack, which is why `AreasCurrent` speaks of Blue's only: it would notice another wrong wiring,
and takes this one as it is. The table from areas to
points has an entry for each of the MAX_CONTROL_POINTS areas (bot_tf2_points.h:227), but
the last is never entered (bot_tf2_points.cpp:376), and a point without a waypoint clears
the entry of another's area if old waypoints number them differently
(bot_tf2_points.cpp:382). "Still valid but very low probability of ever defending here"
(bot_tf2_points.cpp:588) is overwritten by the loop after the next. And a map is taken for
one of attack and defence if Red owns all points when a round starts, also in later
rounds, where it may not (bot_tf2_mod.cpp:1868). Of the visibility: "saving waypoints
with visibility information" (bot_waypoint_visibility.cpp:97) is printed also when save
has failed (bot_waypoint.cpp:1773); then the new bits stand beside an old waypoint file,
and if that has the flag and as many waypoints they are read for it. For example, this
map's file has two waypoints that see each other; another map's file, whose two do not, is
loaded and worked out, and only its bits are written; the next load of this map's file
takes them. `VisibilityRight` says that no other waypoints get wrong bits than those that
differ, as the second of the two does here.

## 4. What is proved

For every map, every cost and heuristic, every `MaxLoops`, every set of actions.

**The list** (BotMindProofs). `ListImplementsSequence`: for any number of cells and any
values the cells and pointers of dataQueue implement the sequence of QueueSpec, member
function by member function; `CellsStayOwned` and `TailStaysLast` say that nothing
leaks or dangles. The invariant is `QueueInv`: there is a sequence c of different
cells with `Links(c)` -- head and tail are its ends, each cell points to the next one,
and its cells are the allocated ones. The walk along the pointers (`CellAt`, `Chain`) is a
recursive function; `ChainIs` shows once, by a least counterexample, that it finds this c, and
after that every operation is about sequences: it puts one cell in or takes one out
(`PutIn`, `TakenOut`), so that there is one lemma per operation (`AddStep`,
`AddFrontStep`, `HeadUnlinked`, `LaterUnlinked`...) and `SequenceStep` collects them.
That a cell is not handed out twice follows from `live`; that the heap is finite is
assumed, since a walk of a list without end would not return.

**The search** (NavigatorProofs). `NavigatorTyped`, `OpenListIsSound`,
`TakenNodesStayOut` and `CostsGrow`. The inductive invariant is `SearchInv`: the
types of the search's variables, the soundness of the open list and that the
node being expanded is marked open -- nodes enter the list when they are marked
open, and stay marked, so none enters twice. `InsertFacts` says what the
sorted insertion does to the list's elements. `CostsGrow` says that costs never
fall along parents, on every map, but where the parent is believed dangerous or
one of the two is a teleport; there they do. Its invariant `CostInv` adds that
parents were marked open before their children.

`SearchStaysRooted`: while a search is in progress, also one that waits for the next
frame while the bot walks and forgets, every node that was reached has a parent that
was reached, over a path of the map, up to the start, and none is blocked.
`RoutesLeadToGoal` and `SearchImplementsService` follow: the walk back from the goal
collects a chain of such parents, so that it is a route from the start to the goal,
or stops, with nothing, where it has gone round a cycle. The walk is a recursive
function of the number of steps. `StepsExist` (SequenceLemmas) shows that such a
function exists, by a least counterexample (`LeastExists`), and the same argument
shows what each step of the walk keeps.

`FailuresAreExplained`: a search that gives up does so because no usable path leads to
the goal, or because of the count of loops (section 3), and for no third reason, though
paths are skipped, closed and opened again on the way. The invariant, `FailureInv`, is
the one of every such search: each usable path out of a closed node leads to a node that was
reached, up to the path at which the loop over the present node is (`TakenExplored`). So if
no node is open, what was reached is closed under usable paths and holds all of
`Reachable` (`ReachableInside`). The theorem has a hypothesis, `[][FailMove => ~working]_vars`, and it is
needed: failMove changes the path that is left out, so that nodes of a waiting search
were reached under another rule than the one its failure is judged by. In the
code failMove is called by a path task that follows its route only (bot_task.cpp:2144); it takes
another task's search, pending behind it, for this to happen in the middle of one.

`SearchesGetOn` is why searches end: each step of a search ends it or lowers, in
lexicographic order, the number of nodes not yet taken (`Untaken`) and how much of the
present one is left (`Stage`); nothing but a new search raises them.

**The port** (NavigatorProofs). `PortImplemented`: RouteService implements RoutePort;
every action of the service maps to one of the port or a stutter. It rests on
`RouteTyped` (the route is a sequence of waypoints); `EndOfTail` says that
advancing along a route does not change where it ends. With `SearchImplementsService`
it gives `SearchImplementsPort`, the composition: what is proved of BotMind holds of a
bot whose tasks use this search.

**The bot** (BotMindProofs). `MindTyped`, `OneSchedulePerKind`, `PlanIsLast`,
`RouteOfItsOwn`, all from one invariant

    Inv == TypeOK /\ Shape /\ Own /\ Routing

`Shape` is OneOfAKind and PlanAtBottom, inductive together. `Own` adds to
OwnRoute the reason for it, `OwnerOnTop`: while the owner of the last search
is interrupted, the schedules in front of it have not begun a search -- a
schedule that begins one becomes the owner. `Routing` ties the inside of a call
to workRoute to the first schedule. Every action on the queue is one of a few
`QueueStep`s (nothing, a schedule put in front, the first gone or with one task
less), and `PutInFrontFacts` says what removeSchedule and addFront do.

`BotUsesPort` is the other half of the composition with the navigator: BotMind
implements PortSpec, so it makes no call and takes no answer that the search does
not give. `OwnersAreRight` says where the comment "reached goal" (section 3) is
right: for the task that began the last search. `HidingProgresses` is the measure
behind `HideEnds`: unless the bot is hurt or hears a shot, the queue in front of its
hiding place gets shorter, or its first schedule has fewer tasks, or its path task is
no further back than it was (`Further`). So a bot that hides for ever does so in one task
that never ends, which is what the three fairness conditions speak of.

**The manager** (BotManagerProofs), for any number of slots, any profiles and
quota, with puppets or without. `ManagerTyped`, `BotsStayPlayers` and
`PuppetsProfiled` hold together in one invariant: a player is taken over with
`nextProfile`, so without PuppetsHaveProfile a bot could cease to be one, and a
kick go to no bot. `Counts` bounds the number of players and bots by the slots.
`ProfilesStayDifferent` is about servers that create bots at once: no player waits
to be taken over there (`Alone`), so a profile goes to the bot it was chosen for.
The bounds of the model (`MaxWaiting`) play no part in the proofs. `LimitsWorkTogether` is
the reason for `Settles`: no step of a frame or of the engine turns a need for more bots
into a need for fewer, or back, since a step brings or takes one player at most
(`OneMoreOrLess`), and between the numbers at which a bot is added and those at
which one is kicked there is one at which neither happens.

Assumptions are those stated in the modules (`NullAssumption`, `NodesAssumption`, `GraphAssumption`,
`WaypointsAssumption`, `PathsAssumption`, `CostAssumption`, `UtilsAssumption`, `ManagerAssumption`,
`BotsAssumption`, `IdsAssumption`, `MaxMembersAssumption`, `MaxWptsAssumption`,
`VisibilityAssumption`, `PointsAssumption`); TLC evaluates them.

**The squads** (SquadProofs), for any players and any number of squads.
`PointersStayValid`, `FollowersAgree`, `NobodyStrays` and `LeadersStay` come from one
invariant: the four properties, `SquadsOnce` (no squad is listed twice, so taking
one out of the list does unlist it) and `DyingStrayed` (a bot whose death is being
handled and that still has a squad counts as strayed). `Facts` says what the stacks of a bot that has left its
squad look like, whichever way it left; joining, founding and going nowhere are
then one lemma each.

**The waypoint table** (WaypointProofs), for a table of any size. `NoPathDangles` and
`LinksComplete` hold together, since a deletion is right only if the back links are
complete, and they are only complete if no path leads to a slot that will be
given away. `DiskSound` says the same of the file. `TableIsGraph` is the refinement,
one lemma per action; the bounds of MCWaypointTable play no part.

**Visibility** (VisibilityProofs), for any waypoints, places and ticks. `WorkIsRight`
needs two things more than the property: the pairs *before* the cursor are right
already while there is work, and the bits in the file are right for the waypoints in a
file with the flag (`FilesRight`) -- which the flag is there to tell, and which is true of
all of them when both files were written, and of those in both tables when the bits stayed
alone.
`WorkProgresses` is the measure behind `WorkEnds`: every frame that does not end the
work brings its cursor on, although the last pair is done again, and the table behind it grows
`MaxWpts` times at most.

**The control points** (ControlProofs), for any number of points, any order between
them, any rounds, openings and bots. `BothSidesAgree` needs no invariant but itself:
the two loops are compared point by point (`AttackedIsThreatened`). `MonitorsHeld`: a
point is monitored only while its previous points are held, or the arrays are new.
`AreasStayCurrent` has two hypotheses, and both are needed. `AreasAgree` is about the
map: no two points share an area, no area is the last one, and none is cleared by a
point without a waypoint; without it setup leaves areas that lead to no point (section 3). `SignatureTells`
is about the sum of bytes, which no proof can promise -- a sum of small numbers can
collide on some map -- and which the run `points` checks on one. The invariant
`AreaInv` adds that areas lead back to their points (`AreasTranslated`), and that before
the game's resource is found there is nothing to attack (`NothingYet`), since the
translation changes then under areas that bots may have. `UpdatesTakePlace` is the safety
half of `CatchesUp`: an update that is due is not called off by the events that set the
timers anew, it makes both teams' points right, and they stay so while the game rests.

**Only model-checked**: `SignatureTells`, and the liveness properties `SearchEnds`,
`HideEnds`, `Settles`, `LimitsReached`, `WorkEnds` and `CatchesUp`, since TLAPS has no
ENABLED here. For each of these but `LimitsReached` the theorems above give the part
that is not about fairness: the measure that steps lower and nothing raises, or what
cannot be undone. Every other property of a passing run is proved for all values of the
constants, with the hypotheses named.

## 5. Left out, and what comes next

Movement, aiming, fighting, weapons, what a bot sees, belief learning and file
formats are floating-point data or I/O and enter the models as free choices.
Memory that is never freed (removeSchedule, freeMemory) is noted among the
hazards and not modelled.

Plan, in this order:

1. `TeamMind` -- the TF2 handlers on the schedule queue, on the same port:
   addFront without removeSchedule, freeMemory inside handlers. Which of BotMind's
   invariants survive. It needs first a table of which of some forty schedules
   a bot of each class may choose.
2. `ControlPoints`: payload carts, which open the next point early, and Mann versus
   Machine. DOD's flags and bombs likewise.
3. Proofs: an abstract specification of the squads (who follows whom, without
   pointers and stacks) and its refinement; `SignatureTells` for one changed point.
