--------------------------- MODULE ControlPoints ---------------------------
(***************************************************************************)
(* The control points of Team Fortress 2 as the plugin knows them          *)
(* (CTFObjectiveResource of bot_tf2_points.cpp).  The game owns, opens and *)
(* locks points; the plugin works out which points each team may attack    *)
(* and should defend, keeps the result, and looks again when an event or a *)
(* timer says so.  A bot is given an area to attack and one to defend, and *)
(* others only when the signature of the points it was chosen from has     *)
(* changed.  Maps with a payload cart are left out.                        *)
(***************************************************************************)
EXTENDS Integers, Sequences, FiniteSetsExt

CONSTANTS NumPoints,   \* m_iNumControlPoints
          MaxPoints,   \* MAX_CONTROL_POINTS
          CanCap,      \* m_bTeamCanCap: the points a team can capture
          Previous,    \* m_iPreviousPoints of a team and a point, up to the first -1
          Base,        \* m_iBaseControlPoints
          Openings,    \* the sets of points that are visible and unlocked together
          Given,       \* points that the map gives to a team, or to nobody, by itself
          Starts,      \* how rounds start: owners, open points, points of the round
          CapAreas,    \* areas of the capture waypoints near the points, or NoWpt
          Bots,
          Team         \* of each bot

Red   == 2   \* TF2_TEAM_RED
Blue  == 3   \* TF2_TEAM_BLUE
Teams == {Red, Blue}
Nobody == 0
NoWpt   == -1
NoPoint == -1

Other(t) == IF t = Red THEN Blue ELSE Red

Points == 0 .. NumPoints - 1
Areas  == 1 .. MaxPoints

ASSUME PointsAssumption ==
    /\ NumPoints \in Nat \ {0} /\ MaxPoints \in Nat /\ NumPoints <= MaxPoints
    /\ CanCap \in [Teams -> SUBSET Points]
    /\ Previous \in [Teams -> [Points -> Seq(Points)]]
    /\ \A t \in Teams, i \in Points : Len(Previous[t][i]) <= 3
    /\ Base \in [Teams -> Int]
    /\ Openings \subseteq SUBSET Points
    /\ Given \subseteq Points \X (Teams \cup {Nobody})
    /\ Starts \subseteq [owner : [Points -> Teams \cup {Nobody}],
                        open : SUBSET Points, round : SUBSET Points]
    /\ CapAreas \subseteq [Points -> Areas \cup {NoWpt, 0}]
    /\ Team \in [Bots -> Teams]

VARIABLES owner, open,    \* the game: who owns a point, which are visible and unlocked
          gameRound,      \* the game: the points of its round
          round,          \* points of m_pCurrentRound, or all while it is NULL
          attackDefend,   \* m_bAttackDefendMap
          ready,          \* m_bInitialised
          areaOf, pointOf, \* m_IndexToWaypointAreaTranslation and its inverse
          validAttack, validDefend, \* m_ValidPoints
          signature,      \* m_PointSignature
          monitor,        \* m_iMonitorPoint
          checkDue,       \* m_fNextCheckMonitoredPoint is over
          updateDue,      \* m_fUpdatePointTime is over
          attackArea, defendArea, \* m_iCurrentAttackArea, m_iCurrentDefendArea of a bot
          seen            \* history: the owners when the points were updated last

gameVars   == <<owner, open, gameRound>>
roundVars  == <<round, attackDefend>>
areaVars   == <<ready, areaOf, pointOf>>
pointVars  == <<validAttack, validDefend, signature, monitor, seen>>
timerVars  == <<checkDue, updateDue>>
botVars    == <<attackArea, defendArea>>
vars == <<gameVars, roundVars, areaVars, pointVars, timerVars, botVars>>

\* A new map: mapInit and reset().
Init ==
    /\ \E s \in Starts : owner = s.owner /\ open = s.open /\ gameRound = s.round
    /\ round = Points /\ attackDefend = FALSE
    /\ ready = FALSE
    /\ areaOf = [i \in Points |-> 0] /\ pointOf = [a \in Areas |-> 0]
    /\ validAttack = [t \in Teams |-> {}] /\ validDefend = [t \in Teams |-> {}]
    /\ signature = [t \in Teams |-> [attack |-> 0, defend |-> 0]]
    /\ monitor = [t \in Teams |-> NoPoint]
    /\ checkDue = TRUE /\ updateDue = TRUE
    /\ attackArea = [b \in Bots |-> 0] /\ defendArea = [b \in Bots |-> 0]
    /\ seen = owner
-----------------------------------------------------------------------------
\* Which points a team may attack and should defend.

Available == open \cap round

\* The points that t could take if it is their turn.
Takeable(t) == {i \in Available \cap CanCap[t] : owner[i] # t}

NeedsPrevious(t, i) == Previous[t][i] # <<>> /\ Head(Previous[t][i]) # i

PreviousOwned(t, i) == \A k \in DOMAIN Previous[t][i] : owner[Previous[t][i][k]] = t

\* bPrev: it is not the turn of i yet.
Waits(t) == {i \in Takeable(t) : NeedsPrevious(t, i) /\ ~PreviousOwned(t, i)}

\* Without previous points a team works its way to the enemy's base, if that
\* is the first or the last point.
AtFront(t, i) ==
    CASE Base[Other(t)] = 0 -> \A j \in Points : j > i => owner[j] = t
      [] Base[Other(t)] = NumPoints - 1 /\ NumPoints > 1 -> \A j \in Points : j < i => owner[j] = t
      [] OTHER -> TRUE

\* Red has nothing to attack on a map where it defends.
NoAttack(t) == t = Red /\ attackDefend

AttackPoints(t) ==
    {i \in Takeable(t) \ Waits(t) :
        ~NoAttack(t) /\ (Previous[t][i] = <<>> => attackDefend \/ AtFront(t, i))}

\* Mutant: points that need others are waiting whoever owns these.
NeedingPoints(t) ==
    {i \in open \cap round \cap CanCap[Other(t)] : owner[i] = t /\ NeedsPrevious(Other(t), i)}

\* Points of t the other team could take; it defends those whose turn it is, and
\* a point that waits for one of them only (bNextPoint).
Threatened(t) == {i \in Available \cap CanCap[Other(t)] : owner[i] = t}
WaitingPoints(t) == Threatened(t) \cap Waits(Other(t))

NextPoints(t) ==
    {i \in WaitingPoints(t) :
        LET prev == Previous[Other(t)][i]
        IN  Cardinality({k \in DOMAIN prev : prev[k] \in Threatened(t) \ WaitingPoints(t)}) = 1}

DefendPoints(t) == (Threatened(t) \ WaitingPoints(t)) \cup NextPoints(t)
-----------------------------------------------------------------------------
\* Probabilities, and the signature made of them.

\* Whether t has a point that waits for i.
IsAwaited(t, i, waiting) ==
    \E j \in waiting \ {i} : \E k \in DOMAIN Previous[t][j] : Previous[t][j][k] = i

\* Sums of the bytes of 1.0f, 0.1f, bot_defrate (0.24f) and its half.
FloatBytes == [one |-> 191, tenth |-> 674, rate |-> 516, halfRate |-> 643]

Bit(b) == IF b THEN 1 ELSE 0

\* iPrev: three numbers, which are -1 where they are not set.
PrevBytes(t, i, written) ==
    IF ~written THEN 3 * 1020
    ELSE (3 - Len(Previous[t][i])) * 1020
         + MapThenSumSet(LAMBDA k : Previous[t][i][k], DOMAIN Previous[t][i])

\* Every point has probability 1, but a valid one that no other waits for a tenth.
AttackSignature(t) ==
    LET valid   == AttackPoints(t)
        waiting == Waits(t)
        prob(i) == IF i \in valid /\ ~IsAwaited(t, i, waiting) THEN "tenth" ELSE "one"
        cell(i) == FloatBytes[prob(i)] + Bit(i \in valid) + Bit(i \in waiting)
                   + PrevBytes(t, i, i \in Takeable(t) /\ NeedsPrevious(t, i))
    IN  MapThenSumSet(LAMBDA i : (i + 1) * cell(i), Points)

\* Likewise, but a next point has the low rate.
DefendCell(t, i, valid, waiting, next, lowRate) ==
    LET enemy == Other(t)
        prob  == IF i \in next THEN lowRate
                 ELSE IF i \in valid /\ ~IsAwaited(enemy, i, waiting) THEN "tenth" ELSE "one"
    IN  FloatBytes[prob] + Bit(i \in valid) + Bit(i \in next) + Bit(i \in waiting)
        + PrevBytes(enemy, i, i \in Threatened(t) /\ NeedsPrevious(enemy, i))

\* Mutant: the place of a point does not count.
PlainSignature(t, lowRate) ==
    LET valid   == DefendPoints(t)
        waiting == WaitingPoints(t)
        next    == NextPoints(t)
    IN  MapThenSumSet(LAMBDA i : DefendCell(t, i, valid, waiting, next, lowRate), Points)

DefendSignature(t, lowRate) ==
    LET valid   == DefendPoints(t)
        waiting == WaitingPoints(t)
        next    == NextPoints(t)
    IN  MapThenSumSet(
            LAMBDA i : (i + 1) * DefendCell(t, i, valid, waiting, next, lowRate), Points)
-----------------------------------------------------------------------------
\* The areas that bots are given.

\* getRandomValidPointForTeam: the area of any valid point.
AnyArea(valid) == IF valid = {} THEN {0} ELSE {areaOf[i] : i \in valid}

\* Every bot chooses from its own set.
OneOfEach(sets) ==
    {f \in [Bots -> UNION {sets[b] : b \in Bots}] : \A b \in Bots : f[b] \in sets[b]}

\* Mutant: nobody's.
ResetsNone(t) == FALSE

\* Whose areas are chosen again when the attack points of t have changed: those
\* to attack for Blue, and those to defend for Red (resetRedAttack is a
\* CBotFuncResetDefendPoint).
ResetsAttack(t) == t = Blue
ResetsDefend(t) == t = Red

\* updateAttackPoints and updateDefendPoints for both teams: the arrays are
\* worked out from the game as it is after the step.
UpdateArrays(lowRate) ==
    /\ validAttack' = [t \in Teams |-> AttackPoints(t)']
    /\ validDefend' = [t \in Teams |-> DefendPoints(t)']
    /\ signature' = [t \in Teams |->
          [attack |-> IF NoAttack(t)' THEN signature[t].attack ELSE AttackSignature(t)',
           defend |-> DefendSignature(t, lowRate)']]
    /\ monitor' = [t \in Teams |->
          LET last == {i \in AttackPoints(t)' : NeedsPrevious(t, i)}
          IN  IF last = {} THEN NoPoint ELSE Max(last)]
    /\ seen' = owner'

AttackChanged(t) == signature'[t].attack # signature[t].attack
DefendChanged(t) == signature'[t].defend # signature[t].defend

\* What updatePoints does to the bots.  Attack points are updated first, so that
\* a bot whose area to defend is chosen then takes it from the old points.
ResetBots ==
    /\ attackArea' \in OneOfEach([b \in Bots |->
          IF AttackChanged(Team[b]) /\ ResetsAttack(Team[b])
          THEN AnyArea(validAttack'[Team[b]])
          ELSE {attackArea[b]}])
    /\ defendArea' \in OneOfEach([b \in Bots |->
          IF DefendChanged(Team[b]) THEN AnyArea(validDefend'[Team[b]])
          ELSE IF AttackChanged(Team[b]) /\ ResetsDefend(Team[b])
          THEN AnyArea(validDefend[Team[b]])
          ELSE {defendArea[b]}])

\* The low rate, which counts if there is a next point: half of it before the
\* round has begun.
LowRates == IF \E t \in Teams : NextPoints(t) # {} THEN {"rate", "halfRate"} ELSE {"rate"}

UpdatePoints == \E lowRate \in LowRates' : UpdateArrays(lowRate) /\ ResetBots

\* The points that the area a is translated to: setup goes through the points in
\* order, and a point without a waypoint clears the area that would be its own.
Writers(near, a) ==
    {i \in Points : \/ near[i] = a /\ a < MaxPoints
                    \/ near[i] = NoWpt /\ a = i + 1}

Translation(near) ==
    [a \in Areas |-> IF Writers(near, a) = {} THEN NoPoint
                     ELSE LET last == Max(Writers(near, a))
                          IN  IF near[last] = NoWpt THEN NoPoint ELSE last]

Setup ==
    /\ ready' = TRUE
    /\ \E near \in CapAreas :
          /\ areaOf' = [i \in Points |-> IF near[i] = NoWpt THEN 0 ELSE near[i]]
          /\ pointOf' = Translation(near)

\* A frame in which the objective resource is found for the first time.
FindResource ==
    /\ ~ready
    /\ Setup
    /\ UNCHANGED <<gameVars, roundVars, pointVars, timerVars, botVars>>

\* Mutant: Blue's monitored point only.
BlueLost == monitor[Blue] # NoPoint /\ ~PreviousOwned(Blue, monitor[Blue])

\* A previous point of the point that is monitored for a team was lost.
MonitoredLost == \E t \in Teams : monitor[t] # NoPoint /\ ~PreviousOwned(t, monitor[t])

\* Mutant: no update without an event unless a monitored point was lost.
ThinkMonitored ==
    /\ ready /\ checkDue
    /\ UNCHANGED <<gameVars, roundVars, areaVars, updateDue>>
    /\ checkDue' = FALSE
    /\ IF MonitoredLost THEN UpdatePoints ELSE UNCHANGED <<pointVars, botVars>>

\* A frame in which it is time to check: after an update the timers start anew.
Think ==
    /\ ready /\ checkDue
    /\ UNCHANGED <<gameVars, roundVars, areaVars>>
    /\ checkDue' = FALSE
    /\ IF updateDue \/ MonitoredLost
       THEN UpdatePoints /\ updateDue' = FALSE
       ELSE UNCHANGED <<pointVars, updateDue, botVars>>

ModFrame == FindResource \/ Think
-----------------------------------------------------------------------------
\* Events of the game.

\* teamplay_point_captured: an update in 0.2 seconds.
PointCaptured(i, t) ==
    /\ i \in open \cap CanCap[t] /\ owner[i] # t
    /\ owner' = [owner EXCEPT ![i] = t]
    /\ round' = gameRound
    /\ updateDue' = TRUE /\ checkDue' = FALSE
    /\ UNCHANGED <<open, gameRound, attackDefend, areaVars, pointVars, botVars>>

\* teamplay_round_start: everything anew, and all bots choose their areas.
RoundStart ==
    /\ \E s \in Starts : owner' = s.owner /\ open' = s.open /\ gameRound' = s.round
    /\ round' = gameRound'
    /\ attackDefend' = (\A i \in Points : owner'[i] = Red)
    /\ Setup
    /\ checkDue' = FALSE /\ updateDue' = FALSE
    /\ \E lowRate \in LowRates' : UpdateArrays(lowRate)
    /\ attackArea' \in OneOfEach([b \in Bots |-> AnyArea(validAttack[Team[b]])'])
    /\ defendArea' \in OneOfEach([b \in Bots |-> AnyArea(validDefend[Team[b]])'])

\* What the game does without an event: points are locked and unlocked, and
\* the map's logic gives them to a team or to nobody.
Unlock ==
    /\ open' \in Openings /\ open' # open
    /\ UNCHANGED <<owner, gameRound, roundVars, areaVars, pointVars, timerVars, botVars>>

SetOwner(i, t) ==
    /\ owner[i] # t
    /\ owner' = [owner EXCEPT ![i] = t]
    /\ UNCHANGED <<open, gameRound, roundVars, areaVars, pointVars, timerVars, botVars>>

\* Time passes: one second or five since the last check, a minute since the
\* last update.
CheckComes ==
    /\ ~checkDue /\ checkDue' = TRUE
    /\ UNCHANGED <<gameVars, roundVars, areaVars, pointVars, updateDue, botVars>>

UpdateComes ==
    /\ ~updateDue /\ updateDue' = TRUE
    /\ UNCHANGED <<gameVars, roundVars, areaVars, pointVars, checkDue, botVars>>
-----------------------------------------------------------------------------
\* A bot chooses its areas again: when it spawns, and when a task for a point (which
\* it may have been given long ago) finds the point captured, lost or not valid any
\* more.  As a bot may spawn at any time, what the task finds makes no difference.
UpdateAttackDefendPoints(b) ==
    /\ \E a \in AnyArea(validAttack[Team[b]]), d \in AnyArea(validDefend[Team[b]]) :
          /\ attackArea' = [attackArea EXCEPT ![b] = a]
          /\ defendArea' = [defendArea EXCEPT ![b] = d]
    /\ UNCHANGED <<gameVars, roundVars, areaVars, pointVars, timerVars>>

Next ==
    \/ ModFrame
    \/ RoundStart
    \/ \E i \in Points, t \in Teams : PointCaptured(i, t)
    \/ \E g \in Given : SetOwner(g[1], g[2])
    \/ Unlock
    \/ CheckComes \/ UpdateComes
    \/ \E b \in Bots : UpdateAttackDefendPoints(b)

Spec == Init /\ [][Next]_vars

\* Frames go on, and time passes.
FairSpec ==
    Spec /\ WF_vars(ModFrame) /\ WF_vars(CheckComes) /\ WF_vars(UpdateComes)
-----------------------------------------------------------------------------
TypeOK ==
    /\ owner \in [Points -> Teams \cup {Nobody}] /\ seen \in [Points -> Teams \cup {Nobody}]
    /\ open \subseteq Points /\ gameRound \subseteq Points /\ round \subseteq Points
    /\ {attackDefend, ready, checkDue, updateDue} \subseteq BOOLEAN
    /\ areaOf \in [Points -> Areas \cup {0}]
    /\ pointOf \in [Areas -> Points \cup {NoPoint}]
    /\ validAttack \in [Teams -> SUBSET Points] /\ validDefend \in [Teams -> SUBSET Points]
    /\ monitor \in [Teams -> Points \cup {NoPoint}]
    /\ attackArea \in [Bots -> Areas \cup {0}] /\ defendArea \in [Bots -> Areas \cup {0}]

\* isCPValidWptArea
AreaIsIn(a, valid) == a = 0 \/ pointOf[a] \in valid

DefendersCurrent == \A b \in Bots : AreaIsIn(defendArea[b], validDefend[Team[b]])
AttackersCurrent == \A b \in Bots : Team[b] = Blue => AreaIsIn(attackArea[b], validAttack[Blue])

(* After every update, event, respawn and finished task, in any order, a    *)
(* bot defends an area that is valid for its team, and one of Blue attacks  *)
(* such an area: although bots are told only when a sum of bytes differs,   *)
(* and areas are translated to points and back.  (Red's bots keep the area  *)
(* they attack: see ResetsAttack.)                                          *)
AreasCurrent == DefendersCurrent /\ AttackersCurrent

(* Both teams look at a point alike: one that a team was told it may        *)
(* attack, and that belonged to the other then, is one the other was told   *)
(* to defend.                                                               *)
AttackedAreDefended ==
    \A t \in Teams : \A i \in validAttack[t] :
        seen[i] = Other(t) => i \in validDefend[Other(t)]

\* A frame that finds the signature of points unchanged finds the points unchanged.
PointsTold ==
    Think => /\ signature'[Blue].attack = signature[Blue].attack
                  => validAttack'[Blue] = validAttack[Blue]
             /\ \A t \in Teams : signature'[t].defend = signature[t].defend
                  => validDefend'[t] = validDefend[t]

(* The signature tells different points apart, in spite of being a sum.     *)
SignatureTells == [][PointsTold]_vars

MonitoredHeld == \A t \in Teams : monitor[t] # NoPoint => PreviousOwned(t, monitor[t])

(* When it was time to check, no team is left with a point to capture whose *)
(* previous points it has lost, be it without an event: neither team's      *)
(* monitored point is forgotten.                                            *)
MonitorHonest ==
    [][Think => MonitoredHeld']_vars

UpToDate ==
    /\ ready
    /\ \A t \in Teams : /\ validAttack[t] = AttackPoints(t)
                        /\ validDefend[t] = DefendPoints(t)

GameRests == <>[][UNCHANGED <<gameVars, round>>]_vars

(* When the game stops changing, what the plugin knows of the points        *)
(* becomes right, whatever changed last without an event.                   *)
CatchesUp == GameRests => <>[]UpToDate
=============================================================================
