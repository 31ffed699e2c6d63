--------------------------- MODULE ControlProofs ---------------------------
(***************************************************************************)
(* Proofs about the control points, for every map: any number of points,   *)
(* any order in which they are to be captured, any rounds and any bots.    *)
(***************************************************************************)
EXTENDS ControlPoints, SequenceLemmas, TLAPS

LEMMA NumPointsNat == NumPoints \in Nat \ {0} /\ MaxPoints \in Nat /\ NumPoints <= MaxPoints
  BY PointsAssumption

\* A set of points has a last one.
LEMMA LastPoint ==
    ASSUME NEW T, T \subseteq Points, T # {}
    PROVE  Max(T) \in T
<1> DEFINE Back == {NumPoints - i : i \in T}
<1>1. Back \subseteq Nat /\ Back # {}
  <2>1. \A i \in T : NumPoints - i \in Nat
    BY NumPointsNat DEF Points
  <2>2. PICK i \in T : TRUE
    OBVIOUS
  <2>3. NumPoints - i \in Back
    OBVIOUS
  <2> QED
    BY <2>1, <2>3
<1>2. PICK m \in Back : \A k \in Back : m <= k
  BY <1>1, LeastExists
<1>3. PICK i \in T : m = NumPoints - i
  BY <1>2
<1>4. \A j \in T : i >= j
  BY <1>2, <1>3, NumPointsNat DEF Points
<1> QED
  BY <1>3, <1>4 DEF Max

\* What a team may attack and should defend are points.
LEMMA PointSets ==
    ASSUME NEW t \in Teams
    PROVE  /\ AttackPoints(t) \subseteq Points /\ AttackPoints(t)' \subseteq Points
           /\ DefendPoints(t) \subseteq Points /\ DefendPoints(t)' \subseteq Points
<1>1. Other(t) \in Teams
  BY DEF Other, Teams
<1>2. \A u \in Teams : CanCap[u] \subseteq Points
  BY PointsAssumption
<1>3. AttackPoints(t) \subseteq Points /\ AttackPoints(t)' \subseteq Points
  BY <1>2 DEF AttackPoints, Takeable
<1>4. DefendPoints(t) \subseteq Points /\ DefendPoints(t)' \subseteq Points
  BY <1>1, <1>2 DEF DefendPoints, NextPoints, WaitingPoints, Threatened
<1> QED
  BY <1>3, <1>4

\* A bot is given an area, or none.
LEMMA AnyAreaTyped ==
    ASSUME areaOf \in [Points -> Areas \cup {0}], NEW valid, valid \subseteq Points
    PROVE  AnyArea(valid) \subseteq Areas \cup {0}
  BY DEF AnyArea

\* What is chosen for every bot is of its own set.
LEMMA EachChoice ==
    ASSUME NEW sets, NEW A, \A b \in Bots : sets[b] \subseteq A, NEW f \in OneOfEach(sets)
    PROVE  f \in [Bots -> A] /\ \A b \in Bots : f[b] \in sets[b]
<1>1. f \in [Bots -> UNION {sets[b] : b \in Bots}] /\ \A b \in Bots : f[b] \in sets[b]
  BY DEF OneOfEach
<1>2. UNION {sets[b] : b \in Bots} \subseteq A
  OBVIOUS
<1> QED
  BY <1>1, <1>2

-----------------------------------------------------------------------------
\* Types.

LEMMA GameTyped ==
    ASSUME NEW s \in Starts
    PROVE  /\ s.owner \in [Points -> Teams \cup {Nobody}]
           /\ s.open \subseteq Points /\ s.round \subseteq Points
  BY PointsAssumption

LEMMA InitTyped == Init => TypeOK
<1> SUFFICES ASSUME Init PROVE TypeOK
  OBVIOUS
<1>1. owner \in [Points -> Teams \cup {Nobody}] /\ gameRound \subseteq Points
  BY GameTyped DEF Init
<1>2. open \subseteq Points
  BY GameTyped DEF Init
<1>3. areaOf \in [Points -> Areas \cup {0}] /\ pointOf \in [Areas -> Points \cup {NoPoint}]
  <2>1. areaOf = [i \in Points |-> 0] /\ pointOf = [a \in Areas |-> 0]
    BY DEF Init
  <2>2. 0 \in Points
    BY NumPointsNat DEF Points
  <2> QED
    BY <2>1, <2>2
<1>4. /\ validAttack \in [Teams -> SUBSET Points] /\ validDefend \in [Teams -> SUBSET Points]
      /\ monitor \in [Teams -> Points \cup {NoPoint}]
  BY DEF Init
<1>5. attackArea \in [Bots -> Areas \cup {0}] /\ defendArea \in [Bots -> Areas \cup {0}]
  BY DEF Init
<1>6. round \subseteq Points /\ {attackDefend, ready, checkDue, updateDue} \subseteq BOOLEAN
      /\ seen = owner
  BY DEF Init
<1> QED
  BY <1>1, <1>2, <1>3, <1>4, <1>5, <1>6 DEF TypeOK

LEMMA SetupTyped ==
    ASSUME Setup
    PROVE  /\ ready' = TRUE
           /\ areaOf' \in [Points -> Areas \cup {0}]
           /\ pointOf' \in [Areas -> Points \cup {NoPoint}]
<1>1. PICK near \in CapAreas :
        /\ areaOf' = [i \in Points |-> IF near[i] = NoWpt THEN 0 ELSE near[i]]
        /\ pointOf' = Translation(near)
  BY DEF Setup
<1>2. near \in [Points -> Areas \cup {NoWpt, 0}]
  BY PointsAssumption
<1>3. areaOf' \in [Points -> Areas \cup {0}]
  BY <1>1, <1>2
<1>4. ASSUME NEW a \in Areas, Writers(near, a) # {}
      PROVE  Max(Writers(near, a)) \in Points
  <2>1. Writers(near, a) \subseteq Points
    BY DEF Writers
  <2> QED
    BY <2>1, <1>4, LastPoint
<1>5. Translation(near) \in [Areas -> Points \cup {NoPoint}]
  BY <1>4 DEF Translation
<1> QED
  BY <1>1, <1>3, <1>5 DEF Setup

LEMMA ArraysTyped ==
    ASSUME NEW rate, UpdateArrays(rate), owner' \in [Points -> Teams \cup {Nobody}]
    PROVE  /\ validAttack' \in [Teams -> SUBSET Points]
           /\ validDefend' \in [Teams -> SUBSET Points]
           /\ monitor' \in [Teams -> Points \cup {NoPoint}]
           /\ seen' \in [Points -> Teams \cup {Nobody}]
<1>1. ASSUME NEW t \in Teams
      PROVE  LET last == {i \in AttackPoints(t)' : NeedsPrevious(t, i)}
             IN  (IF last = {} THEN NoPoint ELSE Max(last)) \in Points \cup {NoPoint}
  <2> DEFINE last == {i \in AttackPoints(t)' : NeedsPrevious(t, i)}
  <2>1. last \subseteq Points
    BY PointSets
  <2> QED
    BY <2>1, LastPoint
<1>2. monitor' \in [Teams -> Points \cup {NoPoint}]
  BY <1>1 DEF UpdateArrays
<1>3. validAttack' \in [Teams -> SUBSET Points] /\ validDefend' \in [Teams -> SUBSET Points]
  BY PointSets DEF UpdateArrays
<1> QED
  BY <1>2, <1>3 DEF UpdateArrays

\* Bots choose their areas from points: all of them or one.
LEMMA ChoicesTyped ==
    ASSUME NEW b \in Bots, TypeOK, UpdateAttackDefendPoints(b)
    PROVE  /\ attackArea' \in [Bots -> Areas \cup {0}]
           /\ defendArea' \in [Bots -> Areas \cup {0}]
<1>1. PICK a \in AnyArea(validAttack[Team[b]]), d \in AnyArea(validDefend[Team[b]]) :
        /\ attackArea' = [attackArea EXCEPT ![b] = a]
        /\ defendArea' = [defendArea EXCEPT ![b] = d]
  BY DEF UpdateAttackDefendPoints
<1>2. Team[b] \in Teams
  BY PointsAssumption
<1>3. a \in Areas \cup {0} /\ d \in Areas \cup {0}
  BY <1>2, AnyAreaTyped DEF TypeOK
<1> QED
  BY <1>1, <1>3 DEF TypeOK

\* What updated points do to the areas of bots.
LEMMA ResetChoices ==
    ASSUME TypeOK, ResetBots,
           validAttack' \in [Teams -> SUBSET Points], validDefend' \in [Teams -> SUBSET Points]
    PROVE  /\ attackArea' \in [Bots -> Areas \cup {0}]
           /\ defendArea' \in [Bots -> Areas \cup {0}]
           /\ \A b \in Bots :
                /\ attackArea'[b] \in IF AttackChanged(Team[b]) /\ ResetsAttack(Team[b])
                                     THEN AnyArea(validAttack'[Team[b]])
                                     ELSE {attackArea[b]}
                /\ defendArea'[b] \in
                     IF DefendChanged(Team[b]) THEN AnyArea(validDefend'[Team[b]])
                     ELSE IF AttackChanged(Team[b]) /\ ResetsDefend(Team[b])
                     THEN AnyArea(validDefend[Team[b]])
                     ELSE {defendArea[b]}
<1> DEFINE ToAttack == [b \in Bots |->
              IF AttackChanged(Team[b]) /\ ResetsAttack(Team[b])
              THEN AnyArea(validAttack'[Team[b]])
              ELSE {attackArea[b]}]
           ToDefend == [b \in Bots |->
              IF DefendChanged(Team[b]) THEN AnyArea(validDefend'[Team[b]])
              ELSE IF AttackChanged(Team[b]) /\ ResetsDefend(Team[b])
              THEN AnyArea(validDefend[Team[b]])
              ELSE {defendArea[b]}]
<1>1. ASSUME NEW b \in Bots
      PROVE  ToAttack[b] \subseteq Areas \cup {0} /\ ToDefend[b] \subseteq Areas \cup {0}
  <2>1. Team[b] \in Teams
    BY PointsAssumption
  <2>2. /\ AnyArea(validAttack'[Team[b]]) \subseteq Areas \cup {0}
        /\ AnyArea(validDefend'[Team[b]]) \subseteq Areas \cup {0}
        /\ AnyArea(validDefend[Team[b]]) \subseteq Areas \cup {0}
    BY <2>1, AnyAreaTyped DEF TypeOK
  <2>3. attackArea[b] \in Areas \cup {0} /\ defendArea[b] \in Areas \cup {0}
    BY DEF TypeOK
  <2> QED
    BY <2>2, <2>3
<1>2. attackArea' \in OneOfEach(ToAttack) /\ defendArea' \in OneOfEach(ToDefend)
  BY DEF ResetBots
<1> HIDE DEF ToAttack, ToDefend
<1>3. /\ attackArea' \in [Bots -> Areas \cup {0}]
      /\ \A b \in Bots : attackArea'[b] \in ToAttack[b]
  BY <1>1, <1>2, EachChoice
<1>4. /\ defendArea' \in [Bots -> Areas \cup {0}]
      /\ \A b \in Bots : defendArea'[b] \in ToDefend[b]
  BY <1>1, <1>2, EachChoice
<1> QED
  BY <1>3, <1>4 DEF ToAttack, ToDefend

\* And what a round that starts does to them.
LEMMA RoundChoices ==
    ASSUME RoundStart, areaOf' \in [Points -> Areas \cup {0}],
           validAttack' \in [Teams -> SUBSET Points], validDefend' \in [Teams -> SUBSET Points]
    PROVE  /\ attackArea' \in [Bots -> Areas \cup {0}]
           /\ defendArea' \in [Bots -> Areas \cup {0}]
           /\ \A b \in Bots : /\ attackArea'[b] \in AnyArea(validAttack[Team[b]])'
                              /\ defendArea'[b] \in AnyArea(validDefend[Team[b]])'
<1> DEFINE ToAttack == [b \in Bots |-> AnyArea(validAttack[Team[b]])']
           ToDefend == [b \in Bots |-> AnyArea(validDefend[Team[b]])']
<1>1. ASSUME NEW b \in Bots
      PROVE  ToAttack[b] \subseteq Areas \cup {0} /\ ToDefend[b] \subseteq Areas \cup {0}
  <2>1. Team[b] \in Teams
    BY PointsAssumption
  <2>2. validAttack'[Team[b]] \subseteq Points /\ validDefend'[Team[b]] \subseteq Points
    BY <2>1
  <2> QED
    BY <2>2 DEF AnyArea
<1>2. attackArea' \in OneOfEach(ToAttack) /\ defendArea' \in OneOfEach(ToDefend)
  BY DEF RoundStart
<1> HIDE DEF ToAttack, ToDefend
<1>3. /\ attackArea' \in [Bots -> Areas \cup {0}]
      /\ \A b \in Bots : attackArea'[b] \in ToAttack[b]
  BY <1>1, <1>2, EachChoice
<1>4. /\ defendArea' \in [Bots -> Areas \cup {0}]
      /\ \A b \in Bots : defendArea'[b] \in ToDefend[b]
  BY <1>1, <1>2, EachChoice
<1> QED
  BY <1>3, <1>4 DEF ToAttack, ToDefend

LEMMA StepTyped == TypeOK /\ [Next]_vars => TypeOK'
<1> SUFFICES ASSUME TypeOK, [Next]_vars PROVE TypeOK'
  OBVIOUS
<1> USE DEF gameVars, roundVars, areaVars, pointVars, timerVars, botVars
<1>1. CASE FindResource
  <2>1. Setup
    BY <1>1 DEF FindResource
  <2>2. /\ ready' = TRUE /\ areaOf' \in [Points -> Areas \cup {0}]
        /\ pointOf' \in [Areas -> Points \cup {NoPoint}]
    BY <2>1, SetupTyped
  <2> QED
    BY <1>1, <2>2 DEF FindResource, TypeOK
<1>2. CASE Think
  <2>1. CASE UNCHANGED <<pointVars, updateDue, botVars>>
    BY <1>2, <2>1 DEF Think, TypeOK
  <2>2. CASE UpdatePoints /\ updateDue' = FALSE
    <3>1. owner' \in [Points -> Teams \cup {Nobody}]
      BY <1>2 DEF Think, TypeOK
    <3>2. PICK rate \in LowRates' : UpdateArrays(rate) /\ ResetBots
      BY <2>2 DEF UpdatePoints
    <3>3. /\ validAttack' \in [Teams -> SUBSET Points] /\ validDefend' \in [Teams -> SUBSET Points]
          /\ monitor' \in [Teams -> Points \cup {NoPoint}]
          /\ seen' \in [Points -> Teams \cup {Nobody}]
      BY <3>1, <3>2, ArraysTyped
    <3>4. attackArea' \in [Bots -> Areas \cup {0}] /\ defendArea' \in [Bots -> Areas \cup {0}]
      BY <3>2, <3>3, ResetChoices
    <3> QED
      BY <1>2, <2>2, <3>3, <3>4 DEF Think, TypeOK
  <2> QED
    BY <1>2, <2>1, <2>2 DEF Think
<1>3. CASE RoundStart
  <2>1. PICK s \in Starts : owner' = s.owner /\ gameRound' = s.round
    BY <1>3 DEF RoundStart
  <2>2. owner' \in [Points -> Teams \cup {Nobody}] /\ gameRound' \subseteq Points
    BY <2>1, GameTyped
  <2>3. /\ ready' = TRUE /\ areaOf' \in [Points -> Areas \cup {0}]
        /\ pointOf' \in [Areas -> Points \cup {NoPoint}]
    BY <1>3, SetupTyped DEF RoundStart
  <2>4. /\ validAttack' \in [Teams -> SUBSET Points] /\ validDefend' \in [Teams -> SUBSET Points]
        /\ monitor' \in [Teams -> Points \cup {NoPoint}]
        /\ seen' \in [Points -> Teams \cup {Nobody}]
    BY <1>3, <2>2, ArraysTyped DEF RoundStart
  <2>5. attackArea' \in [Bots -> Areas \cup {0}] /\ defendArea' \in [Bots -> Areas \cup {0}]
    BY <1>3, <2>3, <2>4, RoundChoices
  <2>6. open' \subseteq Points /\ round' = gameRound'
    BY <1>3, GameTyped DEF RoundStart
  <2>7. {attackDefend', ready', checkDue', updateDue'} \subseteq BOOLEAN
    BY <1>3, <2>3 DEF RoundStart
  <2> QED
    BY <2>2, <2>3, <2>4, <2>5, <2>6, <2>7 DEF TypeOK
<1>4. ASSUME NEW i \in Points, NEW t \in Teams, PointCaptured(i, t)
      PROVE  TypeOK'
  BY <1>4 DEF PointCaptured, TypeOK
<1>5. ASSUME NEW g \in Given, SetOwner(g[1], g[2])
      PROVE  TypeOK'
  <2>1. g[1] \in Points /\ g[2] \in Teams \cup {Nobody}
    BY PointsAssumption
  <2>2. owner' \in [Points -> Teams \cup {Nobody}]
    BY <1>5, <2>1 DEF SetOwner, TypeOK
  <2> QED
    BY <1>5, <2>2 DEF SetOwner, TypeOK
<1>6. CASE Unlock
  <2>1. open' \subseteq Points
    BY <1>6, PointsAssumption DEF Unlock
  <2> QED
    BY <1>6, <2>1 DEF Unlock, TypeOK
<1>7. CASE CheckComes
  BY <1>7 DEF CheckComes, TypeOK
<1>8. CASE UpdateComes
  BY <1>8 DEF UpdateComes, TypeOK
<1>9. ASSUME NEW b \in Bots, UpdateAttackDefendPoints(b)
      PROVE  TypeOK'
  <2>1. attackArea' \in [Bots -> Areas \cup {0}] /\ defendArea' \in [Bots -> Areas \cup {0}]
    BY <1>9, ChoicesTyped
  <2> QED
    BY <1>9, <2>1 DEF UpdateAttackDefendPoints, TypeOK
<1>10. CASE UNCHANGED vars
  BY <1>10 DEF vars, TypeOK
<1> QED
  BY <1>1, <1>2, <1>3, <1>4, <1>5, <1>6, <1>7, <1>8, <1>9, <1>10
     DEF Next, ModFrame

(* Points, areas, monitored points and the areas of bots keep their types,  *)
(* however many points there are and whatever the game does with them.      *)
THEOREM ControlTyped == Spec => []TypeOK
  BY InitTyped, StepTyped, PTL DEF Spec

-----------------------------------------------------------------------------
\* Both teams look at a point alike.

LEMMA AttackedIsThreatened ==
    ASSUME NEW t \in Teams, NEW i \in AttackPoints(t)', owner'[i] = Other(t)
    PROVE  i \in DefendPoints(Other(t))'
<1>1. Other(Other(t)) = t /\ Other(t) # t
  BY DEF Other, Teams, Red, Blue
<1>2. i \in Takeable(t)' /\ i \notin Waits(t)'
  BY DEF AttackPoints
<1>3. i \in Threatened(Other(t))'
  BY <1>1, <1>2 DEF Takeable, Threatened
<1>4. i \notin WaitingPoints(Other(t))'
  BY <1>1, <1>2 DEF WaitingPoints
<1> QED
  BY <1>3, <1>4 DEF DefendPoints

LEMMA UpdateAgrees ==
    ASSUME NEW rate, UpdateArrays(rate)
    PROVE  AttackedAreDefended'
<1> SUFFICES ASSUME NEW t \in Teams, NEW i \in validAttack'[t], seen'[i] = Other(t)
             PROVE  i \in validDefend'[Other(t)]
  BY DEF AttackedAreDefended
<1>1. Other(t) \in Teams
  BY DEF Other, Teams
<1>2. /\ validAttack'[t] = AttackPoints(t)' /\ seen' = owner'
      /\ validDefend'[Other(t)] = DefendPoints(Other(t))'
  BY <1>1 DEF UpdateArrays
<1> QED
  BY <1>2, AttackedIsThreatened

(* Whatever the order in which points are to be captured, the rounds and    *)
(* the game's own changes: a point that a team was told to attack and that  *)
(* belonged to the other is one the other was told to defend.               *)
THEOREM BothSidesAgree == Spec => []AttackedAreDefended
<1>1. Init => AttackedAreDefended
  BY DEF Init, AttackedAreDefended
<1>2. AttackedAreDefended /\ [Next]_vars => AttackedAreDefended'
  <2> SUFFICES ASSUME AttackedAreDefended, [Next]_vars PROVE AttackedAreDefended'
    OBVIOUS
  <2>1. CASE UNCHANGED pointVars
    BY <2>1 DEF pointVars, AttackedAreDefended
  <2>2. CASE \E rate \in LowRates' : UpdateArrays(rate)
    BY <2>2, UpdateAgrees
  <2>3. UNCHANGED pointVars \/ \E rate \in LowRates' : UpdateArrays(rate)
    BY DEF Next, ModFrame, FindResource, Think, UpdatePoints, PointCaptured, RoundStart,
           Unlock, SetOwner, CheckComes, UpdateComes, UpdateAttackDefendPoints, vars, pointVars
  <2> QED
    BY <2>1, <2>2, <2>3
<1> QED
  BY <1>1, <1>2, PTL DEF Spec

-----------------------------------------------------------------------------
\* Monitored points.

LEMMA UpdateMonitorsHeld ==
    ASSUME NEW rate, UpdateArrays(rate)
    PROVE  MonitoredHeld'
<1> SUFFICES ASSUME NEW t \in Teams, monitor'[t] # NoPoint
             PROVE  PreviousOwned(t, monitor[t])'
  BY DEF MonitoredHeld
<1> DEFINE last == {i \in AttackPoints(t)' : NeedsPrevious(t, i)}
<1>1. monitor'[t] = IF last = {} THEN NoPoint ELSE Max(last)
  BY DEF UpdateArrays
<1>2. last \subseteq Points
  BY PointSets
<1> HIDE DEF last
<1>3. monitor'[t] \in last
  BY <1>1, <1>2, LastPoint
<1>4. monitor'[t] \in AttackPoints(t)' /\ NeedsPrevious(t, monitor'[t])
  BY <1>3 DEF last
<1> QED
  BY <1>4 DEF AttackPoints, Waits, NeedsPrevious

(* Whatever changes without an event, on every map: when it was time to     *)
(* check, a team's monitored point has its previous points, since the check *)
(* finds a loss and the update that follows takes no other point.           *)
THEOREM MonitorsHeld == Spec => MonitorHonest
<1>1. Think => MonitoredHeld'
  <2> SUFFICES ASSUME Think PROVE MonitoredHeld'
    OBVIOUS
  <2>1. CASE UpdatePoints
    BY <2>1, UpdateMonitorsHeld DEF UpdatePoints
  <2>2. CASE ~MonitoredLost /\ UNCHANGED pointVars
    BY <2>2 DEF Think, gameVars, pointVars, MonitoredLost, MonitoredHeld, PreviousOwned
  <2> QED
    BY <2>1, <2>2 DEF Think
<1> QED
  BY <1>1, PTL DEF MonitorHonest

-----------------------------------------------------------------------------
\* The areas of bots.

\* No two points share an area, none has the last one, and the place of an area
\* that a point without a waypoint clears belongs to no other point.
AreasAgree ==
    \A near \in CapAreas : \A i, j \in Points : near[i] \in Areas =>
        /\ near[i] < MaxPoints
        /\ near[j] = near[i] => j = i
        /\ near[j] = NoWpt => near[i] # j + 1

\* Before the objective resource is found there is nothing to attack or defend.
NothingYet ==
    ~ready => \A t \in Teams : validAttack[t] = {} /\ validDefend[t] = {}

\* Every area of a point, the last one included, is translated back to the point.
AreasTranslated ==
    ready => \A i \in Points : areaOf[i] # 0 => pointOf[areaOf[i]] = i

AreaInv == TypeOK /\ AreasTranslated /\ NothingYet /\ AreasCurrent

LEMMA SetupTranslates ==
    ASSUME AreasAgree, Setup
    PROVE  AreasTranslated'
<1>1. PICK near \in CapAreas :
        /\ areaOf' = [i \in Points |-> IF near[i] = NoWpt THEN 0 ELSE near[i]]
        /\ pointOf' = Translation(near)
  BY DEF Setup
<1>2. near \in [Points -> Areas \cup {NoWpt, 0}]
  BY PointsAssumption
<1> SUFFICES ASSUME NEW i \in Points, areaOf'[i] # 0
             PROVE  pointOf'[areaOf'[i]] = i
  BY DEF AreasTranslated
<1>3. near[i] \in Areas /\ near[i] # NoWpt /\ areaOf'[i] = near[i]
  BY <1>1, <1>2 DEF Areas, NoWpt
<1>4. Writers(near, near[i]) = {i}
  BY <1>3 DEF Writers, AreasAgree
<1>5. Max({i}) = i
  <2>1. {i} \subseteq Points /\ {i} # {}
    OBVIOUS
  <2> QED
    BY <2>1, LastPoint
<1> QED
  BY <1>1, <1>3, <1>4, <1>5 DEF Translation

\* An area that a bot is given leads back to one of the points it was chosen from.
LEMMA ChosenIsValid ==
    ASSUME TypeOK, AreasTranslated, NEW valid, valid \subseteq Points,
           ready \/ valid = {}, NEW a \in AnyArea(valid)
    PROVE  AreaIsIn(a, valid)
  BY DEF AnyArea, AreaIsIn, AreasTranslated

\* A frame that finds other points gives other areas; one that does not keeps both.
LEMMA ThinkKeepsAreas ==
    ASSUME AreaInv, Think, PointsTold, TypeOK'
    PROVE  AreasCurrent'
<1>1. pointOf' = pointOf /\ areaOf' = areaOf /\ ready
  BY DEF Think, areaVars
<1>2. CASE UNCHANGED <<pointVars, updateDue, botVars>>
  BY <1>1, <1>2 DEF AreaInv, AreasCurrent, DefendersCurrent, AttackersCurrent, AreaIsIn,
                    pointVars, botVars
<1>3. CASE UpdatePoints
  <2>1. ResetBots
    BY <1>3 DEF UpdatePoints
  <2>2. validAttack' \in [Teams -> SUBSET Points] /\ validDefend' \in [Teams -> SUBSET Points]
    BY DEF TypeOK
  <2>3. ASSUME NEW b \in Bots
        PROVE  AreaIsIn(defendArea[b], validDefend[Team[b]])'
    <3>1. Team[b] \in Teams
      BY PointsAssumption
    <3>2. IF DefendChanged(Team[b]) THEN defendArea'[b] \in AnyArea(validDefend'[Team[b]])
          ELSE IF AttackChanged(Team[b]) /\ ResetsDefend(Team[b])
          THEN defendArea'[b] \in AnyArea(validDefend[Team[b]])
          ELSE defendArea'[b] = defendArea[b]
      BY <2>1, <2>2, ResetChoices DEF AreaInv
    <3>3. /\ validDefend'[Team[b]] \subseteq Points
          /\ validDefend[Team[b]] \subseteq Points
      BY <3>1 DEF TypeOK, AreaInv
    <3>4. CASE DefendChanged(Team[b])
      <4>1. AreaIsIn(defendArea'[b], validDefend'[Team[b]])
        BY <3>2, <3>3, <3>4, <1>1, ChosenIsValid DEF AreaInv
      <4> QED
        BY <4>1, <1>1 DEF AreaIsIn
    <3>5. CASE ~DefendChanged(Team[b])
      <4>1. validDefend'[Team[b]] = validDefend[Team[b]]
        BY <3>1, <3>5 DEF DefendChanged, PointsTold
      <4>2. CASE defendArea'[b] \in AnyArea(validDefend[Team[b]])
        <5>1. AreaIsIn(defendArea'[b], validDefend[Team[b]])
          BY <4>2, <3>3, <1>1, ChosenIsValid DEF AreaInv
        <5> QED
          BY <5>1, <4>1, <1>1 DEF AreaIsIn
      <4>3. CASE defendArea'[b] = defendArea[b]
        BY <4>3, <4>1, <1>1 DEF AreaInv, AreasCurrent, DefendersCurrent, AreaIsIn
      <4> QED
        BY <3>2, <3>5, <4>2, <4>3
    <3> QED
      BY <3>4, <3>5
  <2>4. ASSUME NEW b \in Bots, Team[b] = Blue
        PROVE  AreaIsIn(attackArea[b], validAttack[Blue])'
    <3>1. IF AttackChanged(Blue) THEN attackArea'[b] \in AnyArea(validAttack'[Blue])
          ELSE attackArea'[b] = attackArea[b]
      BY <2>1, <2>4, <2>2, ResetChoices DEF AreaInv, ResetsAttack
    <3>2. validAttack'[Blue] \subseteq Points
      BY DEF TypeOK, Teams
    <3>3. CASE AttackChanged(Blue)
      <4>1. AreaIsIn(attackArea'[b], validAttack'[Blue])
        BY <3>1, <3>2, <3>3, <1>1, ChosenIsValid DEF AreaInv
      <4> QED
        BY <4>1, <1>1 DEF AreaIsIn
    <3>4. CASE ~AttackChanged(Blue)
      <4>1. validAttack'[Blue] = validAttack[Blue]
        BY <3>4 DEF AttackChanged, PointsTold
      <4> QED
        BY <3>1, <3>4, <4>1, <1>1, <2>4 DEF AreaInv, AreasCurrent, AttackersCurrent, AreaIsIn
    <3> QED
      BY <3>3, <3>4
  <2> QED
    BY <2>3, <2>4 DEF AreasCurrent, DefendersCurrent, AttackersCurrent
<1> QED
  BY <1>2, <1>3 DEF Think

\* A round starts with new areas, translated anew.
LEMMA RoundKeepsAreas ==
    ASSUME RoundStart, AreasTranslated', TypeOK', ready'
    PROVE  AreasCurrent'
<1>1. ASSUME NEW b \in Bots
      PROVE  /\ AreaIsIn(attackArea[b], validAttack[Team[b]])'
             /\ AreaIsIn(defendArea[b], validDefend[Team[b]])'
  <2>1. Team[b] \in Teams
    BY PointsAssumption
  <2>2. /\ attackArea'[b] \in AnyArea(validAttack[Team[b]])'
        /\ defendArea'[b] \in AnyArea(validDefend[Team[b]])'
    BY RoundChoices DEF TypeOK
  <2>3. validAttack'[Team[b]] \subseteq Points /\ validDefend'[Team[b]] \subseteq Points
    BY <2>1 DEF TypeOK
  <2> QED
    BY <2>2, <2>3 DEF AnyArea, AreaIsIn, AreasTranslated
<1> QED
  BY <1>1 DEF AreasCurrent, DefendersCurrent, AttackersCurrent

LEMMA BotKeepsAreas ==
    ASSUME AreaInv, NEW b \in Bots, UpdateAttackDefendPoints(b)
    PROVE  AreasCurrent'
<1>1. PICK a \in AnyArea(validAttack[Team[b]]), d \in AnyArea(validDefend[Team[b]]) :
        /\ attackArea' = [attackArea EXCEPT ![b] = a]
        /\ defendArea' = [defendArea EXCEPT ![b] = d]
  BY DEF UpdateAttackDefendPoints
<1>2. /\ pointOf' = pointOf /\ validAttack' = validAttack /\ validDefend' = validDefend
  BY DEF UpdateAttackDefendPoints, areaVars, pointVars
<1>3. Team[b] \in Teams
  BY PointsAssumption
<1>4. AreaIsIn(a, validAttack[Team[b]]) /\ AreaIsIn(d, validDefend[Team[b]])
  BY <1>3, ChosenIsValid DEF AreaInv, NothingYet, TypeOK
<1>5. \A c \in Bots : /\ attackArea'[c] = IF c = b THEN a ELSE attackArea[c]
                      /\ defendArea'[c] = IF c = b THEN d ELSE defendArea[c]
  BY <1>1 DEF AreaInv, TypeOK
<1> QED
  BY <1>2, <1>4, <1>5
     DEF AreaInv, AreasCurrent, DefendersCurrent, AttackersCurrent, AreaIsIn

LEMMA AreaStep == AreasAgree /\ AreaInv /\ [Next]_vars /\ [PointsTold]_vars => AreaInv'
<1> SUFFICES ASSUME AreasAgree, AreaInv, [Next]_vars, [PointsTold]_vars
             PROVE  AreaInv'
  OBVIOUS
<1>1. TypeOK'
  BY StepTyped DEF AreaInv
<1>2. CASE FindResource
  <2>1. AreasTranslated' /\ ready' = TRUE /\ ~ready
    BY <1>2, SetupTranslates, SetupTyped DEF FindResource
  <2>2. /\ \A t \in Teams : validAttack'[t] = {} /\ validDefend'[t] = {}
        /\ \A b \in Bots : defendArea'[b] = 0 /\ (Team[b] = Blue => attackArea'[b] = 0)
    <3>1. \A t \in Teams : validAttack[t] = {} /\ validDefend[t] = {}
      BY <2>1 DEF AreaInv, NothingYet
    <3>2. \A b \in Bots : Team[b] \in Teams
      BY PointsAssumption
    <3>3. \A b \in Bots : defendArea[b] = 0 /\ (Team[b] = Blue => attackArea[b] = 0)
      BY <3>1, <3>2 DEF AreaInv, AreasCurrent, DefendersCurrent, AttackersCurrent, AreaIsIn
    <3> QED
      BY <3>1, <3>3, <1>2 DEF FindResource, pointVars, botVars
  <2> QED
    BY <1>1, <2>1, <2>2
       DEF AreaInv, NothingYet, AreasCurrent, DefendersCurrent, AttackersCurrent, AreaIsIn
<1>3. CASE Think
  <2>1. CASE PointsTold
    <3>1. AreasCurrent'
      BY <1>1, <1>3, <2>1, ThinkKeepsAreas
    <3> QED
      BY <1>1, <1>3, <3>1 DEF Think, areaVars, AreaInv, NothingYet, AreasTranslated
  <2>2. CASE UNCHANGED vars
    BY <1>1, <2>2 DEF AreaInv, NothingYet, AreasTranslated, AreasCurrent, DefendersCurrent,
                      AttackersCurrent, AreaIsIn, vars, areaVars, pointVars, botVars
  <2> QED
    BY <2>1, <2>2
<1>4. CASE RoundStart
  <2>1. AreasTranslated' /\ ready' = TRUE
    BY <1>4, SetupTranslates, SetupTyped DEF RoundStart
  <2>2. AreasCurrent'
    BY <1>1, <1>4, <2>1, RoundKeepsAreas
  <2> QED
    BY <1>1, <2>1, <2>2 DEF AreaInv, NothingYet
<1>5. ASSUME NEW b \in Bots, UpdateAttackDefendPoints(b)
      PROVE  AreaInv'
  <2>1. AreasCurrent'
    BY <1>5, BotKeepsAreas
  <2> QED
    BY <1>1, <1>5, <2>1
       DEF UpdateAttackDefendPoints, areaVars, pointVars, AreaInv, NothingYet, AreasTranslated
<1>6. CASE UNCHANGED <<areaVars, pointVars, botVars>>
  BY <1>1, <1>6 DEF AreaInv, NothingYet, AreasTranslated, AreasCurrent, DefendersCurrent,
                    AttackersCurrent, AreaIsIn, areaVars, pointVars, botVars
<1>7. \/ FindResource \/ Think \/ RoundStart
      \/ UNCHANGED <<areaVars, pointVars, botVars>>
      \/ \E b \in Bots : UpdateAttackDefendPoints(b)
  BY DEF Next, ModFrame, PointCaptured, Unlock, SetOwner, CheckComes, UpdateComes, vars
<1> QED
  BY <1>2, <1>3, <1>4, <1>5, <1>6, <1>7

(* On a map whose areas belong to one point each, for as long as the        *)
(* signature tells the points apart: no bot defends, and none of Blue       *)
(* attacks, an area that is not valid for its team, whatever the order of   *)
(* updates, events, rounds, respawns and tasks.                             *)
THEOREM AreasStayCurrent == AreasAgree => (Spec /\ SignatureTells => []AreasCurrent)
<1> SUFFICES ASSUME AreasAgree PROVE Spec /\ SignatureTells => []AreasCurrent
  OBVIOUS
<1>1. Init => AreaInv
  BY InitTyped DEF Init, AreaInv, AreasTranslated, NothingYet, AreasCurrent,
                   DefendersCurrent, AttackersCurrent, AreaIsIn
<1>2. AreaInv /\ [Next]_vars /\ [PointsTold]_vars => AreaInv'
  BY AreaStep
<1>3. AreaInv => AreasCurrent
  BY DEF AreaInv
<1> QED
  BY <1>1, <1>2, <1>3, PTL DEF Spec, SignatureTells
-----------------------------------------------------------------------------
(* Why the plugin catches up.                                              *)

\* Updated arrays are right for the game as it is after the step.
LEMMA UpdateCatchesUp ==
    ASSUME ready', NEW rate, UpdateArrays(rate)
    PROVE  UpToDate'
<1>1. ASSUME NEW t \in Teams
      PROVE  validAttack'[t] = AttackPoints(t)' /\ validDefend'[t] = DefendPoints(t)'
  BY DEF UpdateArrays
<1> QED
  BY <1>1 DEF UpToDate

\* What a team may attack and should defend depends on the points of the game
\* and the round that the plugin knows, and on nothing else.
LEMMA PointsRest ==
    ASSUME UNCHANGED <<owner, open, round, attackDefend>>, NEW t \in Teams
    PROVE  AttackPoints(t)' = AttackPoints(t) /\ DefendPoints(t)' = DefendPoints(t)
<1>1. ASSUME NEW u
      PROVE  Takeable(u)' = Takeable(u) /\ Threatened(u)' = Threatened(u)
  BY DEF Takeable, Threatened, Available
<1>2. ASSUME NEW u PROVE Waits(u)' = Waits(u)
  BY <1>1 DEF Waits, PreviousOwned
<1>3. AttackPoints(t)' = AttackPoints(t)
  BY <1>1, <1>2 DEF AttackPoints, AtFront, NoAttack
<1>4. WaitingPoints(t)' = WaitingPoints(t)
  BY <1>1, <1>2 DEF WaitingPoints
<1>5. NextPoints(t)' = NextPoints(t)
  BY <1>1, <1>4 DEF NextPoints
<1> QED
  BY <1>1, <1>3, <1>4, <1>5 DEF DefendPoints

\* An update that is due is not called off: the flag goes with an update.  And
\* what is right stays so while the game's points and the round rest.
NoUpdateLost ==
    [][/\ updateDue /\ ~updateDue' => UpToDate'
       /\ UpToDate /\ UNCHANGED <<gameVars, round>> => UpToDate']_vars

(* The safety half of CatchesUp, on every map: whichever captures, round    *)
(* starts and checks come in between -- each sets both timers anew -- the   *)
(* update that was due takes place, it finds the points right, and they     *)
(* stay right until the game changes.                                       *)
THEOREM UpdatesTakePlace == Spec => NoUpdateLost
<1> DEFINE Kept == /\ updateDue /\ ~updateDue' => UpToDate'
                   /\ UpToDate /\ UNCHANGED <<gameVars, round>> => UpToDate'
<1>1. ASSUME Next PROVE Kept
  <2>1. CASE RoundStart
    <3>1. ready'
      BY <2>1, SetupTyped DEF RoundStart
    <3> QED
      BY <2>1, <3>1, UpdateCatchesUp DEF RoundStart
  <2>2. CASE Think /\ UpdatePoints
    <3>1. ready'
      BY <2>2 DEF Think, areaVars
    <3> QED
      BY <2>2, <3>1, UpdateCatchesUp DEF UpdatePoints
  <2>3. ASSUME updateDue' = updateDue \/ updateDue', UNCHANGED <<attackDefend, pointVars>>,
               ready => ready'
        PROVE  Kept
    <3>1. ASSUME UpToDate, UNCHANGED <<gameVars, round>> PROVE UpToDate'
      <4>1. \A t \in Teams : AttackPoints(t)' = AttackPoints(t) /\ DefendPoints(t)' = DefendPoints(t)
        BY <2>3, <3>1, PointsRest DEF gameVars
      <4>2. \A t \in Teams : validAttack'[t] = AttackPoints(t)' /\ validDefend'[t] = DefendPoints(t)'
        BY <2>3, <3>1, <4>1 DEF UpToDate, pointVars
      <4> QED
        BY <2>3, <3>1, <4>2 DEF UpToDate
    <3> QED
      BY <2>3, <3>1
  <2>4. \/ RoundStart \/ (Think /\ UpdatePoints)
        \/ /\ updateDue' = updateDue \/ updateDue'
           /\ UNCHANGED <<attackDefend, pointVars>> /\ (ready => ready')
    <3>1. Think => \/ UpdatePoints
                   \/ /\ updateDue' = updateDue
                      /\ UNCHANGED <<attackDefend, pointVars>> /\ (ready => ready')
      BY DEF Think, roundVars, areaVars
    <3>2. FindResource => /\ updateDue' = updateDue
                          /\ UNCHANGED <<attackDefend, pointVars>> /\ (ready => ready')
      BY SetupTyped DEF FindResource, roundVars, timerVars
    <3> QED
      BY <1>1, <3>1, <3>2 DEF Next, ModFrame, PointCaptured, Unlock, SetOwner, CheckComes, UpdateComes,
             UpdateAttackDefendPoints, roundVars, areaVars, timerVars
  <2> QED
    BY <2>1, <2>2, <2>3, <2>4
<1>2. [Next]_vars => [Kept]_vars
  BY <1>1
<1> QED
  BY <1>2, PTL DEF Spec, NoUpdateLost
=============================================================================
