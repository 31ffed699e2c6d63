-------------------------- MODULE BotManagerProofs --------------------------
(***************************************************************************)
(* Proofs about the bot manager, for any number of slots, any profiles and *)
(* any quota, and for both ways bots are created.                          *)
(***************************************************************************)
EXTENDS BotManager, FiniteSetTheorems, TLAPS

LEMMA Counts ==
    ASSUME NEW S \in SUBSET Slots
    PROVE  Cardinality(S) \in 0 .. MaxClients
<1>1. IsFiniteSet(Slots)
  BY ManagerAssumption
<1>2. IsFiniteSet(S) /\ Cardinality(S) <= Cardinality(Slots)
  BY <1>1, FS_Subset
<1>3. Cardinality(S) \in Nat /\ Cardinality(Slots) \in Nat
  BY <1>1, <1>2, FS_CardinalityType
<1> QED
  BY <1>2, <1>3 DEF MaxClients

LEMMA ServerCounts == MaxClients \in Nat /\ numClients \in Nat
<1>1. MaxClients \in Nat
  BY Counts, FS_CardinalityType, ManagerAssumption DEF MaxClients
<1>2. {s \in Slots : player[s] # "none"} \in SUBSET Slots
  OBVIOUS
<1>3. Cardinality({s \in Slots : player[s] # "none"}) \in 0 .. MaxClients
  BY <1>2, Counts
<1> QED
  BY <1>1, <1>3 DEF numClients

\* A bot always gets a profile.
LEMMA ProfilesGiven ==
    \A p \in NextProfiles : p \in Profiles \cup {DefaultProfile} /\ p # NoProfile
<1>1. DefaultProfile # NoProfile
  BY DEF DefaultProfile, NoProfile
<1> QED
  BY <1>1, ManagerAssumption DEF NextProfiles, Free
-----------------------------------------------------------------------------
(* A player that waits is taken over with nextProfile, so bots stay bots   *)
(* only because there is one: the three invariants hold together.          *)
Inv == TypeOK /\ BotsArePlayers /\ PuppetsHaveProfile

AddBotTyped == requests' \in 0 .. MaxClients

LEMMA AddBotKeeps ==
    ASSUME TypeOK, AddBot
    PROVE  AddBotTyped
<1>1. requests \in 0 .. MaxClients
  BY DEF TypeOK
<1> QED
  BY <1>1, ServerCounts DEF AddBot, AddBotTyped

LEMMA ManagerInit == Init => Inv
<1> SUFFICES ASSUME Init PROVE Inv
  OBVIOUS
<1>1. -1 \in -1 .. MaxClients /\ 0 \in 0 .. MaxClients
  BY ServerCounts
<1>2. TypeOK
  <2>1. player \in [Slots -> {"none", "human", "new", "fake"}]
    BY DEF Init
  <2>2. profile \in [Slots -> Profiles \cup {DefaultProfile, NoProfile}]
    BY DEF Init
  <2>3. {minBots, maxBots} \subseteq -1 .. MaxClients /\ requests \in 0 .. MaxClients
    BY <1>1 DEF Init
  <2>4. controlQueue \in Seq(Slots)
    BY DEF Init
  <2> QED
    BY <2>1, <2>2, <2>3, <2>4 DEF Init, TypeOK
<1>3. BotsArePlayers /\ PuppetsHaveProfile
  BY DEF Init, BotsArePlayers, PuppetsHaveProfile, Bots, InUse
<1> QED
  BY <1>2, <1>3 DEF Inv

LEMMA DisconnectKeeps ==
    ASSUME Inv, NEW s \in Slots, Disconnect(s), stage' \in {"idle", "control", "quota"}
    PROVE  Inv'
<1>1. TypeOK'
  BY DEF Inv, TypeOK, Disconnect, limitVars, puppetVars
<1>2. Bots' = Bots \ {s}
  BY DEF Inv, TypeOK, Disconnect, Bots, InUse
<1>3. BotsArePlayers'
  BY <1>2 DEF Inv, TypeOK, BotsArePlayers, Disconnect, Bots, InUse
<1>4. PuppetsHaveProfile'
  BY DEF Inv, PuppetsHaveProfile, Disconnect, puppetVars
<1> QED
  BY <1>1, <1>3, <1>4 DEF Inv

LEMMA CreateBotKeeps ==
    ASSUME Inv, CreateBot
    PROVE  /\ player' \in [Slots -> {"none", "human", "new", "fake"}]
           /\ profile' \in [Slots -> Profiles \cup {DefaultProfile, NoProfile}]
           /\ kicked' = kicked /\ ready' = FALSE
           /\ nextProfile' \in Profiles \cup {DefaultProfile, NoProfile}
           /\ controlNext' \in BOOLEAN /\ controlQueue' \in Seq(Slots)
           /\ BotsArePlayers' /\ PuppetsHaveProfile'
<1>1. PICK p \in NextProfiles : IF ControlBots THEN OrderPuppet(p) ELSE CreateAtOnce(p)
  BY DEF CreateBot
<1>2. p \in Profiles \cup {DefaultProfile} /\ p # NoProfile
  BY ProfilesGiven
<1>3. nextProfile' = p /\ kicked' = kicked /\ ready' = FALSE
  BY <1>1 DEF OrderPuppet, CreateAtOnce, CreateBot
<1>4. CASE OrderPuppet(p)
  <2>1. UNCHANGED profile
    BY <1>4 DEF OrderPuppet
  <2>2. /\ player' \in [Slots -> {"none", "human", "new", "fake"}]
        /\ controlQueue' \in Seq(Slots) /\ controlNext' \in BOOLEAN
        /\ \A s \in Slots : player[s] # "none" => player'[s] # "none"
    <3>1. player \in [Slots -> {"none", "human", "new", "fake"}]
          /\ controlQueue \in Seq(Slots) /\ controlNext \in BOOLEAN
      BY DEF Inv, TypeOK
    <3>2. CASE numClients = MaxClients /\ controlNext' = TRUE
               /\ UNCHANGED <<player, controlQueue>>
      BY <3>1, <3>2
    <3>3. ASSUME NEW s \in Slots, player[s] = "none",
                 player' = [player EXCEPT ![s] = "new"],
                 controlQueue' = Append(controlQueue, s), controlNext' = FALSE
          PROVE  /\ player' \in [Slots -> {"none", "human", "new", "fake"}]
                 /\ controlQueue' \in Seq(Slots) /\ controlNext' \in BOOLEAN
                 /\ \A t \in Slots : player[t] # "none" => player'[t] # "none"
      <4>1. controlQueue' \in Seq(Slots)
        BY <3>1, <3>3
      <4> QED
        BY <4>1, <3>1, <3>3
    <3> QED
      BY <1>4, <3>2, <3>3 DEF OrderPuppet
  <2>3. Bots' = Bots
    BY <2>1 DEF Bots, InUse
  <2>4. BotsArePlayers'
    BY <2>2, <2>3, <1>3 DEF Inv, BotsArePlayers, Bots
  <2> QED
    BY <1>2, <1>3, <2>1, <2>2, <2>4 DEF Inv, TypeOK, PuppetsHaveProfile
<1>5. CASE CreateAtOnce(p)
  <2>1. /\ player' \in [Slots -> {"none", "human", "new", "fake"}]
        /\ profile' \in [Slots -> Profiles \cup {DefaultProfile, NoProfile}]
        /\ \A s \in Slots : player[s] # "none" => player'[s] # "none"
        /\ \A s \in Slots : profile[s] # NoProfile => profile'[s] # NoProfile
        /\ \A s \in Slots : profile'[s] # profile[s] => player'[s] # "none"
    BY <1>5, <1>2 DEF CreateAtOnce, Inv, TypeOK
  <2>2. BotsArePlayers'
    BY <2>1, <1>3 DEF Inv, BotsArePlayers, Bots, InUse
  <2> QED
    BY <1>5, <1>2, <1>3, <2>1, <2>2 DEF Inv, TypeOK, PuppetsHaveProfile, CreateAtOnce
<1> QED
  BY <1>1, <1>4, <1>5

LEMMA KickKeeps ==
    ASSUME Inv, KickRandomBot
    PROVE  kicked' \subseteq Bots /\ kicked' \subseteq Slots /\ ready' \in BOOLEAN
  BY DEF KickRandomBot, Inv, TypeOK, BotsArePlayers, Bots

\* What neither players, profiles nor puppets are changed by.
LEMMA RestKeeps ==
    ASSUME Inv, UNCHANGED <<player, profile, puppetVars>>,
           kicked' \subseteq Bots, ready' \in BOOLEAN, requests' \in 0 .. MaxClients,
           {minBots', maxBots'} \subseteq -1 .. MaxClients,
           stage' \in {"idle", "control", "quota"}
    PROVE  Inv'
<1>1. Bots' = Bots /\ Bots \subseteq Slots
  BY DEF Bots, InUse
<1>2. TypeOK'
  BY <1>1 DEF Inv, TypeOK, puppetVars, MaxClients
<1>3. BotsArePlayers' /\ PuppetsHaveProfile'
  BY <1>1 DEF Inv, BotsArePlayers, PuppetsHaveProfile, puppetVars
<1> QED
  BY <1>2, <1>3 DEF Inv

LEMMA LimitsTyped ==
    ASSUME NEW n \in Limits
    PROVE  n > -1 => AtMostClients(n) \in -1 .. MaxClients
<1>1. n \in Int /\ MaxClients \in Nat
  BY ManagerAssumption, ServerCounts
<1> QED
  BY <1>1 DEF AtMostClients

LEMMA ControlKeeps ==
    ASSUME Inv, NEW s \in Slots, player[s] # "none",
           NEW p \in Profiles \cup {DefaultProfile}, p # NoProfile,
           profile' = [profile EXCEPT ![s] = p],
           UNCHANGED <<player, kicked>>
    PROVE  /\ profile' \in [Slots -> Profiles \cup {DefaultProfile, NoProfile}]
           /\ BotsArePlayers'
<1>1. profile' \in [Slots -> Profiles \cup {DefaultProfile, NoProfile}]
  BY DEF Inv, TypeOK
<1>2. Bots' = Bots \cup {s}
  BY DEF Inv, TypeOK, Bots, InUse
<1> QED
  BY <1>1, <1>2 DEF Inv, BotsArePlayers

LEMMA FrameStep == Inv /\ Frame => Inv'
<1> SUFFICES ASSUME Inv, Frame PROVE Inv'
  OBVIOUS
<1>t. kicked \subseteq Bots /\ ready \in BOOLEAN /\ requests \in 0 .. MaxClients
      /\ {minBots, maxBots} \subseteq -1 .. MaxClients
  BY DEF Inv, TypeOK, BotsArePlayers
<1>1. CASE BotThink
  <2>1. stage' = "control" /\ UNCHANGED limitVars
    BY <1>1 DEF BotThink
  <2>2. CASE ready /\ (NeedToAddBot \/ requests > 0)
    <3>1. CreateBot /\ requests' = IF requests > 0 THEN requests - 1 ELSE 0
      BY <1>1, <2>2 DEF BotThink
    <3>2. requests' \in 0 .. MaxClients
      BY <3>1, <1>t, ServerCounts
    <3> QED
      BY <3>1, <3>2, <2>1, <1>t, CreateBotKeeps DEF Inv, TypeOK, limitVars, MaxClients
  <2>3. CASE ~(ready /\ (NeedToAddBot \/ requests > 0))
    <3>1. /\ UNCHANGED <<player, profile, requests, puppetVars>>
          /\ KickRandomBot \/ UNCHANGED <<kicked, ready>>
      BY <1>1, <2>3 DEF BotThink
    <3>2. kicked' \subseteq Bots /\ ready' \in BOOLEAN
      BY <3>1, <1>t, KickKeeps
    <3> QED
      BY <3>1, <3>2, <2>1, <1>t, RestKeeps DEF limitVars
  <2> QED
    BY <2>2, <2>3
<1>2. CASE HandleAutomaticControl
  <2>1. stage' = "quota" /\ UNCHANGED <<player, kicked, ready, limitVars, requests,
                                        controlNext, nextProfile>>
    BY <1>2 DEF HandleAutomaticControl
  <2>2. CASE controlQueue # <<>> /\ player[Head(controlQueue)] = "fake"
    <3>1. Head(controlQueue) \in Slots /\ Tail(controlQueue) \in Seq(Slots)
      BY <2>2 DEF Inv, TypeOK
    <3>2. nextProfile # NoProfile /\ nextProfile \in Profiles \cup {DefaultProfile}
      BY <2>2 DEF Inv, PuppetsHaveProfile, TypeOK
    <3>3. /\ controlQueue' = Tail(controlQueue)
          /\ profile' = [profile EXCEPT ![Head(controlQueue)] = nextProfile]
      BY <1>2, <2>2 DEF HandleAutomaticControl
    <3>4. /\ profile' \in [Slots -> Profiles \cup {DefaultProfile, NoProfile}]
          /\ BotsArePlayers'
      BY <2>1, <2>2, <3>1, <3>2, <3>3, ControlKeeps
    <3>5. PuppetsHaveProfile'
      BY <2>1, <3>2 DEF PuppetsHaveProfile
    <3>6. TypeOK'
      BY <2>1, <3>1, <3>3, <3>4 DEF Inv, TypeOK, limitVars, MaxClients
    <3> QED
      BY <3>4, <3>5, <3>6 DEF Inv
  <2>3. CASE ~(controlQueue # <<>> /\ player[Head(controlQueue)] = "fake")
    <3>1. UNCHANGED <<controlQueue, profile>>
      BY <1>2, <2>3 DEF HandleAutomaticControl
    <3> QED
      BY <3>1, <2>1, <1>t, RestKeeps DEF limitVars, puppetVars
  <2> QED
    BY <2>2, <2>3
<1>3. CASE EndOfFrame
  <2>1. stage' = "idle"
    BY <1>3 DEF EndOfFrame
  <2>2. CASE BotQuotaCheck
    <3>1. UNCHANGED <<player, profile, limitVars, puppetVars>>
      BY <2>2 DEF BotQuotaCheck
    <3>2. kicked' \subseteq Bots /\ ready' \in BOOLEAN
      BY <2>2, <1>t DEF BotQuotaCheck
    <3>3. requests' = requests \/ AddBot
      BY <2>2 DEF BotQuotaCheck
    <3>4. requests' \in 0 .. MaxClients
      BY <3>3, <1>t, AddBotKeeps DEF AddBotTyped, Inv
    <3> QED
      BY <3>1, <3>2, <3>4, <2>1, <1>t, RestKeeps DEF limitVars
  <2>3. CASE UNCHANGED <<player, profile, kicked, ready, limitVars, requests, puppetVars>>
    BY <2>1, <2>3, <1>t, RestKeeps DEF limitVars
  <2> QED
    BY <1>3, <2>2, <2>3 DEF EndOfFrame
<1> QED
  BY <1>1, <1>2, <1>3 DEF Frame

LEMMA EngineStep == Inv /\ Engine => Inv'
<1> SUFFICES ASSUME Inv, Engine PROVE Inv'
  OBVIOUS
<1>t. kicked \subseteq Bots /\ ready \in BOOLEAN /\ requests \in 0 .. MaxClients
      /\ {minBots, maxBots} \subseteq -1 .. MaxClients
  BY DEF Inv, TypeOK, BotsArePlayers
<1>1. CASE TimePasses
  BY <1>1, <1>t, RestKeeps DEF TimePasses, Idle, limitVars
<1>2. ASSUME NEW s \in Slots, KickedLeaves(s) PROVE Inv'
  BY <1>2, DisconnectKeeps DEF KickedLeaves, Idle
<1>3. ASSUME NEW s \in Slots, PuppetReady(s) PROVE Inv'
  <2>1. /\ player' = [player EXCEPT ![s] = "fake"]
        /\ UNCHANGED <<profile, kicked, ready, limitVars, requests, puppetVars, stage>>
    BY <1>3 DEF PuppetReady, Idle
  <2>2. TypeOK'
    BY <2>1 DEF Inv, TypeOK, limitVars, puppetVars, MaxClients
  <2>3. Bots' = Bots /\ \A t \in Slots : player[t] # "none" => player'[t] # "none"
    BY <2>1 DEF Inv, TypeOK, Bots, InUse
  <2>4. BotsArePlayers' /\ PuppetsHaveProfile'
    BY <2>1, <2>3 DEF Inv, BotsArePlayers, PuppetsHaveProfile, puppetVars, Bots
  <2> QED
    BY <2>2, <2>4 DEF Inv
<1> QED
  BY <1>1, <1>2, <1>3 DEF Engine

LEMMA PlayersStep ==
    ASSUME Inv, NEW s \in Slots,
           (\E m \in BOOLEAN : HumanJoins(s, m)) \/ Leaves(s) \/ ControlCommand(s)
    PROVE  Inv'
<1>1. ASSUME NEW m \in BOOLEAN, HumanJoins(s, m) PROVE Inv'
  <2>1. /\ player' = [player EXCEPT ![s] = "human"]
        /\ UNCHANGED <<profile, kicked, ready, limitVars, requests, nextProfile, stage>>
        /\ \/ controlNext /\ controlQueue' = Append(controlQueue, s) /\ controlNext' = FALSE
           \/ UNCHANGED <<controlQueue, controlNext>>
    <3>1. CASE ControlBots /\ controlNext /\ m
      BY <1>1, <3>1 DEF HumanJoins, Idle
    <3>2. CASE ~(ControlBots /\ controlNext /\ m)
      BY <1>1, <3>2 DEF HumanJoins, Idle
    <3> QED
      BY <3>1, <3>2
  <2>2. controlQueue' \in Seq(Slots) /\ controlNext' \in BOOLEAN
    <3>1. controlQueue \in Seq(Slots) /\ controlNext \in BOOLEAN
      BY DEF Inv, TypeOK
    <3>2. CASE controlQueue' = Append(controlQueue, s) /\ controlNext' = FALSE
      <4>1. controlQueue' \in Seq(Slots)
        BY <3>1, <3>2
      <4> QED
        BY <4>1, <3>2
    <3>3. CASE UNCHANGED <<controlQueue, controlNext>>
      BY <3>1, <3>3
    <3> QED
      BY <2>1, <3>2, <3>3
  <2>3. TypeOK'
    BY <2>1, <2>2 DEF Inv, TypeOK, limitVars, MaxClients
  <2>4. Bots' = Bots /\ \A t \in Slots : player[t] # "none" => player'[t] # "none"
    BY <2>1 DEF Inv, TypeOK, Bots, InUse
  <2>5. BotsArePlayers'
    BY <2>1, <2>4 DEF Inv, BotsArePlayers, Bots
  <2>6. PuppetsHaveProfile'
    BY <2>1 DEF Inv, PuppetsHaveProfile
  <2> QED
    BY <2>3, <2>5, <2>6 DEF Inv
<1>2. CASE Leaves(s)
  BY <1>2, DisconnectKeeps DEF Leaves, Idle
<1>3. CASE ControlCommand(s)
  <2>1. PICK p \in NextProfiles : profile' = [profile EXCEPT ![s] = p]
    BY <1>3 DEF ControlCommand
  <2>2. p \in Profiles \cup {DefaultProfile} /\ p # NoProfile
    BY ProfilesGiven
  <2>3. /\ player[s] # "none" /\ ready' = FALSE
        /\ UNCHANGED <<player, kicked, limitVars, requests, puppetVars, stage>>
    BY <1>3 DEF ControlCommand, Idle
  <2>4. /\ profile' \in [Slots -> Profiles \cup {DefaultProfile, NoProfile}]
        /\ BotsArePlayers'
    BY <2>1, <2>2, <2>3, ControlKeeps
  <2>5. TypeOK' /\ PuppetsHaveProfile'
    BY <2>3, <2>4 DEF Inv, TypeOK, PuppetsHaveProfile, limitVars, puppetVars, MaxClients
  <2> QED
    BY <2>4, <2>5 DEF Inv
<1> QED
  BY <1>1, <1>2, <1>3

LEMMA DisturbanceStep == Inv /\ Disturbance => Inv'
<1> SUFFICES ASSUME Inv, Disturbance PROVE Inv'
  OBVIOUS
<1>t. /\ kicked \subseteq Bots /\ ready \in BOOLEAN /\ requests \in 0 .. MaxClients
      /\ {minBots, maxBots} \subseteq -1 .. MaxClients /\ -1 \in -1 .. MaxClients
      /\ stage \in {"idle", "control", "quota"}
  BY ServerCounts DEF Inv, TypeOK, BotsArePlayers
<1>1. ASSUME NEW s \in Slots,
             (\E m \in BOOLEAN : HumanJoins(s, m)) \/ Leaves(s) \/ ControlCommand(s)
      PROVE  Inv'
  BY <1>1, PlayersStep
<1>2. CASE MapChange
  <2>1. /\ player' = [s \in Slots |-> "none"] /\ profile' = [s \in Slots |-> NoProfile]
        /\ kicked' = {} /\ ready' = FALSE
        /\ UNCHANGED <<limitVars, requests, puppetVars, stage>>
    BY <1>2 DEF MapChange, Idle
  <2>2. TypeOK'
    BY <2>1 DEF Inv, TypeOK, limitVars, puppetVars, MaxClients
  <2>3. BotsArePlayers'
    BY <2>1 DEF BotsArePlayers, Bots, InUse
  <2>4. PuppetsHaveProfile'
    BY <2>1 DEF Inv, PuppetsHaveProfile, puppetVars
  <2> QED
    BY <2>2, <2>3, <2>4 DEF Inv
<1>3. CASE AddBotCommand
  <2>1. requests' \in 0 .. MaxClients
    BY <1>3, AddBotKeeps DEF AddBotCommand, AddBotTyped, Inv
  <2> QED
    BY <1>3, <2>1, <1>t, RestKeeps DEF AddBotCommand, Idle, limitVars
<1>4. CASE KickCommand
  BY <1>4, <1>t, KickKeeps, RestKeeps DEF KickCommand, Idle, limitVars
<1>5. ASSUME NEW n \in Limits, SetMaxBots(n) PROVE Inv'
  <2>1. n \in Int
    BY ManagerAssumption
  <2>2. maxBots' \in -1 .. MaxClients
    BY <1>5, <2>1, <1>t, LimitsTyped DEF SetMaxBots
  <2> QED
    BY <1>5, <2>2, <1>t, RestKeeps DEF SetMaxBots, Idle
<1>6. ASSUME NEW n \in Limits, SetMinBots(n) PROVE Inv'
  <2>1. n \in Int
    BY ManagerAssumption
  <2>2. minBots' \in -1 .. MaxClients
    BY <1>6, <2>1, <1>t, LimitsTyped DEF SetMinBots
  <2> QED
    BY <1>6, <2>2, <1>t, RestKeeps DEF SetMinBots, Idle
<1> QED
  BY <1>1, <1>2, <1>3, <1>4, <1>5, <1>6 DEF Disturbance

LEMMA NextStep == Inv /\ [Next]_vars => Inv'
<1>1. CASE UNCHANGED vars
  BY <1>1 DEF Inv, TypeOK, BotsArePlayers, PuppetsHaveProfile, Bots, InUse, MaxClients,
     vars, limitVars, puppetVars
<1> QED
  BY <1>1, FrameStep, EngineStep, DisturbanceStep DEF Next

LEMMA InvHolds == Spec => []Inv
  BY ManagerInit, NextStep, PTL DEF Spec
-----------------------------------------------------------------------------
(* The limits, the requests and the queue stay what the server has room    *)
(* for, whatever is given to the commands of the plugin.                   *)
THEOREM ManagerTyped == Spec => []TypeOK
<1>1. Inv => TypeOK
  BY DEF Inv
<1> QED
  BY <1>1, InvHolds, PTL

(* A bot in use is always a player of the server, and only bots are told   *)
(* to leave: no command, quota or map change leaves the manager with a bot *)
(* whose player is gone.                                                   *)
THEOREM BotsStayPlayers == Spec => []BotsArePlayers
<1>1. Inv => BotsArePlayers
  BY DEF Inv
<1> QED
  BY <1>1, InvHolds, PTL

(* A profile is there whenever handleAutomaticControl may take over a      *)
(* player, although the queue outlives disconnects and map changes.        *)
THEOREM PuppetsProfiled == Spec => []PuppetsHaveProfile
<1>1. Inv => PuppetsHaveProfile
  BY DEF Inv
<1> QED
  BY <1>1, InvHolds, PTL
-----------------------------------------------------------------------------
(* Where bots are created at once nobody ever waits to be taken over, so a *)
(* profile goes to the bot it was chosen for.                              *)
Alone == ProfilesDiffer /\ controlQueue = <<>>

LEMMA NextProfileIsFree ==
    ASSUME NEW p \in NextProfiles, p # DefaultProfile, NEW t \in Slots
    PROVE  profile[t] # p
BY DEF NextProfiles, Free

\* A profile given to one player, by createBot or by the command.
LEMMA GivenDiffers ==
    ASSUME TypeOK, ProfilesDiffer, NEW s \in Slots, NEW p \in NextProfiles,
           profile' = [profile EXCEPT ![s] = p]
    PROVE  ProfilesDiffer'
<1>1. \A t \in Slots : profile'[t] = IF t = s THEN p ELSE profile[t]
  BY DEF TypeOK
<1>2. p # DefaultProfile => \A t \in Slots : profile[t] # p
  BY NextProfileIsFree
<1> QED
  BY <1>1, <1>2 DEF ProfilesDiffer, Bots, InUse

LEMMA AloneFrame ==
    ASSUME ~ControlBots, TypeOK, Alone, Frame
    PROVE  Alone'
<1>1. CASE BotThink
  <2>1. CASE CreateBot
    <3>1. PICK p \in NextProfiles : CreateAtOnce(p)
      BY <2>1 DEF CreateBot
    <3>2. CASE UNCHANGED profile
      BY <3>1, <3>2 DEF CreateAtOnce, Alone, ProfilesDiffer, Bots, InUse
    <3>3. CASE \E s \in Slots : profile' = [profile EXCEPT ![s] = p]
      BY <3>1, <3>3, GivenDiffers DEF CreateAtOnce, Alone
    <3> QED
      BY <3>1, <3>2, <3>3 DEF CreateAtOnce
  <2>2. CASE UNCHANGED <<player, profile, requests, puppetVars>>
    BY <2>2 DEF Alone, ProfilesDiffer, Bots, InUse, puppetVars
  <2> QED
    BY <1>1, <2>1, <2>2 DEF BotThink
<1>2. CASE HandleAutomaticControl
  BY <1>2 DEF HandleAutomaticControl, Alone, ProfilesDiffer, Bots, InUse
<1>3. CASE EndOfFrame
  BY <1>3 DEF EndOfFrame, BotQuotaCheck, Alone, ProfilesDiffer, Bots, InUse, puppetVars
<1> QED
  BY <1>1, <1>2, <1>3 DEF Frame

\* A disconnect and a map change only take profiles away.
LEMMA AloneDisconnect ==
    ASSUME TypeOK, Alone, NEW s \in Slots, Disconnect(s)
    PROVE  Alone'
<1>1. \A t \in Slots : profile'[t] = IF t = s THEN NoProfile ELSE profile[t]
  BY DEF TypeOK, Disconnect
<1> QED
  BY <1>1 DEF Disconnect, Alone, ProfilesDiffer, Bots, InUse, puppetVars

LEMMA AloneStep ==
    ASSUME ~ControlBots
    PROVE  Inv /\ Alone /\ [Next]_vars => Alone'
<1> SUFFICES ASSUME Inv, Alone, [Next]_vars PROVE Alone'
  OBVIOUS
<1>t. TypeOK
  BY DEF Inv
<1>1. CASE Frame
  BY <1>1, <1>t, AloneFrame
<1>2. CASE UNCHANGED <<profile, controlQueue>>
  BY <1>2 DEF Alone, ProfilesDiffer, Bots, InUse
<1>3. CASE Engine
  <2>1. ASSUME NEW s \in Slots, KickedLeaves(s) PROVE Alone'
    BY <2>1, <1>t, AloneDisconnect DEF KickedLeaves
  <2>2. CASE TimePasses \/ \E s \in Slots : PuppetReady(s)
    BY <2>2, <1>2 DEF TimePasses, PuppetReady, puppetVars
  <2> QED
    BY <1>3, <2>1, <2>2 DEF Engine
<1>4. CASE Disturbance
  <2>1. ASSUME NEW s \in Slots, NEW m \in BOOLEAN, HumanJoins(s, m) PROVE Alone'
    BY <2>1, <1>2 DEF HumanJoins
  <2>2. ASSUME NEW s \in Slots, Leaves(s) PROVE Alone'
    BY <2>2, <1>t, AloneDisconnect DEF Leaves
  <2>3. ASSUME NEW s \in Slots, ControlCommand(s) PROVE Alone'
    <3>1. PICK p \in NextProfiles : profile' = [profile EXCEPT ![s] = p]
      BY <2>3 DEF ControlCommand
    <3> QED
      BY <2>3, <3>1, <1>t, GivenDiffers DEF ControlCommand, Alone, puppetVars
  <2>4. CASE MapChange
    BY <2>4 DEF MapChange, Alone, ProfilesDiffer, Bots, InUse, puppetVars
  <2>5. CASE AddBotCommand \/ KickCommand
    BY <2>5, <1>2 DEF AddBotCommand, KickCommand, puppetVars
  <2>6. ASSUME NEW n \in Limits, SetMaxBots(n) \/ SetMinBots(n) PROVE Alone'
    BY <2>6, <1>2 DEF SetMaxBots, SetMinBots, puppetVars
  <2> QED
    BY <1>4, <2>1, <2>2, <2>3, <2>4, <2>5, <2>6 DEF Disturbance
<1>5. CASE UNCHANGED vars
  BY <1>5, <1>2 DEF vars, puppetVars
<1> QED
  BY <1>1, <1>3, <1>4, <1>5 DEF Next

(* getRandomFreeProfile: no two bots that are created at once share a      *)
(* profile, but the default one when the others are in use.                *)
THEOREM ProfilesStayDifferent ==
    ASSUME ~ControlBots
    PROVE  Spec => []ProfilesDiffer
<1>1. Init => Alone
  BY DEF Init, Alone, ProfilesDiffer, Bots, InUse
<1>2. Inv /\ Alone /\ [Next]_vars => Alone'
  BY AloneStep
<1>3. Alone => ProfilesDiffer
  BY DEF Alone
<1> QED
  BY <1>1, <1>2, <1>3, InvHolds, PTL DEF Spec

-----------------------------------------------------------------------------
\* The numbers of bots and of clients change by one at a time.

LEMMA OneMoreOrLess ==
    ASSUME NEW S \in SUBSET Slots, NEW s \in Slots, NEW T,
           T = S \/ T = S \cup {s} \/ T = S \ {s}
    PROVE  /\ Cardinality(S) \in Nat /\ Cardinality(T) \in Nat
           /\ Cardinality(T) <= Cardinality(S) + 1 /\ Cardinality(S) <= Cardinality(T) + 1
<1>1. IsFiniteSet(S)
  BY ManagerAssumption, FS_Subset
<1>2. Cardinality(S) \in Nat
  BY <1>1, FS_CardinalityType
<1>3. Cardinality(S \cup {s}) = IF s \in S THEN Cardinality(S) ELSE Cardinality(S) + 1
  BY <1>1, FS_AddElement
<1>4. Cardinality(S \ {s}) = IF s \in S THEN Cardinality(S) - 1 ELSE Cardinality(S)
  BY <1>1, FS_RemoveElement
<1>5. s \in S => Cardinality(S) # 0
  BY <1>1, FS_EmptySet
<1>6. CASE T = S
  BY <1>2, <1>6
<1>7. CASE T = S \cup {s}
  BY <1>2, <1>3, <1>7
<1>8. CASE T = S \ {s}
  BY <1>2, <1>4, <1>5, <1>8
<1> QED
  BY <1>6, <1>7, <1>8

ChangesOnly(s) ==
    \A t \in Slots \ {s} : player'[t] = player[t] /\ profile'[t] = profile[t]

LEMMA CountsChangeByOne ==
    ASSUME NEW s \in Slots, ChangesOnly(s)
    PROVE  /\ numBots \in Nat /\ numBots' \in Nat /\ numClients \in Nat /\ numClients' \in Nat
           /\ numBots' <= numBots + 1 /\ numBots <= numBots' + 1
           /\ numClients' <= numClients + 1 /\ numClients <= numClients' + 1
<1> DEFINE Clients == {t \in Slots : player[t] # "none"}
<1>1. Bots \in SUBSET Slots /\ Clients \in SUBSET Slots
  BY DEF Bots
<1>2. Bots' = Bots \/ Bots' = Bots \cup {s} \/ Bots' = Bots \ {s}
  BY DEF ChangesOnly, Bots, InUse
<1>3. Clients' = Clients \/ Clients' = Clients \cup {s} \/ Clients' = Clients \ {s}
  BY DEF ChangesOnly
<1>4. numClients = Cardinality(Clients) /\ numClients' = Cardinality(Clients')
  BY DEF numClients
<1> HIDE DEF Clients
<1> QED
  BY <1>1, <1>2, <1>3, <1>4, OneMoreOrLess DEF numBots

\* A step of a frame or of the engine creates, takes over, marks or loses one
\* player at most.
LEMMA OneSlotChanges ==
    ASSUME Inv, Frame \/ Engine
    PROVE  \E s \in Slots : ChangesOnly(s)
<1>1. /\ player \in [Slots -> {"none", "human", "new", "fake"}]
      /\ profile \in [Slots -> Profiles \cup {DefaultProfile, NoProfile}]
      /\ controlQueue \in Seq(Slots)
  BY DEF Inv, TypeOK
<1>2. PICK s0 \in Slots : TRUE
  BY ManagerAssumption
<1>3. CASE UNCHANGED <<player, profile>>
  BY <1>2, <1>3 DEF ChangesOnly
<1>4. CASE CreateBot
  <2>1. PICK p \in NextProfiles : IF ControlBots THEN OrderPuppet(p) ELSE CreateAtOnce(p)
    BY <1>4 DEF CreateBot
  <2>2. CASE OrderPuppet(p)
    <3>1. ASSUME NEW s \in Slots, player' = [player EXCEPT ![s] = "new"], UNCHANGED profile
          PROVE  ChangesOnly(s)
      BY <1>1, <3>1 DEF ChangesOnly
    <3> QED
      BY <1>3, <2>2, <3>1 DEF OrderPuppet
  <2>3. CASE CreateAtOnce(p)
    <3>1. ASSUME NEW s \in Slots, player' = [player EXCEPT ![s] = "fake"],
                 profile' = [profile EXCEPT ![s] = p]
          PROVE  ChangesOnly(s)
      BY <1>1, <3>1 DEF ChangesOnly
    <3> QED
      BY <1>3, <2>3, <3>1 DEF CreateAtOnce
  <2> QED
    BY <2>1, <2>2, <2>3
<1>5. CASE BotThink \/ EndOfFrame
  <2>1. CreateBot \/ UNCHANGED <<player, profile>>
    BY <1>5 DEF BotThink, EndOfFrame, BotQuotaCheck
  <2> QED
    BY <2>1, <1>3, <1>4
<1>6. CASE HandleAutomaticControl
  <2>1. CASE controlQueue # <<>> /\ player[Head(controlQueue)] = "fake"
    <3>1. Head(controlQueue) \in Slots /\ UNCHANGED player
          /\ profile' = [profile EXCEPT ![Head(controlQueue)] = nextProfile]
      BY <1>1, <1>6, <2>1 DEF HandleAutomaticControl
    <3>2. ChangesOnly(Head(controlQueue))
      BY <1>1, <3>1 DEF ChangesOnly
    <3> QED
      BY <3>1, <3>2
  <2> QED
    BY <1>3, <1>6, <2>1 DEF HandleAutomaticControl
<1>7. CASE Engine
  <2>1. ASSUME NEW s \in Slots, KickedLeaves(s) \/ PuppetReady(s) PROVE ChangesOnly(s)
    BY <1>1, <2>1 DEF KickedLeaves, PuppetReady, Disconnect, ChangesOnly
  <2> QED
    BY <1>3, <1>7, <2>1 DEF Engine, TimePasses
<1> QED
  BY <1>5, <1>6, <1>7 DEF Frame

\* No step of a frame or of the engine, by which the manager creates, takes
\* over and kicks, turns a need for more bots into one for fewer, or back.
LimitsDoNotFight ==
    [][Frame \/ Engine => /\ NeedToAddBot => ~NeedToKickBot'
                          /\ NeedToKickBot => ~NeedToAddBot']_vars

(* The reason for Settles, for any limits that were set and any number of  *)
(* slots: min_bots counts bots and max_bots counts all players, but what   *)
(* one of them makes the manager do never gives the other cause to undo it.*)
THEOREM LimitsWorkTogether == Spec => LimitsDoNotFight
<1> DEFINE Peace == Frame \/ Engine => /\ NeedToAddBot => ~NeedToKickBot'
                                       /\ NeedToKickBot => ~NeedToAddBot'
<1>1. Inv /\ [Next]_vars => [Peace]_vars
  <2> SUFFICES ASSUME Inv, Frame \/ Engine
               PROVE  /\ NeedToAddBot => ~NeedToKickBot'
                      /\ NeedToKickBot => ~NeedToAddBot'
    OBVIOUS
  <2>1. UNCHANGED limitVars
    BY DEF Frame, Engine, BotThink, HandleAutomaticControl, EndOfFrame, BotQuotaCheck,
           TimePasses, KickedLeaves, Disconnect, PuppetReady
  <2>2. minBots' = minBots /\ maxBots' = maxBots /\ minBots \in Int /\ maxBots \in Int
    BY <2>1, ServerCounts DEF limitVars, Inv, TypeOK
  <2>3. PICK s \in Slots : ChangesOnly(s)
    BY OneSlotChanges
  <2>4. /\ numBots \in Nat /\ numBots' \in Nat /\ numClients \in Nat /\ numClients' \in Nat
        /\ numBots' <= numBots + 1 /\ numBots <= numBots' + 1
        /\ numClients' <= numClients + 1 /\ numClients <= numClients' + 1
    BY <2>3, CountsChangeByOne
  <2>5. ASSUME NeedToAddBot PROVE ~NeedToKickBot'
    BY <2>2, <2>4, <2>5 DEF NeedToAddBot, NeedToKickBot
  <2>6. ASSUME NeedToKickBot PROVE ~NeedToAddBot'
    <3>1. (minBots = -1 \/ numBots > minBots) /\ numClients > maxBots
      BY <2>2, <2>4, <2>6 DEF NeedToKickBot
    <3>2. \A a, b \in Nat, n \in Int : a > n /\ a <= b + 1 => ~(b < n)
      OBVIOUS
    <3>3. minBots = -1 \/ ~(numBots' < minBots)
      BY <2>2, <2>4, <3>1, <3>2
    <3>4. ~(numClients' < maxBots)
      BY <2>2, <2>4, <3>1, <3>2
    <3> QED
      BY <2>2, <3>3, <3>4 DEF NeedToAddBot
  <2> QED
    BY <2>5, <2>6
<1> QED
  BY <1>1, InvHolds, PTL DEF Spec, LimitsDoNotFight
=============================================================================
