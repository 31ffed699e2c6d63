----------------------------- MODULE BotManager -----------------------------
(***************************************************************************)
(* CBots of bot.cpp and the quota check of the plugin: which players are   *)
(* bots.  In every frame the manager adds or kicks a bot to keep their     *)
(* number between min_bots and max_bots, takes over a player that waits    *)
(* for it, and compares the number of bots with the quota.  Between frames *)
(* players come and go, commands are given and the map changes.            *)
(* Some games let the plugin create players that are bots at once; in      *)
(* others (TF2, DOD) it orders a puppet by a server command, and takes it  *)
(* over when the engine has marked it as a fake client.                    *)
(***************************************************************************)
EXTENDS Integers, Sequences, FiniteSets

CONSTANTS Slots,       \* the player slots of the server
          Profiles,    \* the bot profiles that were read from files
          Limits,      \* what is given to the commands min_bots and max_bots
          Quota,       \* m_iTargetBots, by number of humans
          QuotaOn,     \* rcbot_bot_quota_interval > 0
          ControlBots, \* m_bControlBotsOnly: bots are puppets
          MaxWaiting   \* bound on m_ControlQueue when a waiting player goes

DefaultProfile == "default"
NoProfile      == "none"

ASSUME ManagerAssumption ==
    /\ IsFiniteSet(Slots) /\ Slots # {}
    /\ {DefaultProfile, NoProfile} \cap Profiles = {}
    /\ Limits \subseteq Int
    /\ Quota \in [0 .. Cardinality(Slots) -> Nat]
    /\ {QuotaOn, ControlBots} \subseteq BOOLEAN
    /\ MaxWaiting \in Nat

VARIABLES player,       \* who is in a slot; "new" is a fake client to be marked as such
          profile,      \* m_Bots[]: the profile of a bot in use
          kicked,       \* players the engine was told to kick
          ready,        \* m_flAddKickBotTime is over
          minBots, maxBots, requests, \* m_iMinBots, m_iMaxBots, size of m_AddBotQueue
          controlNext,  \* m_bControlNext
          nextProfile,  \* m_pNextProfile
          controlQueue, \* m_ControlQueue
          stage         \* how far the frame is

puppetVars == <<controlNext, nextProfile, controlQueue>>
limitVars  == <<minBots, maxBots>>
vars == <<player, profile, kicked, ready, limitVars, requests, puppetVars, stage>>

MaxClients == Cardinality(Slots)

Init ==
    /\ player = [s \in Slots |-> "none"] /\ profile = [s \in Slots |-> NoProfile]
    /\ kicked = {} /\ ready = FALSE
    /\ minBots = -1 /\ maxBots = -1 /\ requests = 0
    /\ controlNext = FALSE /\ nextProfile = NoProfile /\ controlQueue = <<>>
    /\ stage = "idle"

InUse(s) == profile[s] # NoProfile

Bots       == {s \in Slots : InUse(s)}
numBots    == Cardinality(Bots)
numClients == Cardinality({s \in Slots : player[s] # "none"})

Waits(s) == \E i \in DOMAIN controlQueue : controlQueue[i] = s

\* The server is between two frames.
Idle == stage = "idle" /\ UNCHANGED stage
-----------------------------------------------------------------------------
(* Players come and go.                                                    *)

\* A player may have the name of the puppet that is expected.
HumanJoins(s, matches) ==
    /\ Idle /\ player[s] = "none"
    /\ player' = [player EXCEPT ![s] = "human"]
    /\ IF ControlBots /\ controlNext /\ matches
       THEN controlQueue' = Append(controlQueue, s) /\ controlNext' = FALSE
       ELSE UNCHANGED <<controlQueue, controlNext>>
    /\ UNCHANGED <<profile, kicked, ready, limitVars, requests, nextProfile>>

DisconnectKeepsBot(s) ==
    /\ player' = [player EXCEPT ![s] = "none"]
    /\ kicked' = kicked \ {s}
    /\ UNCHANGED <<profile, ready, limitVars, requests, puppetVars>>

\* A waiting player that goes stays in the queue.
Disconnect(s) ==
    /\ player' = [player EXCEPT ![s] = "none"]
    /\ profile' = [profile EXCEPT ![s] = NoProfile]
    /\ kicked' = kicked \ {s}
    /\ UNCHANGED <<ready, limitVars, requests, puppetVars>>

Leaves(s) ==
    /\ Idle /\ player[s] # "none" /\ s \notin kicked
    /\ Waits(s) => Len(controlQueue) < MaxWaiting
    /\ Disconnect(s)

\* The engine executes a kickid command, or the player goes before it does.
KickedLeaves(s) == Idle /\ s \in kicked /\ Disconnect(s)

\* A puppet is marked as a fake client.
PuppetReady(s) ==
    /\ Idle /\ player[s] = "new"
    /\ player' = [player EXCEPT ![s] = "fake"]
    /\ UNCHANGED <<profile, kicked, ready, limitVars, requests, puppetVars>>

\* The two or three seconds are over; players that were kicked have left.
TimePasses ==
    /\ Idle /\ ~ready /\ kicked = {}
    /\ ready' = TRUE
    /\ UNCHANGED <<player, profile, kicked, limitVars, requests, puppetVars>>

\* Bots are freed and every player has to join again; what was asked for is kept.
MapChange ==
    /\ Idle /\ Len(controlQueue) < MaxWaiting
    /\ player' = [s \in Slots |-> "none"] /\ profile' = [s \in Slots |-> NoProfile]
    /\ kicked' = {} /\ ready' = FALSE
    /\ UNCHANGED <<limitVars, requests, puppetVars>>
-----------------------------------------------------------------------------
(* Bots are created and kicked.                                            *)

Free == {p \in Profiles : \A s \in Slots : profile[s] # p}

AnyProfile == Profiles
NextProfiles == IF Free = {} THEN {DefaultProfile} ELSE Free

\* A puppet joins while the command that orders it is executed; there is none
\* when the server is full, and the next player with a matching name is it.
OrderPuppet(p) ==
    /\ nextProfile' = p
    /\ UNCHANGED <<profile, kicked>>
    /\ \/ \E s \in Slots :
            /\ player[s] = "none"
            /\ player' = [player EXCEPT ![s] = "new"]
            /\ controlQueue' = Append(controlQueue, s) /\ controlNext' = FALSE
       \/ /\ numClients = MaxClients
          /\ controlNext' = TRUE /\ UNCHANGED <<player, controlQueue>>

CreateAtOnce(p) ==
    /\ nextProfile' = p
    /\ UNCHANGED <<kicked, controlNext, controlQueue>>
    /\ \/ \E s \in Slots :
            /\ player[s] = "none"
            /\ player' = [player EXCEPT ![s] = "fake"]
            /\ profile' = [profile EXCEPT ![s] = p]
       \/ numClients = MaxClients /\ UNCHANGED <<player, profile>>

\* createBot that keeps the profile to itself.
CreateNameless ==
    /\ ready' = FALSE
    /\ \E p \in NextProfiles : IF ControlBots
          THEN \E s \in Slots :
                 /\ player[s] = "none"
                 /\ player' = [player EXCEPT ![s] = "new"]
                 /\ controlQueue' = Append(controlQueue, s)
                 /\ UNCHANGED <<profile, kicked, controlNext, nextProfile>>
          ELSE CreateAtOnce(p)

\* createBot, which reports that max_bots is reached and goes on.
CreateBot ==
    /\ ready' = FALSE
    /\ \E p \in NextProfiles : IF ControlBots THEN OrderPuppet(p) ELSE CreateAtOnce(p)

KickRandomBot ==
    IF Bots = {} THEN UNCHANGED <<kicked, ready>>
    ELSE ready' = FALSE /\ \E s \in Bots : kicked' = kicked \cup {s}

AddBot ==
    requests' = IF numClients + requests < MaxClients THEN requests + 1 ELSE requests

AddBotCommand ==
    /\ Idle
    /\ AddBot
    /\ UNCHANGED <<player, profile, kicked, ready, limitVars, puppetVars>>

KickCommand ==
    /\ Idle
    /\ KickRandomBot
    /\ UNCHANGED <<player, profile, limitVars, requests, puppetVars>>

\* The command that turns a player that is no bot into one.
ControlCommand(s) ==
    /\ Idle /\ player[s] # "none" /\ ~InUse(s)
    /\ maxBots = -1 \/ numClients < maxBots
    /\ Waits(s) => Len(controlQueue) < MaxWaiting
    /\ ready' = FALSE
    /\ \E p \in NextProfiles : profile' = [profile EXCEPT ![s] = p]
    /\ UNCHANGED <<player, kicked, limitVars, requests, puppetVars>>

NotCutDown(n)    == n
AtMostClients(n) == IF n > MaxClients THEN MaxClients ELSE n

\* The order is checked before the number is cut down to maxplayers.
SetMaxBots(n) ==
    /\ Idle
    /\ n <= -1 \/ minBots < 0 \/ n > minBots
    /\ maxBots' = IF n <= -1 THEN -1 ELSE AtMostClients(n)
    /\ UNCHANGED <<player, profile, kicked, ready, minBots, requests, puppetVars>>

SetMinBots(n) ==
    /\ Idle
    /\ n <= -1 \/ maxBots < 0 \/ AtMostClients(n) < maxBots
    /\ minBots' = IF n <= -1 THEN -1 ELSE AtMostClients(n)
    /\ UNCHANGED <<player, profile, kicked, ready, maxBots, requests, puppetVars>>
-----------------------------------------------------------------------------
(* A frame.                                                                *)

NeedToFillUp == maxBots # -1 /\ numClients < maxBots
NeedToAddBot ==
    \/ minBots # -1 /\ numBots < minBots
    \/ maxBots # -1 /\ numClients < maxBots

KickAnyway    == maxBots > 0 /\ numClients >= maxBots
NeedToKickBot ==
    /\ ~(minBots # -1 /\ numBots <= minBots)
    /\ maxBots > 0 /\ numClients > maxBots

\* botThink, after the bots have thought.
BotThink ==
    /\ stage = "idle" /\ stage' = "control"
    /\ UNCHANGED limitVars
    /\ IF ready /\ (NeedToAddBot \/ requests > 0)
       THEN /\ requests' = IF requests > 0 THEN requests - 1 ELSE 0
            /\ CreateBot
       ELSE /\ UNCHANGED <<player, profile, requests, puppetVars>>
            /\ IF ready /\ NeedToKickBot THEN KickRandomBot ELSE UNCHANGED <<kicked, ready>>

\* The first in the queue, when it is marked; no other is looked at.
HandleAutomaticControl ==
    /\ stage = "control" /\ stage' = "quota"
    /\ IF controlQueue # <<>> /\ player[Head(controlQueue)] = "fake"
       THEN /\ controlQueue' = Tail(controlQueue)
            /\ profile' = [profile EXCEPT ![Head(controlQueue)] = nextProfile]
       ELSE UNCHANGED <<controlQueue, profile>>
    /\ UNCHANGED <<player, kicked, ready, limitVars, requests, controlNext, nextProfile>>

\* Players that are not marked yet count as humans; and bots are drawn, and
\* told to leave, one by one, maybe the same one twice.
BotCount   == Cardinality({s \in Bots : player[s] = "fake"})
HumanCount == Cardinality({s \in Slots : player[s] \in {"human", "new"}})

BotQuotaCheck ==
    LET target == Quota[HumanCount]
    IN  /\ QuotaOn
        /\ UNCHANGED <<player, profile, limitVars, puppetVars>>
        /\ IF target < BotCount
           THEN /\ \E K \in SUBSET Bots :
                     /\ Cardinality(K) \in 1 .. BotCount - target
                     /\ kicked' = kicked \cup K
                /\ ready' = FALSE /\ UNCHANGED requests
           ELSE /\ IF target > BotCount THEN AddBot ELSE UNCHANGED requests
                /\ UNCHANGED <<kicked, ready>>

EndOfFrame ==
    /\ stage = "quota" /\ stage' = "idle"
    /\ \/ BotQuotaCheck
       \/ UNCHANGED <<player, profile, kicked, ready, limitVars, requests, puppetVars>>

Frame == BotThink \/ HandleAutomaticControl \/ EndOfFrame

Engine == TimePasses \/ \E s \in Slots : KickedLeaves(s) \/ PuppetReady(s)

Disturbance ==
    \/ \E s \in Slots : (\E m \in BOOLEAN : HumanJoins(s, m)) \/ Leaves(s) \/ ControlCommand(s)
    \/ MapChange \/ AddBotCommand \/ KickCommand
    \/ \E n \in Limits : SetMaxBots(n) \/ SetMinBots(n)

Next == Frame \/ Engine \/ Disturbance

Spec == Init /\ [][Next]_vars

\* The engine runs frame after frame; between two of them time passes, players
\* that were told to leave do so, and fake clients are marked.
FairSpec ==
    /\ Spec
    /\ WF_vars(Frame) /\ SF_vars(TimePasses)
    /\ \A s \in Slots : SF_vars(KickedLeaves(s)) /\ SF_vars(PuppetReady(s))
-----------------------------------------------------------------------------
TypeOK ==
    /\ player \in [Slots -> {"none", "human", "new", "fake"}]
    /\ profile \in [Slots -> Profiles \cup {DefaultProfile, NoProfile}]
    /\ kicked \subseteq Slots /\ ready \in BOOLEAN
    /\ {minBots, maxBots} \subseteq -1 .. MaxClients /\ requests \in 0 .. MaxClients
    /\ controlNext \in BOOLEAN /\ controlQueue \in Seq(Slots)
    /\ nextProfile \in Profiles \cup {DefaultProfile, NoProfile}
    /\ stage \in {"idle", "control", "quota"}

(* A bot in use is a player in its slot, whoever has left, joined or been  *)
(* kicked since; and only bots are told to leave.                          *)
BotsArePlayers == kicked \subseteq Bots /\ \A s \in Bots : player[s] # "none"

(* Whenever a player waits to be taken over, or may come to, there is a    *)
(* profile for it (createBotFromEdict reads it without a test).            *)
PuppetsHaveProfile ==
    controlNext \/ controlQueue # <<>> => nextProfile # NoProfile

(* "return a profile unused by a bot" (bot_profile.cpp:181): no two bots   *)
(* share a profile, but for the default one.  True where bots are created  *)
(* at once; a puppet gets its profile long after this was chosen.          *)
ProfilesDiffer ==
    \A s, t \in Bots : profile[s] = profile[t] => s = t \/ profile[s] = DefaultProfile

Adds  == stage = "idle" /\ stage' = "control" /\ numClients' > numClients
Kicks == stage = "idle" /\ stage' = "control" /\ kicked' # kicked

(* What keeps the manager from its rest: commands, players, and the quota. *)
QuotaActs == stage = "quota" /\ <<kicked, ready, requests>>' # <<kicked, ready, requests>>
Disturbed == []<><<Disturbance \/ QuotaActs>>_vars

(* When nobody interferes any more, the manager stops adding and kicking:  *)
(* min_bots and max_bots do not work against each other.                   *)
Settles == <>[][~Adds /\ ~Kicks]_vars \/ Disturbed

Within ==
    /\ minBots # -1 => numBots >= minBots \/ numClients = MaxClients
    /\ maxBots > 0  => numClients <= maxBots \/ numBots = 0 \/ numBots <= minBots

(* ... and there are as many bots as was asked for, as far as they fit.    *)
LimitsReached == <>[]Within \/ Disturbed
=============================================================================
