------------------------------- MODULE Squads -------------------------------
(***************************************************************************)
(* The squads of the bots (CBotSquads).  Membership is kept twice: a squad *)
(* has its leader and a stack of followers, and a bot has a pointer to its *)
(* squad.  Voice commands, deaths, players who leave and map changes alter *)
(* one side or the other.  Squads hold players by handles, which read as   *)
(* NULL once the player has left (bot_ehandle.h).                          *)
(***************************************************************************)
EXTENDS Naturals, Sequences, SequencesExt

CONSTANTS Players,   \* who plays, humans and bots
          Bots,      \* the players that are bots
          NoOne,     \* what a handle to a player who has left reads as
          SquadIds,  \* where squads are allocated
          NoSquad,
          MaxMembers \* bound: the handles in a squad's stack

ASSUME BotsAssumption == Bots \subseteq Players /\ NoOne \notin Players
ASSUME IdsAssumption == NoSquad \notin SquadIds
ASSUME MaxMembersAssumption == MaxMembers \in Nat \ {0}

VARIABLES squads,  \* m_theSquads, the top first
          leader,  \* m_pLeader of each squad
          members, \* m_theSquad of each squad, the top first
          mySquad, \* m_pSquad of each bot
          dying,   \* whose death event is being handled
          strayed  \* history: bots that died since they came to their squad

vars == <<squads, leader, members, mySquad, dying, strayed>>

Init ==
    /\ squads = <<>>
    /\ leader = [s \in SquadIds |-> NoOne]
    /\ members = [s \in SquadIds |-> <<>>]
    /\ mySquad = [b \in Bots |-> NoSquad]
    /\ dying = NoOne
    /\ strayed = {}

In(x, list) == \E i \in DOMAIN list : list[i] = x

First(x, list) ==
    CHOOSE i \in DOMAIN list : list[i] = x /\ \A j \in DOMAIN list : list[j] = x => i <= j

\* removeMember and dataStack::Remove take out the first that fits.
Without(x, list) == IF In(x, list) THEN RemoveAt(list, First(x, list)) ELSE list

Listed(s) == In(s, squads)

\* AddMember, on the stacks of all squads.
Added(stacks, s, b) ==
    IF In(b, stacks[s]) THEN stacks ELSE [stacks EXCEPT ![s] = <<b>> \o stacks[s]]

HasLeader(stacks, p, s) == leader[s] = p \/ In(p, stacks[s])

\* The scenarios of AddSquadMember: the first squad from the top that p leads
\* or follows takes b, else a new one is made.  The caller assigns the result
\* to the m_pSquad of b.  Teams change at any time, so whether the two are
\* on one team is left open.
NoSquadFor(stacks, b) ==
    /\ members' = stacks
    /\ mySquad' = [mySquad EXCEPT ![b] = NoSquad]
    /\ strayed' = strayed \ {b}
    /\ UNCHANGED <<squads, leader>>

JoinSquadOf(stacks, p, b) ==
    \E i \in DOMAIN squads :
        /\ HasLeader(stacks, p, squads[i])
        /\ \A j \in DOMAIN squads : HasLeader(stacks, p, squads[j]) => i <= j
        /\ Len(stacks[squads[i]]) < MaxMembers
        /\ members' = Added(stacks, squads[i], b)
        /\ mySquad' = [mySquad EXCEPT ![b] = squads[i]]
        /\ strayed' = strayed \ {b}
        /\ UNCHANGED <<squads, leader>>

MakeSquad(stacks, p, b) ==
    /\ \A i \in DOMAIN squads : ~HasLeader(stacks, p, squads[i])
    /\ \E s \in SquadIds :
        /\ ~Listed(s)
        /\ squads' = <<s>> \o squads
        /\ leader' = [leader EXCEPT ![s] = p]
        /\ members' = [stacks EXCEPT ![s] = <<b>>]
        /\ mySquad' = [x \in Bots |-> IF x \in {b, p} THEN s ELSE mySquad[x]]
        /\ strayed' = strayed \ {b, p}

AddSquadMember(stacks, p, b) ==
    NoSquadFor(stacks, b) \/ JoinSquadOf(stacks, p, b) \/ MakeSquad(stacks, p, b)

\* A bot without a squad is called to stick together with p, or its schedule
\* to follow p to a flag comes to CBotJoinSquad.
Join(b, p) ==
    /\ dying = NoOne /\ b # p
    /\ mySquad[b] = NoSquad
    /\ AddSquadMember(members, p, b)
    /\ UNCHANGED dying

StaysInStack(b) == members

\* The stacks after a bot was removed from its squad.
LeftStack(b) == [members EXCEPT ![mySquad[b]] = Without(b, members[mySquad[b]])]

\* A bot is called away by p, who is not its leader, while it does not see its
\* own leader or is too far from it.
ChangeSquad(b, p) ==
    /\ dying = NoOne /\ b # p
    /\ mySquad[b] # NoSquad /\ leader[mySquad[b]] # p
    /\ AddSquadMember(LeftStack(b), p, b)
    /\ UNCHANGED dying

\* "Displace": the leader sends a follower away.
Displace(b) ==
    /\ dying = NoOne
    /\ mySquad[b] # NoSquad /\ leader[mySquad[b]] \notin {NoOne, b}
    /\ NoSquadFor(LeftStack(b), b)
    /\ UNCHANGED dying

Unclear(s) == mySquad' = mySquad

\* CRemoveBotFromSquad, for every bot.
Cleared(s) == mySquad' = [x \in Bots |-> IF mySquad[x] = s THEN NoSquad ELSE mySquad[x]]

\* RemoveSquad deletes the squad; ChangeLeader only takes it off the stack.
Dissolve(s) ==
    /\ squads' = Without(s, squads)
    /\ leader' = [leader EXCEPT ![s] = NoOne]
    /\ members' = [members EXCEPT ![s] = <<>>]
    /\ Cleared(s)

\* CBot::died: a bot that dies leaves the stack of its squad, but not its squad.
\* Nobody but its followers counts for a squad to go on.
Die(p) ==
    /\ dying = NoOne /\ dying' = p
    /\ \/ /\ p \in Bots /\ mySquad[p] # NoSquad
          /\ LET left == LeftStack(p)[mySquad[p]]
             IN  \/ Len(left) <= 1 /\ Dissolve(mySquad[p]) /\ UNCHANGED strayed
                 \/ /\ Len(left) > 1
                    /\ members' = LeftStack(p)
                    /\ strayed' = strayed \cup {p}
                    /\ UNCHANGED <<squads, leader, mySquad>>
       \/ /\ p \in Bots => mySquad[p] = NoSquad
          /\ UNCHANGED <<squads, leader, members, mySquad, strayed>>

\* CBotSquads::ChangeLeader: the top follower leads, if that is not the only
\* follower or a player who has left.
OldestFollower(s) == Last(members[s])
TopFollower(s)    == Head(members[s])

StaysLeaderless(s) == Len(members[s]) > 1
StaysOn(s) == Len(members[s]) > 1 /\ TopFollower(s) # NoOne

ChangeLeader(s) ==
    IF StaysOn(s)
    THEN /\ leader' = [leader EXCEPT ![s] = TopFollower(s)]
         /\ members' = [members EXCEPT ![s] = Tail(members[s])]
         /\ UNCHANGED <<squads, mySquad>>
    ELSE Dissolve(s)

\* The end of CPlayerDeathEvent::execute: the first squad that the dead player
\* leads gets another leader.
DeathHandled ==
    /\ dying # NoOne /\ dying' = NoOne
    /\ \/ \E i \in DOMAIN squads :
             /\ leader[squads[i]] = dying
             /\ \A j \in DOMAIN squads : leader[squads[j]] = dying => i <= j
             /\ ChangeLeader(squads[i])
       \/ /\ \A i \in DOMAIN squads : leader[squads[i]] # dying
          /\ UNCHANGED <<squads, leader, members, mySquad>>
    /\ UNCHANGED strayed

\* A player leaves; a bot's memory is freed.
Disconnect(p) ==
    /\ dying = NoOne
    /\ leader' = [s \in SquadIds |-> IF leader[s] = p THEN NoOne ELSE leader[s]]
    /\ members' = [s \in SquadIds |-> [i \in DOMAIN members[s] |->
                        IF members[s][i] = p THEN NoOne ELSE members[s][i]]]
    /\ mySquad' = [b \in Bots |-> IF b = p THEN NoSquad ELSE mySquad[b]]
    /\ strayed' = strayed \ {p}
    /\ UNCHANGED <<squads, dying>>

\* The bots are freed at the end of a map, the squads when the next one starts.
MapChange ==
    /\ dying = NoOne
    /\ squads' = <<>>
    /\ leader' = [s \in SquadIds |-> NoOne]
    /\ members' = [s \in SquadIds |-> <<>>]
    /\ mySquad' = [b \in Bots |-> NoSquad]
    /\ strayed' = {}
    /\ UNCHANGED dying

Next ==
    \/ \E b \in Bots, p \in Players : Join(b, p) \/ ChangeSquad(b, p)
    \/ \E b \in Bots : Displace(b)
    \/ \E p \in Players : Die(p) \/ Disconnect(p)
    \/ DeathHandled
    \/ MapChange

Spec == Init /\ [][Next]_vars
-----------------------------------------------------------------------------
Handle == Players \cup {NoOne}

TypeOK ==
    /\ squads \in Seq(SquadIds)
    /\ leader \in [SquadIds -> Handle]
    /\ members \in [SquadIds -> Seq(Bots \cup {NoOne})]
    /\ \A s \in SquadIds : Len(members[s]) <= MaxMembers
    /\ mySquad \in [Bots -> SquadIds \cup {NoSquad}]
    /\ dying \in Handle
    /\ strayed \subseteq Bots

(* No bot keeps a pointer to a squad that was dissolved, in whichever of   *)
(* the ways: by a death that leaves too few, by the death of its leader,   *)
(* with the map.                                                           *)
PointersValid == \A b \in Bots : mySquad[b] = NoSquad \/ Listed(mySquad[b])

OnceIn(list, S) ==
    \A i, j \in DOMAIN list : list[i] \in S /\ list[i] = list[j] => i = j

(* A bot follows in one squad at most, once, and it is the squad the bot   *)
(* points to; so a bot that leaves it by its own pointer is gone from all. *)
FollowersBelong ==
    \A s \in SquadIds :
        /\ OnceIn(members[s], Bots)
        /\ \A b \in Bots : In(b, members[s]) => mySquad[b] = s

(* The other way round: a bot that points to a squad leads it or follows   *)
(* in it, unless it has died since it came (CBot::died takes it out of the *)
(* stack and leaves it its pointer).                                       *)
StrayOnlyByDeath ==
    \A b \in Bots \ strayed :
        mySquad[b] # NoSquad => leader[mySquad[b]] = b \/ In(b, members[mySquad[b]])

(* A squad is never left without a leader when one dies: either somebody   *)
(* takes over or it is dissolved.  Only a leader who disconnects leaves    *)
(* his squad behind.                                                       *)
LeaderlessOnlyByLeaving ==
    [][\A s \in SquadIds :
         Listed(s) /\ Listed(s)' /\ leader[s] # NoOne /\ leader'[s] = NoOne
            => Disconnect(leader[s]) \/ MapChange]_vars
=============================================================================
