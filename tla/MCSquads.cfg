SPECIFICATION Spec
CONSTANTS
    h = h
    b1 = b1
    b2 = b2
    b3 = b3
    s1 = s1
    s2 = s2
    Players <- ThePlayers
    Bots <- TheBots
    SquadIds <- TheSquads
    NoOne = NoOne
    NoSquad = NoSquad
    MaxMembers = 3
SYMMETRY Symmetric
INVARIANTS PointersValid FollowersBelong StrayOnlyByDeath
PROPERTIES LeaderlessOnlyByLeaving
