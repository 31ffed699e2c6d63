SPECIFICATION FairSearch
CONSTANTS
    Waypoints <- LadderWaypoints
    Edges <- DangerEdges
    Blocked = {4}
    Paths <- DangerPaths
    Dist <- DangerDist
    Belief <- DangerBelief
    TeleportCheat = {2}
    Heuristics = {0, 3}
    MaxLoops = 2
CHECK_DEADLOCK FALSE
INVARIANTS OpenListSound CostsGrowAlongParents RouteLeadsToGoal
PROPERTIES NeverReopened FailureExplained SearchEnds
