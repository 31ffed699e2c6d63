SPECIFICATION OneSearch
CONSTANTS
    Waypoints <- LadderWaypoints
    Edges <- LadderEdges
    Blocked = {3}
    Paths <- LadderPaths
    Dist <- LadderDist
    Belief <- LadderBelief
    TeleportCheat = {}
    Heuristics = {0, 3}
    MaxLoops = 2
CHECK_DEADLOCK FALSE
PROPERTY SearchComplete
