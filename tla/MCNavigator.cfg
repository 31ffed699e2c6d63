SPECIFICATION TriangleSpec
CONSTANTS
    Waypoints <- TriangleWaypoints
    Edges <- TriangleEdges
    Blocked = {1}
    Paths <- TrianglePaths
    Dist <- TriangleDist
    Belief <- TriangleBelief
    TeleportCheat = {}
    Heuristics = {0}
    MaxLoops = 2
INVARIANTS TypeOK SearchRooted
PROPERTIES Refines PortKept
