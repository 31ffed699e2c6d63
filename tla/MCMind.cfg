SPECIFICATION FairSpec
CONSTANTS
    Waypoints = {0, 1}
    Utils = {"health", "enemy"}
INVARIANTS TypeOK OneOfAKind PlanAtBottom OwnRoute
PROPERTIES HideEnds
