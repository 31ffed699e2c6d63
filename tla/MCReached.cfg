SPECIFICATION Spec
CONSTANTS
    Waypoints = {0, 1}
    Utils = {"roam"}
PROPERTIES ReachedGoal
