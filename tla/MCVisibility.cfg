SPECIFICATION BoundedSpec
CONSTANTS
    MaxWpts = 3
    MaxMoved = 1
    Ticks = 3
    MaxOff = 1
    Places <- PlacesHere
    Sees <- SeesHere
    Foreign <- ForeignHere
INVARIANTS VisibilityRight
PROPERTY WorkEnds
