SPECIFICATION BoundedSpec
CONSTANTS
    MaxWpts = 3
    MaxStale = 1
    MaxPaths = 2
    MaxSaved = 1
INVARIANTS TypeOK NoPathToUnused BackLinksComplete
PROPERTY Refines
