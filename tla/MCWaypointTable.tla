-------------------------- MODULE MCWaypointTable --------------------------
(***************************************************************************)
(* WaypointTable with few slots, and bounds on paths, on stale back links  *)
(* and on what a client remembers: one waypoint, or two on a ladder.       *)
(***************************************************************************)
EXTENDS WaypointTable, FiniteSetsExt

CONSTANTS MaxPaths, \* paths there are at a time
          MaxStale, \* back links without a path of their own
          MaxSaved  \* paths in the table when it is saved

StaleLinks == MapThenSumSet(LAMBDA l : back[l], DOMAIN back) - Cardinality(paths)

Remembered == {m \in Marks : marks[m] # NoWpt}

BoundedNext ==
    /\ Next
    /\ Cardinality(paths') <= MaxPaths
    /\ Cardinality(disk'.paths) <= MaxSaved
    /\ Remembered' \subseteq {"ladder", "join"} \/ Cardinality(Remembered') <= 1
    /\ StaleLinks' <= MaxStale

BoundedSpec == Init /\ [][BoundedNext]_vars
=============================================================================
