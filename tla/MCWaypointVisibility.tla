----------------------- MODULE MCWaypointVisibility -----------------------
(***************************************************************************)
(* WaypointVisibility with three slots and two places that do not see each *)
(* other; the other map has two waypoints, one in each place, and tables   *)
(* differ from it by few.                                                  *)
(***************************************************************************)
EXTENDS WaypointVisibility

PlacesHere == {"hill", "cave"}
SeesHere == {<<p, p>> : p \in PlacesHere}

ForeignHere ==
    [num |-> 2, used |-> {0, 1},
     origin |-> [i \in Slots |-> IF i = 0 THEN "hill" ELSE "cave"]]

CONSTANTS MaxMoved, \* waypoints that came or moved since the table was loaded
          MaxOff    \* waypoints elsewhere than in the other map, or deleted

Off(t) == {i \in Slots : t.origin[i] # ForeignHere.origin[i]} \cup (0 .. t.num - 1 \ t.used)

\* Bits stay alone only when no waypoint came or moved, and beside waypoints with
\* the flag: beside others nobody reads them.
BitsAlone == visFile' # visFile /\ wptFile' = wptFile

BoundedNext ==
    /\ Next
    /\ BitsAlone => moved = {} /\ wptFile.flag
    /\ Cardinality(moved') <= MaxMoved
    /\ Cardinality(Off(table')) <= MaxOff

BoundedSpec == Init /\ [][BoundedNext]_vars /\ WF_vars(Frame)
=============================================================================
