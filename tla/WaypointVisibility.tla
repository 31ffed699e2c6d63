------------------------ MODULE WaypointVisibility ------------------------
(***************************************************************************)
(* Which waypoints see each other (CWaypointVisibilityTable): a bit for    *)
(* every pair, worked out a few pairs per frame from a cursor, while       *)
(* waypoints are added, moved and deleted, and the table is saved, cleared *)
(* and loaded.  When the work ends both files of the map are written: the  *)
(* bits, and then the waypoints, flagged as having visibility.             *)
(***************************************************************************)
EXTENDS Integers, FiniteSets

CONSTANTS MaxWpts, \* MAX_WAYPOINTS
          Places,  \* where a waypoint may be
          Sees,    \* the pairs of places with nothing between them
          Ticks,   \* WAYPOINT_VIS_TICKS: the last pair of a frame is done again
          Foreign  \* the waypoint file of another map

Slots == 0 .. MaxWpts - 1
Tables == [num : 0 .. MaxWpts, used : SUBSET Slots, origin : [Slots -> Places]]

ASSUME VisibilityAssumption ==
    /\ MaxWpts \in Nat \ {0} /\ Places # {}
    /\ Ticks \in Nat /\ Ticks > 1
    /\ Foreign \in Tables /\ Foreign.used \subseteq 0 .. Foreign.num - 1

VARIABLES table,    \* the waypoints: num, used and origin
          vis,      \* the pairs with a bit in m_VisTable
          work,     \* bWorkVisibility
          from, to, \* iCurFrom, iCurTo
          wptFile,  \* the table, there, and flag: W_FILE_FL_VISIBILITY
          visFile,  \* numwaypoints and the bits; history: slots they are not of
          moved     \* history: slots whose waypoint came or moved since the load

vars == <<table, vis, work, from, to, wptFile, visFile, moved>>

files == <<wptFile, visFile>>

Cleared == [num |-> 0, used |-> {}, origin |-> [i \in Slots |-> CHOOSE p \in Places : TRUE]]

InSight(t, i, j) == <<t.origin[i], t.origin[j]>> \in Sees

Init ==
    /\ table = Cleared /\ vis = {}
    /\ work = FALSE /\ from = 0 /\ to = 0
    /\ wptFile = [there |-> FALSE, flag |-> FALSE, table |-> Cleared]
    /\ visFile = [num |-> 0, vis |-> {}, moved |-> {}]
    /\ moved = {}
-----------------------------------------------------------------------------
\* One frame of workVisibility does Ticks pairs from the cursor on, used or
\* not, by the number of waypoints there are now.
Cursor == from * table.num + to
OnlyPair(c) == c
LastOf(c) == c + Ticks - 1
AllPairs == table.num * table.num

Batch == {<<c \div table.num, c % table.num>> :
            c \in {d \in 0 .. AllPairs - 1 : Cursor <= d /\ d <= LastOf(Cursor)}}

WorkedOut == (vis \ Batch) \cup {p \in Batch : InSight(table, p[1], p[2])}

WorkOn ==
    /\ work /\ LastOf(Cursor) < AllPairs
    /\ vis' = WorkedOut
    /\ from' = LastOf(Cursor) \div table.num
    /\ to' = LastOf(Cursor) % table.num
    /\ UNCHANGED <<table, work, files, moved>>

\* Waypoints of another table that are not in this one, or elsewhere.
Differing(t) == {i \in t.used : i \notin table.used \/ table.origin[i] # t.origin[i]}

\* The bits are written, then the waypoints.  If the bits cannot be, neither is; but
\* they may stay alone, since what save returns is not looked at, and the server
\* may stop in between.  What an old waypoint file has elsewhere counts as moved then.
Finish ==
    /\ work /\ LastOf(Cursor) >= AllPairs
    /\ vis' = WorkedOut
    /\ work' = FALSE /\ from' = 0 /\ to' = 0
    /\ \/ UNCHANGED files
       \/ /\ wptFile' = [there |-> TRUE, flag |-> TRUE, table |-> table]
          /\ visFile' = [num |-> table.num, vis |-> vis', moved |-> moved]
       \/ /\ visFile' = [num |-> table.num, vis |-> vis',
                         moved |-> moved \cup Differing(wptFile.table)]
          /\ UNCHANGED wptFile
    /\ UNCHANGED <<table, moved>>

Frame == WorkOn \/ Finish

\* addWaypoint works out one bit, to waypoint 0 (workVisibilityForWaypoint is
\* called with a number of waypoints of TRUE); then the waypoint of a jump may
\* be moved.
FirstBit(k, t) ==
    IF k = 0 THEN vis \cup {<<0, 0>>}
    ELSE IF 0 \notin t.used THEN vis
    ELSE IF InSight(t, k, 0) THEN vis \cup {<<k, 0>>}
    ELSE vis \ {<<k, 0>>}

With(k, p) ==
    [num |-> IF k = table.num THEN table.num + 1 ELSE table.num,
     used |-> table.used \cup {k},
     origin |-> [table.origin EXCEPT ![k] = p]]

Add ==
    /\ \E k \in Slots \ table.used, p, q \in Places :
         /\ 0 .. k - 1 \subseteq table.used
         /\ vis' = FirstBit(k, With(k, p))
         /\ table' = With(k, q)
         /\ moved' = moved \cup {k}
    /\ UNCHANGED <<work, from, to, files>>

Delete ==
    /\ \E k \in table.used : table' = [table EXCEPT !.used = @ \ {k}]
    /\ UNCHANGED <<vis, work, from, to, files, moved>>

\* init of the table, with ClearVisibilityTable.
Clear ==
    /\ table' = Cleared /\ vis' = {}
    /\ work' = FALSE /\ from' = 0 /\ to' = 0 /\ moved' = {}
    /\ UNCHANGED files

\* The save command, which does not say that visibility was worked out.
Save ==
    /\ wptFile' = [there |-> TRUE, flag |-> FALSE, table |-> table]
    /\ UNCHANGED <<table, vis, work, from, to, visFile, moved>>

\* load takes the bits from the file of this map when the waypoints were saved
\* with it; else the work begins.
Matching(f) == visFile.num = f.table.num
Readable(f) == f.flag /\ visFile.num = f.table.num

LoadFrom(t, readable) ==
    /\ table' = t
    /\ from' = 0 /\ to' = 0
    /\ work' = ~readable
    /\ vis' = IF readable THEN visFile.vis ELSE {}
    /\ moved' = IF readable THEN visFile.moved ELSE {}
    /\ UNCHANGED files

Load ==
    \/ wptFile.there /\ LoadFrom(wptFile.table, Readable(wptFile))
    \/ LoadFrom(Foreign, FALSE)

Next == Frame \/ Add \/ Delete \/ Clear \/ Save \/ Load

Spec == Init /\ [][Next]_vars

\* workVisibility runs in every game frame while there is work.
FairSpec == Spec /\ WF_vars(Frame)
-----------------------------------------------------------------------------
TypeOK ==
    /\ table \in Tables /\ table.used \subseteq 0 .. table.num - 1
    /\ vis \subseteq Slots \X Slots /\ moved \subseteq Slots
    /\ work \in BOOLEAN /\ from \in Slots /\ to \in Slots
    /\ wptFile \in [there : BOOLEAN, flag : BOOLEAN, table : Tables]
    /\ visFile \in [num : 0 .. MaxWpts, vis : SUBSET (Slots \X Slots), moved : SUBSET Slots]

(* When no work is left, the bits are right for all waypoints that stayed  *)
(* where they were since the table was loaded, however the number of       *)
(* waypoints grew under the cursor and whichever files were read: the flag *)
(* of save and the number of waypoints keep bits away from other tables.   *)
(* Where they do not (see Finish), only the waypoints that differ suffer.  *)
VisibilityRight ==
    ~work => \A i, j \in table.used \ moved :
                <<i, j>> \in vis <=> InSight(table, i, j)

(* The work ends, unless the table is loaded over and over: added          *)
(* waypoints and the pair that is done twice do not keep it going.         *)
WorkEnds == (work ~> ~work) \/ []<><<Load>>_vars
=============================================================================
