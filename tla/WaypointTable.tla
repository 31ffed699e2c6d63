--------------------------- MODULE WaypointTable ---------------------------
(***************************************************************************)
(* The waypoint table (CWaypoints, CWaypoint in bot_waypoint.cpp) as map   *)
(* makers edit it while the game runs: slots that are used, freed and used *)
(* again, paths that each waypoint keeps to others, and the back links     *)
(* (m_PathsTo) that a deletion follows to find the paths to remove.  Back  *)
(* links outlive their paths and are kept as a bag.  Clients remember      *)
(* waypoints from one command, jump or ladder to the next (marks), while   *)
(* these may be deleted.                                                   *)
(***************************************************************************)
EXTENDS Integers, FiniteSets

CONSTANTS MaxWpts \* MAX_WAYPOINTS

ASSUME MaxWptsAssumption == MaxWpts \in Nat \ {0}

Slots == 0 .. MaxWpts - 1
NoWpt == -1

\* m_iPathFrom, m_iLastJumpWaypointIndex, m_iLastLadderWaypointIndex and
\* m_iJoinLadderWaypointIndex of a client.
Marks == {"path", "jump", "ladder", "join"}

VARIABLES num,   \* m_iNumWaypoints
          used,  \* the slots with m_bUsed
          paths, \* <<i, j>>: j is in m_thePaths of i
          back,  \* back[<<j, i>>]: how often i is in m_PathsTo of j
          marks, \* what a client remembers
          disk   \* the waypoint file of the map

vars == <<num, used, paths, back, marks, disk>>

tableVars == <<num, used, paths, back>>

Blank == [num |-> 0, used |-> {}, paths |-> {}]

Init ==
    /\ num = 0 /\ used = {} /\ paths = {}
    /\ back = [l \in Slots \X Slots |-> 0]
    /\ marks = [m \in Marks |-> NoWpt]
    /\ disk = Blank

\* getWaypoint returns the slot, used or not.
Valid(i) == i \in 0 .. num - 1

IsFree(i) == i \in Slots \ used /\ 0 .. i - 1 \subseteq used

From(i) == {p \in paths : p[1] = i}

\* addPathTo, for a waypoint i that is there.
PathOnly(i, j) == paths' = paths \cup {<<i, j>>} /\ UNCHANGED back

BothEnds(i, j) ==
    /\ paths' = paths \cup {<<i, j>>}
    /\ back' = [back EXCEPT ![<<j, i>>] = back[<<j, i>>] + 1]

AddPathTo(i, j) ==
    IF Valid(j) /\ <<i, j>> \notin paths /\ i # j
    THEN BothEnds(i, j)
    ELSE UNCHANGED <<paths, back>>

\* removePathTo: the back link goes also when there was no path.
RemovePathTo(i, j) ==
    IF Valid(j)
    THEN /\ paths' = paths \ {<<i, j>>}
         /\ back' = [back EXCEPT ![<<j, i>>] = IF back[<<j, i>>] > 0 THEN back[<<j, i>>] - 1 ELSE 0]
    ELSE UNCHANGED <<paths, back>>

\* deletePathsTo removes the path from every waypoint that j has a back link
\* to, one back link with it each time.
PathsNow(P, j)  == P
PathsLeft(P, j) == {p \in P : ~(p[2] = j /\ back[<<j, p[1]>>] > 0)}
LinksLeft(j) == [l \in Slots \X Slots |-> IF l[1] = j THEN 0 ELSE back[l]]

\* addWaypoint makes a new waypoint in the first free slot; autopath joins it
\* with those in reach, from and to, and the caller may join it too.
SameNum(k)  == num
CountOf(k)  == IF k = num THEN num + 1 ELSE num

AddWaypoint(k, from, to) ==
    /\ IsFree(k)
    /\ used' = used \cup {k}
    /\ num' = CountOf(k)
    /\ paths' = (paths \ From(k)) \cup (from \X {k}) \cup ({k} \X to)
    /\ back' = [l \in Slots \X Slots |->
                  IF l[1] = k THEN (IF l[2] \in from THEN 1 ELSE 0)
                  ELSE IF l[2] = k /\ l[1] \in to THEN back[l] + 1
                  ELSE back[l]]
    /\ UNCHANGED disk

Add ==
    /\ \E k \in Slots, from \in SUBSET used, to \in SUBSET used : AddWaypoint(k, from, to)
    /\ UNCHANGED marks

\* deleteWaypoint; a waypoint is deleted by delete and cut, where the client
\* stands or one by one in a radius.
Delete ==
    /\ \E k \in used :
         /\ used' = used \ {k}
         /\ paths' = PathsLeft(paths \ From(k), k)
         /\ back' = LinksLeft(k)
    /\ UNCHANGED <<num, marks, disk>>

\* deleteto, and givetype with a type that cannot be reached, which goes on
\* with deletePathsFrom; these use what the client was near when it moved last.
DeletePathsTo ==
    /\ \E k \in 0 .. num - 1, unreachable \in BOOLEAN :
         /\ paths' = PathsLeft(paths, k) \ (IF unreachable THEN From(k) ELSE {})
         /\ back' = LinksLeft(k)
    /\ UNCHANGED <<num, used, marks, disk>>

DeletePathsFrom ==
    /\ \E k \in 0 .. num - 1 : paths' = paths \ From(k)
    /\ UNCHANGED <<num, used, back, marks, disk>>

\* createfromto and removefromto.
CreateFromTo ==
    /\ \E i, j \in used : AddPathTo(i, j)
    /\ UNCHANGED <<num, used, marks, disk>>

RemoveFromTo ==
    /\ \E i, j \in used : RemovePathTo(i, j)
    /\ UNCHANGED <<num, used, marks, disk>>

\* create1 and remove1 remember the waypoint the client is near, create2 and
\* remove2 change the path from there to where the client is now.
Create1 ==
    /\ \E i \in used : marks' = [marks EXCEPT !["path"] = i]
    /\ UNCHANGED <<tableVars, disk>>

Create2 ==
    /\ Valid(marks["path"])
    /\ \E j \in used : AddPathTo(marks["path"], j)
    /\ UNCHANGED <<num, used, marks, disk>>

Remove2 ==
    /\ Valid(marks["path"])
    /\ \E j \in used : RemovePathTo(marks["path"], j)
    /\ UNCHANGED <<num, used, marks, disk>>
-----------------------------------------------------------------------------
\* Autowaypointing.  A client that jumps or goes on a ladder leaves a waypoint
\* there, or remembers the one that is near; none when the table is full.
TakesOff(m) ==
    \/ \E k \in Slots, from \in SUBSET used, to \in SUBSET used :
         AddWaypoint(k, from, to) /\ marks' = [marks EXCEPT ![m] = k]
    \/ \E i \in used : marks' = [marks EXCEPT ![m] = i] /\ UNCHANGED <<tableVars, disk>>
    \/ used = Slots /\ marks' = [marks EXCEPT ![m] = NoWpt] /\ UNCHANGED <<tableVars, disk>>

Jump     == TakesOff("jump")
OnLadder == TakesOff("ladder")

\* A new waypoint k where the client arrived, with a path from start to it.
ArrivesAtNew(start, k) ==
    /\ Valid(start)
    /\ \E from \in SUBSET used, to \in SUBSET used : AddWaypoint(k, (from \cup {start}) \ {k}, to)

\* Landing after a jump, unless the mark was cleared with the table (then the
\* code has no waypoint to add a path to).
Land ==
    /\ marks["jump"] # NoWpt
    /\ marks' = [marks EXCEPT !["jump"] = NoWpt]
    /\ \/ \E k \in Slots : ArrivesAtNew(marks["jump"], k)
       \/ /\ used = Slots /\ UNCHANGED <<tableVars, disk>>
       \/ /\ marks["jump"] \in used /\ UNCHANGED <<tableVars, disk>>
       \/ /\ Valid(marks["jump"])
          /\ \E j \in used \ {marks["jump"]} : AddPathTo(marks["jump"], j)
          /\ UNCHANGED <<num, used, disk>>

\* Off the ladder: a new waypoint is joined with that of the ladder's start;
\* but one that is there already is joined with m_iJoinLadderWaypointIndex,
\* if the client has such a mark (else the code has no waypoint there).
OffLadder ==
    /\ marks["ladder"] # NoWpt
    /\ \/ \E k \in Slots :
            /\ ArrivesAtNew(marks["ladder"], k)
            /\ marks' = [marks EXCEPT !["ladder"] = NoWpt, !["join"] = k]
       \/ /\ used = Slots \/ marks["ladder"] \in used
          /\ marks' = [marks EXCEPT !["ladder"] = NoWpt]
          /\ UNCHANGED <<tableVars, disk>>
       \/ /\ Valid(marks["join"])
          /\ \E j \in used \ {marks["ladder"]} :
               /\ AddPathTo(marks["join"], j)
               /\ marks' = [marks EXCEPT !["ladder"] = NoWpt, !["join"] = j]
          /\ UNCHANGED <<num, used, disk>>

\* On the ground after a ladder.
JoinLadder ==
    /\ marks["join"] # NoWpt
    /\ marks' = [marks EXCEPT !["join"] = NoWpt]
    /\ \/ \E k \in Slots : ArrivesAtNew(marks["join"], k)
       \/ /\ used = Slots /\ UNCHANGED <<tableVars, disk>>
       \/ /\ Valid(marks["join"])
          /\ \E j \in used \ {marks["join"]} : AddPathTo(marks["join"], j)
          /\ UNCHANGED <<num, used, disk>>
-----------------------------------------------------------------------------
\* init: every slot is blank.
Clear ==
    /\ num' = 0 /\ used' = {} /\ paths' = {}
    /\ back' = [l \in Slots \X Slots |-> 0]
    /\ UNCHANGED <<marks, disk>>

\* By the save command, or when the visibility of all waypoints is worked out.
Save ==
    /\ disk' = [num |-> num, used |-> used, paths |-> paths]
    /\ UNCHANGED <<tableVars, marks>>

\* load adds the paths in the file one by one, from used waypoints and others.
LoadTable ==
    /\ num' = disk.num /\ used' = disk.used
    /\ paths' = {p \in disk.paths : p[2] < disk.num /\ p[1] # p[2]}
    /\ back' = [l \in Slots \X Slots |-> IF <<l[2], l[1]>> \in paths' THEN 1 ELSE 0]
    /\ UNCHANGED disk

Load == LoadTable /\ UNCHANGED marks

\* The map is played again, or the server restarted: what was not saved is lost.
MapChange == LoadTable /\ marks' = [m \in Marks |-> NoWpt]

Next ==
    \/ Add \/ Delete \/ DeletePathsTo \/ DeletePathsFrom
    \/ CreateFromTo \/ RemoveFromTo \/ Create1 \/ Create2 \/ Remove2
    \/ Jump \/ Land \/ OnLadder \/ OffLadder \/ JoinLadder
    \/ Clear \/ Save \/ Load \/ MapChange

Spec == Init /\ [][Next]_vars
-----------------------------------------------------------------------------
TypeOK ==
    /\ num \in 0 .. MaxWpts
    /\ used \subseteq 0 .. num - 1
    /\ paths \subseteq Slots \X Slots
    /\ back \in [Slots \X Slots -> Nat]
    /\ marks \in [Marks -> Slots \cup {NoWpt}]
    /\ disk.num \in 0 .. MaxWpts /\ disk.used \subseteq 0 .. disk.num - 1
    /\ disk.paths \subseteq Slots \X Slots

(* No waypoint keeps a path to one that is deleted, or to itself: the      *)
(* search follows m_thePaths without looking at isUsed.                    *)
NoPathToUnused == \A p \in paths : p[2] \in used /\ p[1] # p[2]

(* The back links a deletion follows cover all paths to the waypoint, and  *)
(* lead to slots getWaypoint knows (deletePathsTo uses pOther untested).   *)
BackLinksComplete ==
    /\ \A p \in paths : back[<<p[2], p[1]>>] > 0
    /\ \A l \in Slots \X Slots : back[l] > 0 => Valid(l[1]) /\ Valid(l[2])

\* Paths that a deleted waypoint was given by a client that remembered it are
\* no edges: nobody gets there.
EdgesOf(P, U) == {p \in P : p[1] \in U}

Graph == INSTANCE WaypointGraph WITH
           nodes <- used,
           edges <- EdgesOf(paths, used),
           saved <- [nodes |-> disk.used, edges |-> EdgesOf(disk.paths, disk.used)]

(* However slots are freed and used again, the table is a graph: deleting  *)
(* a waypoint takes its edges with it, a new one starts with its own, and  *)
(* loading brings back what was saved.                                     *)
Refines == Graph!GraphSpec
=============================================================================
