-------------------------- MODULE VisibilityProofs --------------------------
(***************************************************************************)
(* For any number of waypoints and of pairs per frame: when no work is     *)
(* left, the bits of waypoints that stayed in place are right.             *)
(***************************************************************************)
EXTENDS WaypointVisibility, TLAPS

Right(t, bits, i, j) == <<i, j>> \in bits <=> InSight(t, i, j)

\* The pairs before the cursor are done, row by row.
Before(i, j) == i < from \/ (i = from /\ j < to)

DoneRight ==
    \A i, j \in table.used \ moved : ~work \/ Before(i, j) => Right(table, vis, i, j)

\* Bits beside waypoints with the flag are theirs, but for those that differ from
\* the waypoints the bits were worked out for.
FilesRight ==
    wptFile.flag =>
      \A i, j \in wptFile.table.used \ visFile.moved :
         Right(wptFile.table, visFile.vis, i, j)

TablesSound ==
    /\ table.used \subseteq 0 .. table.num - 1
    /\ wptFile.table.used \subseteq 0 .. wptFile.table.num - 1
    /\ to <= table.num

IInv == TypeOK /\ TablesSound /\ DoneRight /\ FilesRight

LEMMA InvRight == IInv => VisibilityRight
BY DEF IInv, DoneRight, VisibilityRight, Right
-----------------------------------------------------------------------------
\* Rows of n pairs: a pair is where its number says.
LEMMA Grows ==
    ASSUME NEW n \in Nat, NEW a \in Nat, NEW b \in Nat, a <= b
    PROVE  a * n <= b * n
OBVIOUS

LEMMA NumberOfPair ==
    ASSUME NEW n \in Nat \ {0}, NEW i \in Nat, NEW j \in 0 .. n - 1
    PROVE  (i * n + j) \div n = i /\ (i * n + j) % n = j
OBVIOUS

LEMMA PairOfNumber ==
    ASSUME NEW n \in Nat \ {0}, NEW c \in Nat
    PROVE  /\ c \div n \in Nat /\ c % n \in 0 .. n - 1
           /\ c = (c \div n) * n + (c % n)
OBVIOUS

LEMMA LastRow ==
    ASSUME NEW n \in Nat \ {0}, NEW c \in Nat, c < n * n
    PROVE  c \div n \in 0 .. n - 1
<1>1. c \div n \in Nat /\ c % n \in Nat /\ c = (c \div n) * n + (c % n)
  BY PairOfNumber
<1>2. CASE n <= c \div n
  <2>1. n * n <= (c \div n) * n
    BY <1>1, <1>2, Grows
  <2> QED
    BY <1>1, <2>1
<1> QED
  BY <1>1, <1>2

LEMMA RowByRow ==
    ASSUME NEW n \in Nat \ {0}, NEW i \in Nat, NEW j \in 0 .. n - 1,
           NEW a \in Nat, NEW b \in 0 .. n
    PROVE  i * n + j < a * n + b <=> i < a \/ (i = a /\ j < b)
<1>1. CASE i < a
  <2>1. (i + 1) * n <= a * n
    BY <1>1, Grows
  <2>2. (i + 1) * n = i * n + n
    OBVIOUS
  <2> QED
    BY <1>1, <2>1, <2>2
<1>2. CASE a < i
  <2>1. (a + 1) * n <= i * n
    BY <1>2, Grows
  <2>2. (a + 1) * n = a * n + n
    OBVIOUS
  <2> QED
    BY <1>2, <2>1, <2>2
<1>3. CASE i = a
  BY <1>3
<1> QED
  BY <1>1, <1>2, <1>3

LEMMA Squares ==
    ASSUME NEW n \in Nat, NEW i \in 0 .. n - 1, NEW j \in 0 .. n - 1
    PROVE  i * n + j \in 0 .. n * n - 1
<1>1. (i + 1) * n <= n * n
  BY Grows
<1>2. (i + 1) * n = i * n + n
  OBVIOUS
<1>3. n * n \in Nat /\ i * n \in Nat
  OBVIOUS
<1> QED
  BY <1>1, <1>2, <1>3
-----------------------------------------------------------------------------
\* The pairs of a frame are right afterwards, the others as before.
LEMMA BatchIsRight ==
    ASSUME TypeOK, TablesSound, NEW i \in 0 .. table.num - 1, NEW j \in 0 .. table.num - 1
    PROVE  /\ <<i, j>> \in Batch => Right(table, WorkedOut, i, j)
           /\ <<i, j>> \notin Batch /\ Right(table, vis, i, j) => Right(table, WorkedOut, i, j)
           /\ Cursor <= i * table.num + j /\ i * table.num + j <= LastOf(Cursor)
                => <<i, j>> \in Batch
<1>1. <<i, j>> \in Batch => Right(table, WorkedOut, i, j)
  BY DEF WorkedOut, Right
<1>2. <<i, j>> \notin Batch /\ Right(table, vis, i, j) => Right(table, WorkedOut, i, j)
  BY DEF WorkedOut, Right
<1>3. ASSUME Cursor <= i * table.num + j, i * table.num + j <= LastOf(Cursor)
      PROVE  <<i, j>> \in Batch
  <2> DEFINE c == i * table.num + j
  <2>1. table.num \in Nat /\ i \in Nat /\ j \in Nat
    BY DEF TypeOK, Tables
  <2>2. table.num \in Nat \ {0}
    BY <2>1
  <2>3. c \in 0 .. AllPairs - 1
    BY <2>1, Squares DEF AllPairs
  <2>4. c \div table.num = i /\ c % table.num = j
    BY <2>1, <2>2, NumberOfPair
  <2> QED
    BY <1>3, <2>3, <2>4 DEF Batch
<1> QED
  BY <1>1, <1>2, <1>3

LEMMA WorkedOutTyped ==
    ASSUME TypeOK
    PROVE  WorkedOut \subseteq Slots \X Slots
<1>1. table.num \in 0 .. MaxWpts /\ vis \subseteq Slots \X Slots
  BY DEF TypeOK, Tables
<1>2. ASSUME NEW c \in 0 .. AllPairs - 1
      PROVE  c \div table.num \in Slots /\ c % table.num \in Slots
  <2>1. table.num # 0
    BY <1>2 DEF AllPairs
  <2>2. table.num \in Nat \ {0} /\ c \in Nat /\ c < table.num * table.num
    BY <1>1, <1>2, <2>1, VisibilityAssumption DEF AllPairs
  <2>3. c \div table.num \in 0 .. table.num - 1 /\ c % table.num \in 0 .. table.num - 1
    BY <2>2, LastRow, PairOfNumber
  <2> QED
    BY <1>1, <2>2, <2>3, VisibilityAssumption DEF Slots
<1>3. Batch \subseteq Slots \X Slots
  BY <1>2 DEF Batch
<1> QED
  BY <1>1, <1>3 DEF WorkedOut

\* Waypoints of the table have numbers below num.
LEMMA PairsInTable ==
    ASSUME TypeOK, TablesSound, NEW i \in table.used
    PROVE  i \in 0 .. table.num - 1 /\ table.num \in Nat \ {0} /\ i \in Nat
<1>1. table.num \in Nat /\ i \in 0 .. table.num - 1
  BY VisibilityAssumption DEF TypeOK, Tables, TablesSound
<1> QED
  BY <1>1
-----------------------------------------------------------------------------
LEMMA WorkOnKeeps ==
    ASSUME IInv, WorkOn
    PROVE  IInv'
<1>1. /\ TypeOK /\ TablesSound /\ DoneRight /\ FilesRight
      /\ work /\ LastOf(Cursor) < AllPairs /\ vis' = WorkedOut
      /\ from' = LastOf(Cursor) \div table.num /\ to' = LastOf(Cursor) % table.num
      /\ UNCHANGED <<table, work, files, moved>>
  BY DEF IInv, WorkOn
<1> DEFINE n == table.num
           last == LastOf(Cursor)
<1>2. n \in 0 .. MaxWpts /\ n \in Nat /\ from \in Nat /\ to \in 0 .. n
  BY <1>1, VisibilityAssumption DEF TypeOK, Tables, TablesSound, Slots
<1>3. Cursor \in Nat /\ last \in Nat /\ Cursor <= last /\ n \in Nat \ {0}
  <2>1. from * n \in Nat
    BY <1>2
  <2>2. Cursor \in Nat /\ last \in Nat /\ Cursor <= last
    BY <1>2, <2>1, VisibilityAssumption DEF Cursor, LastOf
  <2>3. n # 0
    BY <1>1, <2>2 DEF AllPairs
  <2> QED
    BY <1>2, <2>2, <2>3
<1>4. /\ from' \in 0 .. n - 1 /\ to' \in 0 .. n - 1 /\ from' \in Nat
      /\ last = from' * n + to'
  <2>1. last < n * n
    BY <1>1 DEF AllPairs
  <2> HIDE DEF last, n
  <2>2. last \div n \in 0 .. n - 1 /\ last % n \in 0 .. n - 1
    BY <1>3, <2>1, LastRow, PairOfNumber
  <2>3. last = (last \div n) * n + (last % n)
    BY <1>3, PairOfNumber
  <2> QED
    BY <1>1, <1>3, <2>2, <2>3 DEF last, n
<1>5. TypeOK'
  <2>1. vis' \subseteq Slots \X Slots
    BY <1>1, WorkedOutTyped
  <2>2. from' \in Slots /\ to' \in Slots
    BY <1>2, <1>4, VisibilityAssumption DEF Slots
  <2> QED
    BY <1>1, <2>1, <2>2 DEF TypeOK, files
<1>6. TablesSound'
  BY <1>1, <1>2, <1>4 DEF TablesSound, files
<1>7. FilesRight'
  BY <1>1 DEF FilesRight, files, Right, InSight
<1>8. DoneRight'
  <2> SUFFICES ASSUME NEW i \in table.used \ moved, NEW j \in table.used \ moved,
                      Before(i, j)'
               PROVE  Right(table, WorkedOut, i, j)
    BY <1>1 DEF DoneRight, Right, InSight
  <2>1. i \in 0 .. n - 1 /\ j \in 0 .. n - 1 /\ i \in Nat
    BY <1>1, PairsInTable
  <2>2. i * n + j < last
    <3>1. i < from' \/ (i = from' /\ j < to')
      BY DEF Before
    <3>2. to' \in 0 .. n
      BY <1>2, <1>4
    <3>3. i * n + j < from' * n + to'
      BY <1>3, <1>4, <2>1, <3>1, <3>2, RowByRow
    <3> QED
      BY <3>3, <1>4
  <2>3. CASE Before(i, j)
    <3>1. Right(table, vis, i, j)
      BY <1>1, <2>3 DEF DoneRight
    <3> QED
      BY <1>1, <2>1, <3>1, BatchIsRight
  <2>4. CASE ~Before(i, j)
    <3>1. ~(i * n + j < from * n + to)
      BY <1>2, <1>3, <2>1, <2>4, RowByRow DEF Before
    <3>2. i * n + j \in Nat
      BY <1>3, <2>1
    <3>3. Cursor <= i * n + j /\ i * n + j <= last
      BY <1>3, <2>2, <3>1, <3>2 DEF Cursor
    <3> QED
      BY <1>1, <2>1, <3>3, BatchIsRight
  <2> QED
    BY <2>3, <2>4
<1> QED
  BY <1>5, <1>6, <1>7, <1>8 DEF IInv

LEMMA FinishKeeps ==
    ASSUME IInv, Finish
    PROVE  IInv'
<1>1. /\ TypeOK /\ TablesSound /\ DoneRight /\ FilesRight
      /\ work /\ LastOf(Cursor) >= AllPairs /\ vis' = WorkedOut
      /\ work' = FALSE /\ from' = 0 /\ to' = 0
      /\ UNCHANGED <<table, moved>>
  BY DEF IInv, Finish
<1> DEFINE Both  == /\ wptFile' = [there |-> TRUE, flag |-> TRUE, table |-> table]
                    /\ visFile' = [num |-> table.num, vis |-> vis', moved |-> moved]
           Alone == /\ visFile' = [num |-> table.num, vis |-> vis',
                                   moved |-> moved \cup Differing(wptFile.table)]
                    /\ UNCHANGED wptFile
<1>2. (UNCHANGED files) \/ Both \/ Alone
  BY DEF Finish
<1> DEFINE n == table.num
<1>3. n \in 0 .. MaxWpts /\ n \in Nat /\ from \in Nat /\ to \in 0 .. n
  BY <1>1, VisibilityAssumption DEF TypeOK, Tables, TablesSound, Slots
<1>4. vis' \subseteq Slots \X Slots
  BY <1>1, WorkedOutTyped
<1>5. TypeOK'
  <2>1. 0 \in Slots
    BY VisibilityAssumption DEF Slots
  <2>2. CASE UNCHANGED files
    BY <1>1, <1>4, <2>1, <2>2 DEF TypeOK, files
  <2>3. CASE Both
    BY <1>1, <1>3, <1>4, <2>1, <2>3 DEF TypeOK
  <2>4. CASE Alone
    <3>1. moved \cup Differing(wptFile.table) \subseteq Slots
      BY <1>1 DEF Differing, TypeOK, Tables
    <3> QED
      BY <1>1, <1>3, <1>4, <2>1, <2>4, <3>1 DEF TypeOK
  <2> QED
    BY <1>2, <2>2, <2>3, <2>4
<1>6. TablesSound'
  BY <1>1, <1>2, <1>3 DEF TablesSound, files
<1>7. ASSUME NEW i \in table.used \ moved, NEW j \in table.used \ moved
      PROVE  Right(table, WorkedOut, i, j)
  <2>1. i \in 0 .. n - 1 /\ j \in 0 .. n - 1 /\ i \in Nat /\ n \in Nat \ {0}
    BY <1>1, PairsInTable
  <2>2. CASE Before(i, j)
    <3>1. Right(table, vis, i, j)
      BY <1>1, <2>2 DEF DoneRight
    <3> QED
      BY <1>1, <2>1, <3>1, BatchIsRight
  <2>3. CASE ~Before(i, j)
    <3>1. ~(i * n + j < from * n + to)
      BY <1>3, <2>1, <2>3, RowByRow DEF Before
    <3>2. i * n + j \in 0 .. n * n - 1
      BY <1>3, <2>1, Squares
    <3>3. LastOf(Cursor) \in Nat /\ Cursor \in Nat
      <4>1. from * n \in Nat
        BY <1>3
      <4> QED
        BY <1>3, <4>1, VisibilityAssumption DEF Cursor, LastOf
    <3>4. Cursor <= i * n + j /\ i * n + j <= LastOf(Cursor)
      BY <1>1, <1>3, <3>1, <3>2, <3>3 DEF Cursor, AllPairs
    <3> QED
      BY <1>1, <2>1, <3>4, BatchIsRight
  <2> QED
    BY <2>2, <2>3
<1>8. DoneRight'
  BY <1>1, <1>7 DEF DoneRight, Right, InSight
<1>9. FilesRight'
  <2>1. CASE UNCHANGED files
    BY <1>1, <2>1 DEF FilesRight, files, Right, InSight
  <2>2. CASE Both
    <3>1. wptFile'.table = table /\ visFile'.moved = moved /\ visFile'.vis = WorkedOut
      BY <1>1, <2>2
    <3>2. ASSUME NEW i \in table.used \ moved, NEW j \in table.used \ moved
          PROVE  Right(wptFile.table, visFile.vis, i, j)'
      BY <1>7, <3>1 DEF Right, InSight
    <3> QED
      BY <3>1, <3>2 DEF FilesRight
  <2>3. CASE Alone
    <3> DEFINE t == wptFile.table
    <3>1. /\ wptFile' = wptFile /\ visFile'.vis = WorkedOut
          /\ visFile'.moved = moved \cup Differing(t)
      BY <1>1, <2>3
    <3>2. ASSUME NEW i \in t.used \ visFile'.moved, NEW j \in t.used \ visFile'.moved
          PROVE  Right(t, WorkedOut, i, j)
      <4>1. /\ i \in table.used \ moved /\ t.origin[i] = table.origin[i]
            /\ j \in table.used \ moved /\ t.origin[j] = table.origin[j]
        BY <3>1 DEF Differing
      <4> QED
        BY <1>7, <4>1 DEF Right, InSight
    <3>3. ASSUME NEW i \in t.used \ visFile'.moved, NEW j \in t.used \ visFile'.moved
          PROVE  Right(wptFile.table, visFile.vis, i, j)'
      BY <3>1, <3>2 DEF Right, InSight
    <3> QED
      BY <3>1, <3>3 DEF FilesRight
  <2> QED
    BY <1>2, <2>1, <2>2, <2>3
<1> QED
  BY <1>5, <1>6, <1>8, <1>9 DEF IInv
-----------------------------------------------------------------------------
LEMMA FreeSlot ==
    ASSUME TypeOK, TablesSound, NEW k \in Slots \ table.used,
           0 .. k - 1 \subseteq table.used, NEW q \in Places
    PROVE  /\ With(k, q) \in Tables
           /\ With(k, q).used \subseteq 0 .. With(k, q).num - 1
           /\ table.num <= With(k, q).num
<1>1. /\ table.num \in Nat /\ table.num <= MaxWpts /\ table.num \notin table.used
      /\ table.used \subseteq Slots /\ table.origin \in [Slots -> Places]
      /\ table.used \subseteq 0 .. table.num - 1
      /\ k \in Nat /\ k < MaxWpts /\ MaxWpts \in Nat
  BY VisibilityAssumption DEF TypeOK, Tables, TablesSound, Slots
<1>2. k <= table.num
  <2>1. CASE k > table.num
    BY <2>1, <1>1
  <2> QED
    BY <2>1, <1>1
<1> DEFINE m == IF k = table.num THEN table.num + 1 ELSE table.num
<1>3. m \in 0 .. MaxWpts /\ table.num <= m /\ k < m /\ m \in Nat
  BY <1>1, <1>2
<1>4. With(k, q) = [num |-> m, used |-> table.used \cup {k},
                    origin |-> [table.origin EXCEPT ![k] = q]]
  BY DEF With
<1> HIDE DEF m
<1>5. table.used \cup {k} \subseteq 0 .. m - 1
  BY <1>1, <1>3
<1> QED
  BY <1>1, <1>3, <1>4, <1>5 DEF Tables

LEMMA AddKeeps ==
    ASSUME IInv, Add
    PROVE  IInv'
<1>1. PICK k \in Slots \ table.used, p \in Places, q \in Places :
         /\ 0 .. k - 1 \subseteq table.used
         /\ vis' = FirstBit(k, With(k, p))
         /\ table' = With(k, q)
         /\ moved' = moved \cup {k}
  BY DEF Add
<1>2. /\ TypeOK /\ TablesSound /\ DoneRight /\ FilesRight
      /\ UNCHANGED <<work, from, to, files>>
  BY DEF IInv, Add
<1>3. /\ table' \in Tables /\ table'.used \subseteq 0 .. table'.num - 1
      /\ table.num <= table'.num
  BY <1>1, <1>2, FreeSlot
<1>4. /\ table'.used = table.used \cup {k}
      /\ \A i \in Slots \ {k} : table'.origin[i] = table.origin[i]
      /\ table.used \subseteq Slots
  BY <1>1, <1>2 DEF With, TypeOK, Tables
<1>5. \A i, j \in Slots : i # k => (<<i, j>> \in vis' <=> <<i, j>> \in vis)
  BY <1>1 DEF FirstBit
<1>6. vis' \subseteq Slots \X Slots
  <2>1. 0 \in Slots
    BY VisibilityAssumption DEF Slots
  <2> QED
    BY <1>1, <1>2, <2>1 DEF FirstBit, TypeOK
<1>7. TypeOK'
  BY <1>1, <1>2, <1>3, <1>6 DEF TypeOK, files
<1>8. TablesSound'
  <2>1. /\ table.num \in Nat /\ table'.num \in Nat /\ to \in Nat /\ to <= table.num
    BY <1>2, <1>3, VisibilityAssumption DEF TypeOK, Tables, TablesSound, Slots
  <2> QED
    BY <1>2, <1>3, <2>1 DEF TablesSound, files
<1>9. FilesRight'
  BY <1>2 DEF FilesRight, files, Right, InSight
<1>10. DoneRight'
  <2> SUFFICES ASSUME NEW i \in table'.used \ moved', NEW j \in table'.used \ moved',
                      ~work' \/ Before(i, j)'
               PROVE  Right(table, vis, i, j)'
    BY DEF DoneRight
  <2>1. /\ i \in table.used \ moved /\ j \in table.used \ moved
        /\ i # k /\ j # k /\ i \in Slots /\ j \in Slots
    BY <1>1, <1>4
  <2>2. Right(table, vis, i, j)
    BY <1>2, <2>1 DEF DoneRight, Before
  <2> QED
    BY <1>4, <1>5, <2>1, <2>2 DEF Right, InSight
<1> QED
  BY <1>7, <1>8, <1>9, <1>10 DEF IInv

LEMMA DeleteKeeps ==
    ASSUME IInv, Delete
    PROVE  IInv'
<1>1. PICK k \in table.used : table' = [table EXCEPT !.used = table.used \ {k}]
  BY DEF Delete
<1>2. /\ TypeOK /\ TablesSound /\ DoneRight /\ FilesRight
      /\ UNCHANGED <<vis, work, from, to, files, moved>>
  BY DEF IInv, Delete
<1>3. /\ table' \in Tables /\ table'.used \subseteq table.used
      /\ table'.num = table.num /\ table'.origin = table.origin
  BY <1>1, <1>2 DEF TypeOK, Tables
<1>4. TypeOK'
  BY <1>2, <1>3 DEF TypeOK, TablesSound, files
<1>5. TablesSound'
  BY <1>2, <1>3 DEF TablesSound, files
<1>6. FilesRight'
  BY <1>2 DEF FilesRight, files, Right, InSight
<1>7. DoneRight'
  BY <1>2, <1>3 DEF DoneRight, Right, InSight, Before
<1> QED
  BY <1>4, <1>5, <1>6, <1>7 DEF IInv

LEMMA ClearedTyped ==
    Cleared \in Tables /\ Cleared.used \subseteq 0 .. Cleared.num - 1 /\ 0 \in Slots
<1>1. (CHOOSE p \in Places : TRUE) \in Places
  BY VisibilityAssumption
<1> QED
  BY <1>1, VisibilityAssumption DEF Cleared, Tables, Slots

LEMMA ClearKeeps ==
    ASSUME IInv, Clear
    PROVE  IInv'
<1>1. /\ table' = Cleared /\ vis' = {} /\ work' = FALSE /\ from' = 0 /\ to' = 0
      /\ moved' = {} /\ UNCHANGED files
  BY DEF Clear
<1>2. TypeOK /\ TablesSound /\ FilesRight
  BY DEF IInv
<1>3. TypeOK'
  BY <1>1, <1>2, ClearedTyped DEF TypeOK, files
<1>4. TablesSound'
  BY <1>1, <1>2, ClearedTyped DEF TablesSound, files, Cleared
<1>5. FilesRight'
  BY <1>1, <1>2 DEF FilesRight, files, Right, InSight
<1>6. DoneRight'
  BY <1>1 DEF DoneRight, Cleared
<1> QED
  BY <1>3, <1>4, <1>5, <1>6 DEF IInv

LEMMA SaveKeeps ==
    ASSUME IInv, Save
    PROVE  IInv'
<1>1. /\ wptFile' = [there |-> TRUE, flag |-> FALSE, table |-> table]
      /\ UNCHANGED <<table, vis, work, from, to, visFile, moved>>
  BY DEF Save
<1>2. TypeOK /\ TablesSound /\ DoneRight
  BY DEF IInv
<1>3. TypeOK'
  BY <1>1, <1>2 DEF TypeOK
<1>4. TablesSound'
  BY <1>1, <1>2 DEF TablesSound
<1>5. FilesRight'
  BY <1>1 DEF FilesRight
<1>6. DoneRight'
  BY <1>1, <1>2 DEF DoneRight, Right, InSight, Before
<1> QED
  BY <1>3, <1>4, <1>5, <1>6 DEF IInv

LEMMA LoadKeeps ==
    ASSUME IInv, NEW t, NEW readable \in BOOLEAN, LoadFrom(t, readable),
           t \in Tables, t.used \subseteq 0 .. t.num - 1,
           readable => \A i, j \in t.used \ visFile.moved : Right(t, visFile.vis, i, j)
    PROVE  IInv'
<1>1. /\ table' = t /\ from' = 0 /\ to' = 0 /\ work' = ~readable
      /\ vis' = (IF readable THEN visFile.vis ELSE {})
      /\ moved' = (IF readable THEN visFile.moved ELSE {})
      /\ UNCHANGED files
  BY DEF LoadFrom
<1>2. TypeOK /\ TablesSound /\ FilesRight /\ 0 \in Slots
  BY ClearedTyped DEF IInv
<1>3. TypeOK'
  <2>1. vis' \subseteq Slots \X Slots /\ moved' \subseteq Slots
    BY <1>1, <1>2 DEF TypeOK
  <2>2. work' \in BOOLEAN
    BY <1>1
  <2> QED
    BY <1>1, <1>2, <2>1, <2>2 DEF TypeOK, files
<1>4. TablesSound'
  <2>1. 0 <= t.num
    BY VisibilityAssumption DEF Tables
  <2> QED
    BY <1>1, <1>2, <2>1 DEF TablesSound, files
<1>5. FilesRight'
  BY <1>1, <1>2 DEF FilesRight, files, Right, InSight
<1>6. DoneRight'
  <2> SUFFICES ASSUME NEW i \in t.used \ moved', NEW j \in t.used \ moved',
                      ~work' \/ Before(i, j)'
               PROVE  Right(table, vis, i, j)'
    BY <1>1 DEF DoneRight
  <2>1. i \in Nat /\ j \in Nat
    BY VisibilityAssumption DEF Tables, Slots
  <2>2. ~Before(i, j)'
    BY <1>1, <2>1 DEF Before
  <2>3. readable
    BY <1>1, <2>2
  <2> QED
    BY <1>1, <2>3 DEF Right, InSight
<1> QED
  BY <1>3, <1>4, <1>5, <1>6 DEF IInv
-----------------------------------------------------------------------------
LEMMA InitIInv == Init => IInv
<1> SUFFICES ASSUME Init PROVE IInv
  OBVIOUS
<1>1. TypeOK
  <2>1. 0 \in 0 .. MaxWpts
    BY VisibilityAssumption
  <2>2. visFile \in [num : 0 .. MaxWpts, vis : SUBSET (Slots \X Slots), moved : SUBSET Slots]
    BY <2>1 DEF Init
  <2>3. wptFile \in [there : BOOLEAN, flag : BOOLEAN, table : Tables]
    BY ClearedTyped DEF Init
  <2>4. table \in Tables /\ table.used \subseteq 0 .. table.num - 1
    BY ClearedTyped DEF Init
  <2> QED
    BY <2>2, <2>3, <2>4, ClearedTyped DEF Init, TypeOK
<1>2. TablesSound
  BY ClearedTyped DEF Init, TablesSound, Cleared
<1>3. DoneRight /\ FilesRight
  BY DEF Init, DoneRight, FilesRight, Cleared
<1> QED
  BY <1>1, <1>2, <1>3 DEF IInv

LEMMA Step ==
    ASSUME IInv, [Next]_vars
    PROVE  IInv'
<1>1. CASE Frame
  BY <1>1, WorkOnKeeps, FinishKeeps DEF Frame
<1>2. CASE Add
  BY <1>2, AddKeeps
<1>3. CASE Delete
  BY <1>3, DeleteKeeps
<1>4. CASE Clear
  BY <1>4, ClearKeeps
<1>5. CASE Save
  BY <1>5, SaveKeeps
<1>6. CASE wptFile.there /\ LoadFrom(wptFile.table, Readable(wptFile))
  <2>1. wptFile.table \in Tables /\ wptFile.table.used \subseteq 0 .. wptFile.table.num - 1
    BY DEF IInv, TypeOK, TablesSound
  <2>2. Readable(wptFile) \in BOOLEAN /\ (Readable(wptFile) => wptFile.flag)
    BY DEF Readable, IInv, TypeOK
  <2>3. Readable(wptFile) =>
          \A i, j \in wptFile.table.used \ visFile.moved :
             Right(wptFile.table, visFile.vis, i, j)
    BY <2>2 DEF IInv, FilesRight
  <2> QED
    BY <1>6, <2>1, <2>2, <2>3, LoadKeeps
<1>7. CASE LoadFrom(Foreign, FALSE)
  BY <1>7, LoadKeeps, VisibilityAssumption
<1>8. CASE UNCHANGED vars
  BY <1>8 DEF vars, IInv, TypeOK, TablesSound, DoneRight, FilesRight, Right, InSight, Before
<1> QED
  BY <1>1, <1>2, <1>3, <1>4, <1>5, <1>6, <1>7, <1>8 DEF Next, Load

(* The bits before the cursor, and those in files that go with the flagged *)
(* waypoints, are right for waypoints that stayed in place.                *)
THEOREM SpecIInv == Spec => []IInv
<1>1. IInv /\ [Next]_vars => IInv'
  BY Step
<1> QED
  BY <1>1, InitIInv, PTL DEF Spec

(* The cursor stays within the table, and bits are only set for slots.     *)
THEOREM VisibilityTyped == Spec => []TypeOK
<1>1. IInv => TypeOK
  BY DEF IInv
<1> QED
  BY <1>1, SpecIInv, PTL

(* workVisibility and the files it writes, both or one without the other:  *)
(* when no work is left, the bits of waypoints that stayed in place since  *)
(* the load are right; and if bits were read that had stayed alone, those  *)
(* of all waypoints that are where they were when the bits were worked out.*)
THEOREM WorkIsRight == Spec => []VisibilityRight
BY SpecIInv, InvRight, PTL

-----------------------------------------------------------------------------
\* The next frame goes on from the last pair of this one, in the same table.
LEMMA CursorAdvances ==
    ASSUME IInv, WorkOn
    PROVE  table' = table /\ Cursor < Cursor' /\ Cursor' < AllPairs'
<1> DEFINE n == table.num
           c == LastOf(Cursor)
<1>1. /\ work /\ c < AllPairs /\ table' = table /\ from' = c \div n /\ to' = c % n
  BY DEF WorkOn
<1>2. n \in Nat /\ from \in Nat /\ to \in Nat
  BY VisibilityAssumption DEF IInv, TypeOK, Tables, Slots
<1>3. Cursor \in Nat
  BY <1>2 DEF Cursor
<1>4. c \in Nat /\ Cursor < c
  BY <1>3, VisibilityAssumption DEF LastOf
<1>5. n # 0
  BY <1>1, <1>4 DEF AllPairs
<1> HIDE DEF c
<1>6. c = (c \div n) * n + (c % n)
  BY <1>2, <1>4, <1>5, PairOfNumber
<1>7. Cursor' = c
  BY <1>1, <1>6 DEF Cursor
<1>8. AllPairs' = AllPairs
  BY <1>1 DEF AllPairs
<1> QED
  BY <1>1, <1>4, <1>7, <1>8

\* What happens to work that goes on: a frame brings the cursor on; a new
\* waypoint may make the table longer, within its bound; and but for a load
\* nothing else touches the cursor or the number of pairs.
WorkGetsOn ==
    [][work /\ work' =>
          /\ Frame => table' = table /\ Cursor < Cursor' /\ Cursor' < AllPairs'
          /\ \/ Frame \/ Load
             \/ table.num < table'.num /\ table'.num <= MaxWpts
             \/ UNCHANGED <<table.num, Cursor, AllPairs>>]_vars

(* The measure behind WorkEnds, for any number of waypoints and of pairs   *)
(* per frame: the pairs left after the cursor become fewer in every frame, *)
(* though the last pair is done again, and become more only when the table *)
(* grows, which it does at most MaxWpts times, or is loaded.               *)
THEOREM WorkProgresses == Spec => WorkGetsOn
<1> DEFINE GetsOn ==
             work /\ work' =>
                /\ Frame => table' = table /\ Cursor < Cursor' /\ Cursor' < AllPairs'
                /\ \/ Frame \/ Load
                   \/ table.num < table'.num /\ table'.num <= MaxWpts
                   \/ UNCHANGED <<table.num, Cursor, AllPairs>>
<1>1. IInv /\ [Next]_vars => [GetsOn]_vars
  <2> SUFFICES ASSUME IInv, Next, work, work' PROVE GetsOn
    OBVIOUS
  <2>1. Frame => WorkOn
    BY DEF Frame, Finish
  <2>2. CASE Frame \/ Load
    BY <2>1, <2>2, CursorAdvances
  <2>3. CASE ~(Frame \/ Load)
    <3>1. Add \/ Delete \/ Clear \/ Save
      BY <2>3 DEF Next
    <3>2. ~Clear
      BY DEF Clear
    <3>3. CASE Add
      <4>1. UNCHANGED <<from, to>>
        BY <3>3 DEF Add
      <4>2. PICK k \in Slots, q \in Places : table' = With(k, q)
        BY <3>3 DEF Add
      <4>3. table'.num = IF k = table.num THEN table.num + 1 ELSE table.num
        BY <4>2 DEF With
      <4>4. CASE k = table.num
        <5>1. table.num \in 0 .. MaxWpts - 1
          BY <4>4 DEF Slots
        <5>2. table.num < table'.num /\ table'.num <= MaxWpts
          BY <4>3, <4>4, <5>1, VisibilityAssumption
        <5> QED
          BY <2>3, <5>2
      <4>5. CASE k # table.num
        <5>1. table'.num = table.num
          BY <4>3, <4>5
        <5> QED
          BY <2>3, <4>1, <5>1 DEF Cursor, AllPairs
      <4> QED
        BY <4>4, <4>5
    <3>4. CASE Delete \/ Save
      <4>1. table'.num = table.num /\ UNCHANGED <<from, to>>
        BY <3>4 DEF Delete, Save, IInv, TypeOK, Tables
      <4> QED
        BY <2>3, <4>1 DEF Cursor, AllPairs
    <3> QED
      BY <3>1, <3>2, <3>3, <3>4
  <2> QED
    BY <2>2, <2>3
<1> QED
  BY <1>1, SpecIInv, PTL DEF Spec, WorkGetsOn
=============================================================================
