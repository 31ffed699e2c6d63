--------------------------- MODULE BotMindProofs ---------------------------
(***************************************************************************)
(* Proofs about the schedules of a bot.  First the linked list that holds  *)
(* them (DataQueue, for a heap of any size): its cells are the sequence    *)
(* that the bot's code takes it for.  Then the schedules themselves        *)
(* (BotMind, for any set of waypoints and of actions): what is in the      *)
(* queue, and whose route the bot follows.                                 *)
(***************************************************************************)
EXTENDS BotMind, DataQueue, FiniteSetTheorems, SequenceLemmas, TLAPS

(* The linked list behind the queues.                                      *)

\* A cell that was never used holds some value.
Payload == Values \cup {CHOOSE v \in Values : TRUE}

CellsTypeOK ==
    /\ head \in Pointers /\ tail \in Pointers
    /\ next \in [Nodes -> Pointers] /\ data \in [Nodes -> Payload]
    /\ live \subseteq Nodes

Once(c) == \A i, j \in 1 .. Len(c) : c[i] = c[j] => i = j

Cells(c) == {c[i] : i \in 1 .. Len(c)}

\* The pointers lead through the cells c, in this order, and nowhere else.
Links(c) ==
    /\ Once(c)
    /\ head = IF Len(c) = 0 THEN NULL ELSE c[1]
    /\ tail = IF Len(c) = 0 THEN NULL ELSE c[Len(c)]
    /\ \A i \in 1 .. Len(c) : next[c[i]] = IF i < Len(c) THEN c[i + 1] ELSE NULL
    /\ live = Cells(c)

LEMMA CellsFacts ==
    ASSUME NEW c \in Seq(Nodes)
    PROVE  /\ Len(c) \in Nat /\ c \in [1 .. Len(c) -> Nodes] /\ DOMAIN c = 1 .. Len(c)
           /\ \A i \in 1 .. Len(c) : c[i] \in Nodes /\ c[i] # NULL
           /\ Cells(c) \subseteq Nodes
<1>1. Len(c) \in Nat /\ c \in [1 .. Len(c) -> Nodes] /\ DOMAIN c = 1 .. Len(c)
  BY LenProperties
<1> QED
  BY <1>1, NullAssumption DEF Cells

\* No list is longer than the heap, and one that leaves a cell out is shorter.
LEMMA ListFits ==
    ASSUME NEW c \in Seq(Nodes), Once(c)
    PROVE  /\ Cardinality(Nodes) \in Nat /\ Len(c) <= Cardinality(Nodes)
           /\ \A n \in Nodes : n \notin Cells(c) => Len(c) < Cardinality(Nodes)
<1>1. Len(c) \in Nat /\ c \in [1 .. Len(c) -> Nodes]
  BY CellsFacts
<1>2. c \in Injection(1 .. Len(c), Nodes)
  BY <1>1 DEF Once, Injection, IsInjective
<1>3. Cardinality(1 .. Len(c)) = Len(c) /\ IsFiniteSet(1 .. Len(c))
  BY <1>1, FS_Interval
<1>4. Cardinality(Nodes) \in Nat
  BY NodesAssumption, FS_CardinalityType
<1>5. /\ Len(c) <= Cardinality(Nodes)
      /\ Len(c) = Cardinality(Nodes) => c \in Surjection(1 .. Len(c), Nodes)
  BY <1>2, <1>3, NodesAssumption, FS_Injection
<1>6. ASSUME NEW n \in Nodes, n \notin Cells(c) PROVE Len(c) # Cardinality(Nodes)
  BY <1>5, <1>6 DEF Surjection, Cells
<1> QED
  BY <1>1, <1>4, <1>5, <1>6

\* The walk from m_Head is a recursive function of the number of steps.
LEMMA CellAtIs ==
    ASSUME NEW c \in Seq(Nodes), Links(c)
    PROVE  CellAt = [k \in 0 .. Cardinality(Nodes) |-> IF k < Len(c) THEN c[k + 1] ELSE NULL]
<1> DEFINE N == Cardinality(Nodes)
           L == Len(c)
           After(f) == [k \in 0 .. N |-> IF k = 0 THEN head
                                         ELSE IF f[k - 1] = NULL THEN NULL
                                         ELSE next[f[k - 1]]]
           g == [k \in 0 .. N |-> IF k < L THEN c[k + 1] ELSE NULL]
<1>1. /\ L \in Nat /\ N \in Nat /\ L <= N
      /\ \A i \in 1 .. L : c[i] \in Nodes /\ c[i] # NULL
  BY CellsFacts, ListFits DEF Links
<1>2. /\ head = IF L = 0 THEN NULL ELSE c[1]
      /\ \A i \in 1 .. L : next[c[i]] = IF i < L THEN c[i + 1] ELSE NULL
  BY DEF Links
<1>a. \A f : DOMAIN After(f) = 0 .. N /\ \A k \in 0 .. N : After(f)[k] =
            IF k = 0 THEN head ELSE IF f[k - 1] = NULL THEN NULL ELSE next[f[k - 1]]
  OBVIOUS
<1>b. CellAt = CHOOSE f : f = After(f)
  BY DEF CellAt
<1>c. DOMAIN g = 0 .. N /\ \A k \in 0 .. N : g[k] = IF k < L THEN c[k + 1] ELSE NULL
  OBVIOUS
<1>d. \A f : After(f) = [k \in 0 .. N |-> After(f)[k]]
  OBVIOUS
<1>e. g = [k \in 0 .. N |-> g[k]]
  OBVIOUS
<1> HIDE DEF After, g, N, L
<1>3. \A k \in 0 .. N : g[k] = After(g)[k]
  <2>1. SUFFICES ASSUME NEW k \in 0 .. N PROVE g[k] = After(g)[k]
    OBVIOUS
  <2>2. CASE k = 0
    BY <1>1, <1>2, <1>a, <1>c, <2>2
  <2>3. CASE k # 0
    <3>1. k - 1 \in 0 .. N /\ k - 1 + 1 = k
      BY <1>1, <2>3
    <3>2. After(g)[k] = IF g[k - 1] = NULL THEN NULL ELSE next[g[k - 1]]
      BY <1>a, <2>3
    <3>3. g[k - 1] = IF k - 1 < L THEN c[k] ELSE NULL
      BY <1>c, <3>1
    <3>4. CASE k - 1 < L
      <4>1. k \in 1 .. L
        BY <1>1, <2>3, <3>4
      <4> QED
        BY <1>1, <1>2, <1>c, <3>2, <3>3, <3>4, <4>1
    <3>5. CASE ~(k - 1 < L)
      BY <1>1, <1>c, <3>2, <3>3, <3>5
    <3> QED
      BY <3>4, <3>5
  <2> QED
    BY <2>2, <2>3
<1>4. g = After(g)
  BY <1>3, <1>d, <1>e
<1>5. CellAt = After(CellAt)
  BY <1>b, <1>4, Zenon
<1>6. DOMAIN CellAt = 0 .. N /\ \A k \in 0 .. N : CellAt[k] =
            IF k = 0 THEN head ELSE IF CellAt[k - 1] = NULL THEN NULL ELSE next[CellAt[k - 1]]
  BY <1>5, <1>a
<1>7. \A k \in 0 .. N : CellAt[k] = g[k]
  <2> DEFINE Bad == {k \in 0 .. N : CellAt[k] # g[k]}
  <2>1. SUFFICES ASSUME Bad # {} PROVE FALSE
    OBVIOUS
  <2>2. PICK k \in Bad : \A j \in Bad : k <= j
    <3>1. Bad \subseteq Nat
      BY <1>1
    <3> HIDE DEF Bad
    <3> QED
      BY <2>1, <3>1, LeastExists
  <2>3. k # 0
    BY <2>2, <1>6, <1>3, <1>a
  <2>4. k - 1 \in 0 .. N /\ CellAt[k - 1] = g[k - 1]
    BY <2>2, <2>3, <1>1
  <2> QED
    BY <2>2, <2>3, <2>4, <1>6, <1>3, <1>a
<1> QED
  BY <1>5, <1>7, <1>d, <1>e DEF g, N, L

\* The chain of cells is the one that the pointers lead through.
LEMMA ChainIs == \A c \in Seq(Nodes) : Links(c) => Chain = c
<1>1. SUFFICES ASSUME NEW c \in Seq(Nodes), Links(c) PROVE Chain = c
  OBVIOUS
<1>2. /\ Len(c) \in Nat /\ Cardinality(Nodes) \in Nat /\ Len(c) <= Cardinality(Nodes)
      /\ \A i \in 1 .. Len(c) : c[i] \in Nodes /\ c[i] # NULL
      /\ DOMAIN c = 1 .. Len(c) /\ c \in [1 .. Len(c) -> Nodes]
  BY <1>1, CellsFacts, ListFits DEF Links
<1>3. CellAt = [k \in 0 .. Cardinality(Nodes) |-> IF k < Len(c) THEN c[k + 1] ELSE NULL]
  BY <1>1, CellAtIs
<1>4. {k \in DOMAIN CellAt : CellAt[k] # NULL} = 0 .. Len(c) - 1
  BY <1>2, <1>3
<1>5. ChainLength = Len(c)
  <2>1. ChainLength = Cardinality(0 .. Len(c) - 1)
    BY <1>4, Zenon DEF ChainLength
  <2>2. ASSUME NEW b \in Int
        PROVE  Cardinality(0 .. b) = IF 0 > b THEN 0 ELSE b - 0 + 1
    BY FS_Interval
  <2>3. Len(c) - 1 \in Int
    BY <1>2
  <2> DEFINE b == Len(c) - 1
  <2>4. Cardinality(0 .. b) = IF 0 > b THEN 0 ELSE b - 0 + 1
    BY <2>2, <2>3
  <2>5. (IF 0 > b THEN 0 ELSE b - 0 + 1) = Len(c)
    BY <1>2
  <2> QED
    BY <2>1, <2>4, <2>5
<1>6. \A k \in 1 .. Len(c) : CellAt[k - 1] = c[k]
  BY <1>2, <1>3
<1> QED
  BY <1>2, <1>5, <1>6 DEF Chain

\* The values in the cells of a list.
Held(d, c) == [k \in 1 .. Len(c) |-> d[c[k]]]

LEMMA HeldFacts ==
    ASSUME NEW c \in Seq(Nodes), NEW d \in [Nodes -> Payload]
    PROVE  /\ Held(d, c) \in Seq(Payload) /\ Len(Held(d, c)) = Len(c)
           /\ DOMAIN Held(d, c) = 1 .. Len(c)
           /\ \A k \in 1 .. Len(c) : Held(d, c)[k] = d[c[k]] /\ d[c[k]] \in Payload
<1>1. Len(c) \in Nat /\ \A k \in 1 .. Len(c) : c[k] \in Nodes
  BY CellsFacts
<1>2. Held(d, c) \in [1 .. Len(c) -> Payload]
  BY <1>1 DEF Held
<1> QED
  BY <1>1, <1>2 DEF Held

LEMMA ContentsIs == \A c \in Seq(Nodes) : Links(c) => Contents = Held(data, c)
<1>1. SUFFICES ASSUME NEW c \in Seq(Nodes), Links(c) PROVE Contents = Held(data, c)
  OBVIOUS
<1>2. Chain = c /\ DOMAIN c = 1 .. Len(c)
  BY <1>1, ChainIs, CellsFacts
<1> QED
  BY <1>2 DEF Contents, Held

-----------------------------------------------------------------------------
\* d is the sequence c with x put in at a place, or with the element at a
\* place taken out.
PutIn(c, at, x, d) ==
    /\ at \in 1 .. Len(c) + 1 /\ Len(d) = Len(c) + 1
    /\ \A i \in 1 .. Len(c) + 1 :
          d[i] = IF i < at THEN c[i] ELSE IF i = at THEN x ELSE c[i - 1]

TakenOut(c, at, d) ==
    /\ at \in 1 .. Len(c) /\ Len(d) = Len(c) - 1
    /\ \A i \in 1 .. Len(c) - 1 : d[i] = IF i < at THEN c[i] ELSE c[i + 1]

LEMMA AppendPutsIn ==
    ASSUME NEW S, NEW c \in Seq(S), NEW x \in S
    PROVE  Append(c, x) \in Seq(S) /\ PutIn(c, Len(c) + 1, x, Append(c, x))
<1>1. /\ Len(c) \in Nat /\ Append(c, x) \in Seq(S) /\ Len(Append(c, x)) = Len(c) + 1
      /\ \A i \in 1 .. Len(c) : Append(c, x)[i] = c[i]
      /\ Append(c, x)[Len(c) + 1] = x
  BY AppendProperties, LenProperties
<1> QED
  BY <1>1 DEF PutIn

LEMMA InFrontPutsIn ==
    ASSUME NEW S, NEW c \in Seq(S), NEW x \in S
    PROVE  <<x>> \o c \in Seq(S) /\ PutIn(c, 1, x, <<x>> \o c)
<1>1. /\ Len(c) \in Nat /\ <<x>> \o c \in Seq(S) /\ Len(<<x>> \o c) = Len(c) + 1
      /\ \A i \in 1 .. Len(c) + 1 : (<<x>> \o c)[i] = IF i = 1 THEN x ELSE c[i - 1]
  BY InFrontFacts, LenProperties
<1> QED
  BY <1>1 DEF PutIn

LEMMA TailTakesOut ==
    ASSUME NEW S, NEW c \in Seq(S), Len(c) # 0
    PROVE  Tail(c) \in Seq(S) /\ TakenOut(c, 1, Tail(c))
<1>1. Len(c) \in Nat /\ c # <<>>
  BY LenProperties, EmptySeq
<1>2. /\ Tail(c) \in Seq(S) /\ Len(Tail(c)) = Len(c) - 1
      /\ \A i \in 1 .. Len(c) - 1 : Tail(c)[i] = c[i + 1]
  BY <1>1, HeadTailProperties
<1> QED
  BY <1>1, <1>2 DEF TakenOut

LEMMA RemoveAtTakesOut ==
    ASSUME NEW S, NEW c \in Seq(S), NEW at \in 1 .. Len(c)
    PROVE  RemoveAt(c, at) \in Seq(S) /\ TakenOut(c, at, RemoveAt(c, at))
  BY RemoveAtFacts DEF TakenOut

\* There is only one such sequence.
LEMMA PutInOnce ==
    ASSUME NEW S, NEW c, NEW at, NEW x, NEW d \in Seq(S), NEW e \in Seq(S),
           PutIn(c, at, x, d), PutIn(c, at, x, e)
    PROVE  d = e
<1>1. Len(d) = Len(e) /\ \A i \in 1 .. Len(d) : d[i] = e[i]
  BY DEF PutIn
<1> QED
  BY <1>1, SeqEqual

LEMMA TakenOutOnce ==
    ASSUME NEW S, NEW c, NEW at, NEW d \in Seq(S), NEW e \in Seq(S),
           TakenOut(c, at, d), TakenOut(c, at, e)
    PROVE  d = e
<1>1. Len(d) = Len(e) /\ \A i \in 1 .. Len(d) : d[i] = e[i]
  BY DEF TakenOut
<1> QED
  BY <1>1, SeqEqual

\* The cells of a list with one cell more, and with one less.
LEMMA OneCellMore ==
    ASSUME NEW c \in Seq(Nodes), Once(c), NEW n \in Nodes, n \notin Cells(c),
           NEW at, NEW d \in Seq(Nodes), PutIn(c, at, n, d)
    PROVE  Once(d) /\ Cells(d) = Cells(c) \cup {n}
<1>1. /\ Len(c) \in Nat /\ \A i \in 1 .. Len(c) : c[i] # n
      /\ at \in 1 .. Len(c) + 1 /\ Len(d) = Len(c) + 1
      /\ \A i \in 1 .. Len(c) + 1 :
            d[i] = IF i < at THEN c[i] ELSE IF i = at THEN n ELSE c[i - 1]
  BY CellsFacts DEF Cells, PutIn
<1>2. Once(d)
  <2>1. ASSUME NEW i \in 1 .. Len(c) + 1, NEW j \in 1 .. Len(c) + 1, i < j
        PROVE  d[i] # d[j]
    <3>1. CASE j < at
      <4>1. i \in 1 .. Len(c) /\ j \in 1 .. Len(c) /\ d[i] = c[i] /\ d[j] = c[j] /\ i # j
        BY <1>1, <2>1, <3>1
      <4> QED
        BY <4>1 DEF Once
    <3>2. CASE j = at
      <4>1. i \in 1 .. Len(c) /\ d[i] = c[i] /\ d[j] = n
        BY <1>1, <2>1, <3>2
      <4> QED
        BY <1>1, <4>1
    <3>3. CASE i = at
      <4>1. j - 1 \in 1 .. Len(c) /\ d[j] = c[j - 1] /\ d[i] = n
        BY <1>1, <2>1, <3>3
      <4> QED
        BY <1>1, <4>1
    <3>4. CASE j > at /\ i # at
      <4>1. j - 1 \in 1 .. Len(c) /\ d[j] = c[j - 1]
        BY <1>1, <2>1, <3>4
      <4>2. CASE i < at
        <5>1. i \in 1 .. Len(c) /\ i # j - 1 /\ d[i] = c[i]
          BY <1>1, <3>4, <4>2
        <5> QED
          BY <4>1, <5>1 DEF Once
      <4>3. CASE i > at
        <5>1. i - 1 \in 1 .. Len(c) /\ i - 1 # j - 1 /\ d[i] = c[i - 1]
          BY <1>1, <2>1, <4>3
        <5> QED
          BY <4>1, <5>1 DEF Once
      <4> QED
        BY <1>1, <3>4, <4>2, <4>3
    <3> QED
      BY <1>1, <3>1, <3>2, <3>3, <3>4
  <2> QED
    BY <1>1, <2>1 DEF Once
<1>3. ASSUME NEW i \in 1 .. Len(c) PROVE c[i] \in Cells(d)
  <2>1. CASE i < at
    BY <1>1, <2>1 DEF Cells
  <2>2. CASE ~(i < at)
    <3>1. i + 1 \in 1 .. Len(c) + 1 /\ d[i + 1] = c[i]
      BY <1>1, <2>2
    <3> QED
      BY <1>1, <3>1 DEF Cells
  <2> QED
    BY <2>1, <2>2
<1>4. n \in Cells(d)
  BY <1>1 DEF Cells
<1>5. Cells(d) \subseteq Cells(c) \cup {n}
  <2>1. SUFFICES ASSUME NEW i \in 1 .. Len(c) + 1 PROVE d[i] \in Cells(c) \cup {n}
    BY <1>1 DEF Cells
  <2>2. CASE i < at
    BY <1>1, <2>2 DEF Cells
  <2>3. CASE ~(i < at) /\ i # at
    <3>1. i - 1 \in 1 .. Len(c) /\ d[i] = c[i - 1]
      BY <1>1, <2>3
    <3> QED
      BY <1>1, <3>1 DEF Cells
  <2> QED
    BY <1>1, <2>2, <2>3
<1>6. Cells(c) \subseteq Cells(d)
  BY <1>3 DEF Cells
<1> QED
  BY <1>2, <1>4, <1>5, <1>6

LEMMA OneCellLess ==
    ASSUME NEW c \in Seq(Nodes), Once(c),
           NEW at, NEW d \in Seq(Nodes), TakenOut(c, at, d)
    PROVE  Once(d) /\ Cells(d) = Cells(c) \ {c[at]}
<1>1. /\ Len(c) \in Nat /\ at \in 1 .. Len(c) /\ Len(d) = Len(c) - 1
      /\ \A i \in 1 .. Len(c) - 1 : d[i] = IF i < at THEN c[i] ELSE c[i + 1]
  BY CellsFacts DEF TakenOut
<1>2. Once(d)
  BY <1>1 DEF Once
<1>3. ASSUME NEW i \in 1 .. Len(c), c[i] # c[at] PROVE c[i] \in Cells(d)
  <2>1. CASE i < at
    BY <1>1, <2>1 DEF Cells
  <2>2. CASE ~(i < at)
    <3>1. i - 1 \in 1 .. Len(c) - 1 /\ d[i - 1] = c[i]
      BY <1>1, <1>3, <2>2
    <3> QED
      BY <1>1, <3>1 DEF Cells
  <2> QED
    BY <2>1, <2>2
<1>4. ASSUME NEW i \in 1 .. Len(c) - 1 PROVE d[i] \in Cells(c) /\ d[i] # c[at]
  <2>1. CASE i < at
    BY <1>1, <2>1 DEF Cells, Once
  <2>2. CASE ~(i < at)
    <3>1. i + 1 \in 1 .. Len(c) /\ d[i] = c[i + 1] /\ i + 1 # at
      BY <1>1, <2>2
    <3> QED
      BY <1>1, <3>1 DEF Cells, Once
  <2> QED
    BY <2>1, <2>2
<1>5. Cells(d) \subseteq Cells(c) \ {c[at]}
  BY <1>1, <1>4 DEF Cells
<1>6. Cells(c) \ {c[at]} \subseteq Cells(d)
  BY <1>3 DEF Cells
<1> QED
  BY <1>2, <1>5, <1>6

\* What becomes of the values in the cells.
LEMMA HeldPutIn ==
    ASSUME NEW c \in Seq(Nodes), NEW n \in Nodes, n \notin Cells(c), NEW at,
           NEW d \in Seq(Nodes), PutIn(c, at, n, d),
           NEW v \in Payload, NEW f \in [Nodes -> Payload]
    PROVE  PutIn(Held(f, c), at, v, Held([f EXCEPT ![n] = v], d))
<1> DEFINE g == [f EXCEPT ![n] = v]
<1>1. g \in [Nodes -> Payload] /\ g[n] = v /\ \A m \in Nodes : m # n => g[m] = f[m]
  OBVIOUS
<1> HIDE DEF g
<1>2. /\ Len(Held(f, c)) = Len(c) /\ Len(Held(g, d)) = Len(d)
      /\ \A k \in 1 .. Len(c) : Held(f, c)[k] = f[c[k]]
      /\ \A k \in 1 .. Len(d) : Held(g, d)[k] = g[d[k]]
  BY <1>1, HeldFacts
<1>3. /\ Len(c) \in Nat /\ \A i \in 1 .. Len(c) : c[i] \in Nodes /\ c[i] # n
  BY CellsFacts DEF Cells
<1>4. /\ at \in 1 .. Len(c) + 1 /\ Len(d) = Len(c) + 1
      /\ \A i \in 1 .. Len(c) + 1 :
            d[i] = IF i < at THEN c[i] ELSE IF i = at THEN n ELSE c[i - 1]
  BY DEF PutIn
<1>5. ASSUME NEW i \in 1 .. Len(c) + 1
      PROVE  Held(g, d)[i] = IF i < at THEN Held(f, c)[i]
                             ELSE IF i = at THEN v ELSE Held(f, c)[i - 1]
  <2>1. Held(g, d)[i] = g[d[i]]
    BY <1>2, <1>4
  <2>2. CASE i < at
    BY <1>1, <1>2, <1>3, <1>4, <2>1, <2>2
  <2>3. CASE i = at
    BY <1>1, <1>4, <2>1, <2>3
  <2>4. CASE i > at
    <3>1. i - 1 \in 1 .. Len(c) /\ d[i] = c[i - 1]
      BY <1>3, <1>4, <2>4
    <3> QED
      BY <1>1, <1>2, <1>3, <1>4, <2>1, <2>4, <3>1
  <2> QED
    BY <1>3, <1>4, <2>2, <2>3, <2>4
<1>6. PutIn(Held(f, c), at, v, Held(g, d))
  BY <1>2, <1>4, <1>5 DEF PutIn
<1> QED
  BY <1>6 DEF g

LEMMA HeldTakenOut ==
    ASSUME NEW c \in Seq(Nodes), NEW at, NEW d \in Seq(Nodes), TakenOut(c, at, d),
           NEW f \in [Nodes -> Payload]
    PROVE  TakenOut(Held(f, c), at, Held(f, d))
<1>1. /\ Len(Held(f, c)) = Len(c) /\ Len(Held(f, d)) = Len(d)
      /\ \A k \in 1 .. Len(c) : Held(f, c)[k] = f[c[k]]
      /\ \A k \in 1 .. Len(d) : Held(f, d)[k] = f[d[k]]
      /\ Len(c) \in Nat
  BY HeldFacts, CellsFacts
<1>2. /\ at \in 1 .. Len(c) /\ Len(d) = Len(c) - 1
      /\ \A i \in 1 .. Len(c) - 1 : d[i] = IF i < at THEN c[i] ELSE c[i + 1]
  BY DEF TakenOut
<1>3. ASSUME NEW i \in 1 .. Len(c) - 1
      PROVE  Held(f, d)[i] = IF i < at THEN Held(f, c)[i] ELSE Held(f, c)[i + 1]
  <2>1. i \in 1 .. Len(c) /\ i + 1 \in 1 .. Len(c) /\ Held(f, d)[i] = f[d[i]]
    BY <1>1, <1>2
  <2> QED
    BY <1>1, <1>2, <2>1
<1> QED
  BY <1>1, <1>2, <1>3 DEF TakenOut
-----------------------------------------------------------------------------
(* What each operation makes of a list c, and of the values in it.         *)

LEMMA AddStep ==
    ASSUME CellsTypeOK, NEW c \in Seq(Nodes), Links(c), NEW v \in Values, Add(v)
    PROVE  /\ Len(c) < Cardinality(Nodes) /\ CellsTypeOK'
           /\ \E d \in Seq(Nodes) :
                 Links(d)' /\ Held(data', d) = Append(Held(data, c), v)
<1>1. PICK n \in Nodes :
        /\ Allocate(n, v) /\ tail' = n
        /\ IF IsEmpty
           THEN head' = n /\ next' = [next EXCEPT ![n] = NULL]
           ELSE head' = head /\ next' = [next EXCEPT ![n] = NULL, ![tail] = n]
  BY DEF Add
<1>2. /\ Len(c) \in Nat /\ n \notin Cells(c) /\ v \in Payload
      /\ \A i \in 1 .. Len(c) : c[i] \in Nodes /\ c[i] # NULL /\ c[i] # n
  BY <1>1, CellsFacts DEF Links, Allocate, Cells, Payload
<1> DEFINE d == Append(c, n)
<1>3. d \in Seq(Nodes) /\ PutIn(c, Len(c) + 1, n, d)
  BY AppendPutsIn
<1> HIDE DEF d
<1>4. /\ Len(d) = Len(c) + 1 /\ d[Len(c) + 1] = n
      /\ \A i \in 1 .. Len(c) : d[i] = c[i]
  BY <1>2, <1>3 DEF PutIn
<1>5. Once(d) /\ Cells(d) = Cells(c) \cup {n}
  BY <1>2, <1>3, OneCellMore DEF Links
<1>6. ASSUME Len(c) = 0 PROVE Links(d)'
  <2>1. head' = n /\ next' = [next EXCEPT ![n] = NULL]
    BY <1>1, <1>6 DEF IsEmpty, Links
  <2>2. next'[n] = NULL
    BY <2>1 DEF CellsTypeOK
  <2> QED
    BY <1>1, <1>3, <1>4, <1>5, <1>6, <2>1, <2>2 DEF Links, Allocate
<1>7. ASSUME Len(c) # 0 PROVE Links(d)'
  <2>1. /\ head = c[1] /\ tail = c[Len(c)] /\ 1 \in 1 .. Len(c) /\ Len(c) \in 1 .. Len(c)
        /\ head' = head /\ next' = [next EXCEPT ![n] = NULL, ![tail] = n]
    BY <1>1, <1>2, <1>7 DEF IsEmpty, Links
  <2>2. next'[n] = NULL /\ next'[tail] = n
    BY <1>2, <2>1 DEF CellsTypeOK
  <2>3. ASSUME NEW i \in 1 .. Len(d)
        PROVE  next'[d[i]] = IF i < Len(d) THEN d[i + 1] ELSE NULL
    <3>1. CASE i = Len(d)
      BY <1>2, <1>3, <1>4, <2>2, <3>1
    <3>2. CASE i = Len(c)
      BY <1>2, <1>3, <1>4, <2>1, <2>2, <3>2
    <3>3. CASE i < Len(c)
      <4>1. i \in 1 .. Len(c) /\ i + 1 \in 1 .. Len(c)
        BY <1>2, <1>3, <1>4, <3>3
      <4>2. c[i] # tail
        BY <1>2, <2>1, <3>3, <4>1 DEF Links, Once
      <4>3. next'[c[i]] = next[c[i]]
        BY <1>2, <2>1, <4>1, <4>2 DEF CellsTypeOK
      <4> QED
        BY <1>2, <1>3, <1>4, <3>3, <4>1, <4>3 DEF Links
    <3> QED
      BY <1>2, <1>3, <1>4, <3>1, <3>2, <3>3
  <2>4. head' = d[1] /\ tail' = d[Len(d)] /\ Len(d) # 0
    BY <1>1, <1>2, <1>4, <2>1
  <2>5. live' = Cells(d)
    BY <1>1, <1>5 DEF Links, Allocate
  <2> QED
    BY <1>5, <2>3, <2>4, <2>5 DEF Links
<1>8. CellsTypeOK'
  BY <1>1, <1>2 DEF CellsTypeOK, Allocate, Pointers, Payload
<1>9. Held(data', d) = Append(Held(data, c), v)
  <2>1. Held(data, c) \in Seq(Payload) /\ Len(Held(data, c)) = Len(c)
    BY HeldFacts DEF CellsTypeOK
  <2>2. Held(data', d) \in Seq(Payload)
    BY <1>3, <1>8, HeldFacts DEF CellsTypeOK
  <2>3. PutIn(Held(data, c), Len(c) + 1, v, Held(data', d))
    BY <1>1, <1>2, <1>3, HeldPutIn DEF CellsTypeOK, Allocate
  <2>4. /\ Append(Held(data, c), v) \in Seq(Payload)
        /\ PutIn(Held(data, c), Len(c) + 1, v, Append(Held(data, c), v))
    BY <1>2, <2>1, AppendPutsIn
  <2> QED
    BY <2>2, <2>3, <2>4, PutInOnce
<1>10. Len(c) < Cardinality(Nodes)
  BY <1>2, ListFits DEF Links
<1> QED
  BY <1>3, <1>4, <1>6, <1>7, <1>8, <1>9, <1>10

LEMMA AddFrontStep ==
    ASSUME CellsTypeOK, NEW c \in Seq(Nodes), Links(c), NEW v \in Values, AddFront(v)
    PROVE  /\ Len(c) < Cardinality(Nodes) /\ CellsTypeOK'
           /\ \E d \in Seq(Nodes) :
                 Links(d)' /\ Held(data', d) = <<v>> \o Held(data, c)
<1>1. PICK n \in Nodes :
        /\ Allocate(n, v) /\ head' = n
        /\ next' = [next EXCEPT ![n] = head]
        /\ tail' = IF head = NULL THEN n ELSE tail
  BY DEF AddFront
<1>2. /\ Len(c) \in Nat /\ n \notin Cells(c) /\ v \in Payload
      /\ \A i \in 1 .. Len(c) : c[i] \in Nodes /\ c[i] # NULL /\ c[i] # n
  BY <1>1, CellsFacts DEF Links, Allocate, Cells, Payload
<1> DEFINE d == <<n>> \o c
<1>3. d \in Seq(Nodes) /\ PutIn(c, 1, n, d)
  BY InFrontPutsIn
<1> HIDE DEF d
<1>4. /\ Len(d) = Len(c) + 1 /\ d[1] = n
      /\ \A i \in 2 .. Len(c) + 1 : d[i] = c[i - 1]
  BY <1>2, <1>3 DEF PutIn
<1>5. Once(d) /\ Cells(d) = Cells(c) \cup {n}
  BY <1>2, <1>3, OneCellMore DEF Links
<1>6. Links(d)'
  <2>1. next'[n] = head /\ \A i \in 1 .. Len(c) : next'[c[i]] = next[c[i]]
    BY <1>1, <1>2 DEF CellsTypeOK
  <2>2. ASSUME NEW i \in 1 .. Len(d)
        PROVE  next'[d[i]] = IF i < Len(d) THEN d[i + 1] ELSE NULL
    <3>1. CASE i = 1
      BY <1>2, <1>4, <2>1, <3>1 DEF Links
    <3>2. CASE i # 1
      <4>1. i - 1 \in 1 .. Len(c) /\ d[i] = c[i - 1]
        BY <1>2, <1>4, <3>2
      <4>2. next'[d[i]] = IF i - 1 < Len(c) THEN c[i - 1 + 1] ELSE NULL
        BY <2>1, <4>1 DEF Links
      <4>3. i < Len(d) => d[i + 1] = c[i]
        BY <1>2, <1>4, <3>2
      <4> QED
        BY <1>2, <1>4, <4>1, <4>2, <4>3
    <3> QED
      BY <3>1, <3>2
  <2>3. tail' = d[Len(d)]
    <3>1. CASE Len(c) = 0
      BY <1>1, <1>4, <3>1 DEF Links
    <3>2. CASE Len(c) # 0
      <4>1. 1 \in 1 .. Len(c) /\ Len(c) + 1 \in 2 .. Len(c) + 1
        BY <1>2, <3>2
      <4>2. head # NULL /\ tail = c[Len(c)]
        BY <1>2, <3>2, <4>1 DEF Links
      <4> QED
        BY <1>1, <1>2, <1>4, <4>1, <4>2
    <3> QED
      BY <3>1, <3>2
  <2>4. head' = d[1] /\ Len(d) # 0
    BY <1>1, <1>2, <1>4
  <2>5. live' = Cells(d)
    BY <1>1, <1>5 DEF Links, Allocate
  <2> QED
    BY <1>5, <2>2, <2>3, <2>4, <2>5 DEF Links
<1>7. CellsTypeOK'
  BY <1>1, <1>2 DEF CellsTypeOK, Allocate, Pointers, Payload
<1>8. Held(data', d) = <<v>> \o Held(data, c)
  <2>1. Held(data, c) \in Seq(Payload)
    BY HeldFacts DEF CellsTypeOK
  <2>2. Held(data', d) \in Seq(Payload)
    BY <1>3, <1>7, HeldFacts DEF CellsTypeOK
  <2>3. PutIn(Held(data, c), 1, v, Held(data', d))
    BY <1>1, <1>2, <1>3, HeldPutIn DEF CellsTypeOK, Allocate
  <2>4. /\ <<v>> \o Held(data, c) \in Seq(Payload)
        /\ PutIn(Held(data, c), 1, v, <<v>> \o Held(data, c))
    BY <1>2, <2>1, InFrontPutsIn
  <2> QED
    BY <2>2, <2>3, <2>4, PutInOnce
<1>9. Len(c) < Cardinality(Nodes)
  BY <1>2, ListFits DEF Links
<1> QED
  BY <1>3, <1>6, <1>7, <1>8, <1>9

\* The head is unlinked.
LEMMA HeadUnlinked ==
    ASSUME CellsTypeOK, NEW c \in Seq(Nodes), Links(c), Len(c) # 0,
           next' = [next EXCEPT ![head] = NULL], live' = live \ {head}, data' = data,
           IF head = tail THEN head' = NULL /\ tail' = NULL
                          ELSE head' = next[head] /\ tail' = tail
    PROVE  CellsTypeOK' /\ \E d \in Seq(Nodes) : TakenOut(c, 1, d) /\ Links(d)'
<1> DEFINE d == Tail(c)
<1>1. d \in Seq(Nodes) /\ TakenOut(c, 1, d)
  BY TailTakesOut
<1> HIDE DEF d
<1>a. Len(c) \in Nat /\ Len(c) >= 1
  BY CellsFacts
<1>2. /\ Len(c) \in Nat \ {0} /\ 1 \in 1 .. Len(c) /\ Len(c) \in 1 .. Len(c)
      /\ \A i \in 1 .. Len(c) : c[i] \in Nodes /\ c[i] # NULL
  BY <1>a, CellsFacts
<1>3. Len(d) = Len(c) - 1 /\ \A i \in 1 .. Len(c) - 1 : d[i] = c[i + 1]
  BY <1>1 DEF TakenOut
<1>4. Once(d) /\ Cells(d) = Cells(c) \ {c[1]}
  BY <1>1, OneCellLess DEF Links
<1>5. head = c[1] /\ tail = c[Len(c)] /\ (head = tail <=> Len(c) = 1)
  BY <1>2 DEF Links, Once
<1>6. /\ head' = IF Len(d) = 0 THEN NULL ELSE d[1]
      /\ tail' = IF Len(d) = 0 THEN NULL ELSE d[Len(d)]
  <2>1. CASE Len(c) = 1
    BY <1>3, <1>5, <2>1
  <2>2. CASE 1 < Len(c)
    <3>1. next[c[1]] = c[2]
      <4>1. next[c[1]] = IF 1 < Len(c) THEN c[1 + 1] ELSE NULL
        BY <1>2 DEF Links
      <4>2. 1 + 1 = 2
        OBVIOUS
      <4> QED
        BY <2>2, <4>1, <4>2
    <3>2. d[1] = c[2] /\ d[Len(d)] = c[Len(c)] /\ Len(d) # 0
      BY <1>2, <1>3, <2>2
    <3> QED
      BY <1>5, <2>2, <3>1, <3>2
  <2>3. \A n \in Nat : n # 0 => n = 1 \/ 1 < n
    OBVIOUS
  <2>4. Len(c) = 1 \/ 1 < Len(c)
    BY <1>a, <2>3
  <2> QED
    BY <2>1, <2>2, <2>4
<1>7. ASSUME NEW i \in 1 .. Len(d)
      PROVE  next'[d[i]] = IF i < Len(d) THEN d[i + 1] ELSE NULL
  <2>1. i + 1 \in 1 .. Len(c) /\ d[i] = c[i + 1] /\ c[i + 1] # head /\ c[i + 1] \in Nodes
    BY <1>2, <1>3, <1>5 DEF Links, Once
  <2>2. next'[d[i]] = IF i + 1 < Len(c) THEN c[i + 1 + 1] ELSE NULL
    BY <2>1 DEF Links, CellsTypeOK
  <2>3. i < Len(d) => d[i + 1] = c[i + 1 + 1]
    BY <1>2, <1>3
  <2> QED
    BY <1>2, <1>3, <2>2, <2>3
<1>8. Links(d)'
  BY <1>4, <1>5, <1>6, <1>7 DEF Links
<1>9. CellsTypeOK'
  BY <1>2, <1>5 DEF CellsTypeOK, Pointers
<1> QED
  BY <1>1, <1>8, <1>9

\* A later cell is unlinked.
LEMMA LaterUnlinked ==
    ASSUME CellsTypeOK, NEW c \in Seq(Nodes), Links(c), NEW at \in 2 .. Len(c),
           head' = head, tail' = TailWithout(c[at], c[at - 1]), data' = data,
           next' = [next EXCEPT ![c[at - 1]] = IF c[at] = tail THEN NULL ELSE next[c[at]]],
           live' = live \ {c[at]}
    PROVE  CellsTypeOK' /\ \E d \in Seq(Nodes) : TakenOut(c, at, d) /\ Links(d)'
<1>1. /\ Len(c) \in Nat \ {0} /\ at \in 1 .. Len(c) /\ at - 1 \in 1 .. Len(c)
      /\ Len(c) \in 1 .. Len(c)
      /\ \A i \in 1 .. Len(c) : c[i] \in Nodes /\ c[i] # NULL
  BY CellsFacts
<1> DEFINE d == RemoveAt(c, at)
<1>2. d \in Seq(Nodes) /\ TakenOut(c, at, d)
  BY <1>1, RemoveAtTakesOut
<1> HIDE DEF d
<1>3. /\ Len(d) = Len(c) - 1
      /\ \A i \in 1 .. Len(c) - 1 : d[i] = IF i < at THEN c[i] ELSE c[i + 1]
  BY <1>2 DEF TakenOut
<1>4. Once(d) /\ Cells(d) = Cells(c) \ {c[at]}
  BY <1>2, OneCellLess DEF Links
<1>5. /\ head = c[1] /\ tail = c[Len(c)] /\ (c[at] = tail <=> at = Len(c))
      /\ next[c[at]] = IF at < Len(c) THEN c[at + 1] ELSE NULL
      /\ \A i \in 1 .. Len(c) : c[i] = c[at - 1] => i = at - 1
  BY <1>1 DEF Links, Once
<1>6. head' = d[1] /\ tail' = d[Len(d)] /\ Len(d) # 0
  <2>1. head' = d[1] /\ Len(d) # 0
    BY <1>1, <1>3, <1>5
  <2>2. CASE at = Len(c)
    BY <1>1, <1>3, <1>5, <2>2 DEF TailWithout
  <2>3. CASE at # Len(c)
    <3>1. Len(d) \in 1 .. Len(c) - 1 /\ ~(Len(d) < at) /\ Len(d) + 1 = Len(c)
      BY <1>1, <1>3, <2>3
    <3>2. d[Len(d)] = c[Len(c)]
      BY <1>3, <3>1
    <3> QED
      BY <1>5, <2>1, <2>3, <3>2 DEF TailWithout
  <2> QED
    BY <2>1, <2>2, <2>3
<1>7. ASSUME NEW i \in 1 .. Len(d)
      PROVE  next'[d[i]] = IF i < Len(d) THEN d[i + 1] ELSE NULL
  <2>1. i \in 1 .. Len(c) - 1 /\ i + 1 \in 1 .. Len(c) /\ i \in 1 .. Len(c)
    BY <1>1, <1>3
  <2>2. CASE i < at - 1
    <3>1. d[i] = c[i] /\ c[i] # c[at - 1] /\ c[i] \in Nodes /\ i < Len(c) /\ i < Len(d)
      BY <1>1, <1>3, <1>5, <2>1, <2>2
    <3>2. d[i + 1] = c[i + 1]
      <4>1. i + 1 \in 1 .. Len(c) - 1 /\ i + 1 < at
        BY <1>1, <2>1, <2>2
      <4> QED
        BY <1>3, <4>1
    <3>3. next'[c[i]] = c[i + 1]
      BY <2>1, <3>1 DEF Links, CellsTypeOK
    <3> QED
      BY <3>1, <3>2, <3>3
  <2>3. CASE i = at - 1
    <3>1. d[i] = c[at - 1] /\ c[at - 1] \in Nodes
      BY <1>1, <1>3, <2>1, <2>3
    <3>2. next'[c[at - 1]] = IF at = Len(c) THEN NULL ELSE c[at + 1]
      BY <1>1, <1>5, <3>1 DEF CellsTypeOK
    <3>3. at # Len(c) => i < Len(d) /\ d[i + 1] = c[at + 1]
      BY <1>1, <1>3, <2>1, <2>3
    <3>4. at = Len(c) => ~(i < Len(d))
      BY <1>1, <1>3, <2>3
    <3> QED
      BY <3>1, <3>2, <3>3, <3>4
  <2>4. CASE i >= at
    <3>1. d[i] = c[i + 1] /\ c[i + 1] # c[at - 1] /\ c[i + 1] \in Nodes
      BY <1>1, <1>3, <1>5, <2>1, <2>4
    <3>2. next'[c[i + 1]] = IF i + 1 < Len(c) THEN c[i + 1 + 1] ELSE NULL
      BY <2>1, <3>1 DEF Links, CellsTypeOK
    <3>3. i < Len(d) => d[i + 1] = c[i + 1 + 1]
      BY <1>1, <1>3, <2>1, <2>4
    <3> QED
      BY <1>1, <1>3, <3>1, <3>2, <3>3
  <2> QED
    BY <1>1, <2>2, <2>3, <2>4
<1>8. Links(d)'
  <2>1. live' = Cells(d)
    BY <1>4 DEF Links
  <2> QED
    BY <1>4, <1>6, <1>7, <2>1 DEF Links
<1>9. CellsTypeOK'
  <2>1. next' \in [Nodes -> Pointers]
    BY <1>1 DEF CellsTypeOK, Pointers
  <2> QED
    BY <1>1, <2>1 DEF CellsTypeOK, Pointers, TailWithout
<1> QED
  BY <1>2, <1>8, <1>9

LEMMA RemoveFrontStep ==
    ASSUME CellsTypeOK, NEW c \in Seq(Nodes), Links(c), RemoveFront
    PROVE  /\ CellsTypeOK'
           /\ \E d \in Seq(Nodes) :
                 /\ Links(d)'
                 /\ Held(data', d) = IF Held(data, c) = <<>> THEN <<>> ELSE Tail(Held(data, c))
<1>1. /\ Held(data, c) \in Seq(Payload) /\ Len(Held(data, c)) = Len(c)
      /\ Len(c) \in Nat /\ (Held(data, c) = <<>> <=> Len(c) = 0)
  BY HeldFacts, CellsFacts, EmptySeq DEF CellsTypeOK
<1>2. data' = data
  BY DEF RemoveFront
<1>3. CASE Len(c) = 0
  <2>1. head = NULL /\ tail = NULL
    BY <1>3 DEF Links
  <2>2. CellsTypeOK' /\ Links(c)'
    BY <2>1 DEF RemoveFront, CellsTypeOK, Links
  <2> QED
    BY <1>1, <1>2, <1>3, <2>2
<1>4. CASE Len(c) # 0
  <2>1. head # NULL
    BY <1>1, <1>4, CellsFacts DEF Links
  <2>2. /\ next' = [next EXCEPT ![head] = NULL] /\ live' = live \ {head}
        /\ IF head = tail THEN head' = NULL /\ tail' = NULL
                          ELSE head' = next[head] /\ tail' = tail
    BY <2>1 DEF RemoveFront, Free
  <2>3. PICK d \in Seq(Nodes) : CellsTypeOK' /\ TakenOut(c, 1, d) /\ Links(d)'
    BY <1>2, <1>4, <2>2, HeadUnlinked
  <2>4. Held(data, d) = Tail(Held(data, c))
    <3>1. TakenOut(Held(data, c), 1, Held(data, d)) /\ Held(data, d) \in Seq(Payload)
      BY <2>3, HeldTakenOut, HeldFacts DEF CellsTypeOK
    <3>2. TakenOut(Held(data, c), 1, Tail(Held(data, c))) /\ Tail(Held(data, c)) \in Seq(Payload)
      BY <1>1, <1>4, TailTakesOut
    <3> QED
      BY <3>1, <3>2, TakenOutOnce
  <2> QED
    BY <1>1, <1>2, <1>4, <2>3, <2>4
<1> QED
  BY <1>3, <1>4

LEMMA RemoveValueStep ==
    ASSUME CellsTypeOK, NEW c \in Seq(Nodes), Links(c), NEW v \in Values, RemoveValue(v)
    PROVE  /\ CellsTypeOK'
           /\ IF Hits(v) = {}
              THEN Links(c)' /\ Held(data', c) = Held(data, c)
              ELSE \E d \in Seq(Nodes) :
                      Links(d)' /\ Held(data', d) = RemoveAt(Held(data, c), FirstHit(v))
<1>1. /\ Held(data, c) \in Seq(Payload) /\ Len(Held(data, c)) = Len(c)
      /\ Len(c) \in Nat /\ DOMAIN c = 1 .. Len(c)
      /\ \A i \in 1 .. Len(c) : c[i] # NULL
  BY HeldFacts, CellsFacts DEF CellsTypeOK
<1>2. data' = data /\ Chain = c
  BY ChainIs DEF RemoveValue
<1>3. CASE Hits(v) = {}
  BY <1>2, <1>3 DEF RemoveValue, CellsTypeOK, Links
<1>4. CASE Hits(v) # {}
  <2> DEFINE k == FirstHit(v)
  <2>1. k \in 1 .. Len(c)
    <3>1. Hits(v) \subseteq 1 .. Len(c) /\ Hits(v) \subseteq Nat
      BY <1>1, <1>2 DEF Hits
    <3> HIDE DEF k
    <3>2. (CHOOSE m \in Hits(v) : \A j \in Hits(v) : m <= j) \in Hits(v)
      BY <1>4, <3>1, LeastInSet
    <3> QED
      BY <3>1, <3>2 DEF k, FirstHit
  <2>2. /\ live' = live \ {c[k]}
        /\ k = 1 =>
              /\ next' = [next EXCEPT ![c[k]] = NULL]
              /\ IF head = tail THEN head' = NULL /\ tail' = NULL
                                ELSE head' = next[head] /\ tail' = tail
        /\ k # 1 =>
              /\ head' = head /\ tail' = TailWithout(c[k], c[k - 1])
              /\ next' = [next EXCEPT ![c[k - 1]] = IF c[k] = tail THEN NULL ELSE next[c[k]]]
    BY <1>2, <1>4 DEF RemoveValue, Free
  <2> HIDE DEF k
  <2>3. PICK d \in Seq(Nodes) : CellsTypeOK' /\ TakenOut(c, k, d) /\ Links(d)'
    <3>1. CASE k = 1
      <4>1. head = c[1] /\ Len(c) # 0
        BY <1>1, <2>1, <3>1 DEF Links
      <4>2. next' = [next EXCEPT ![head] = NULL] /\ live' = live \ {head}
        BY <2>2, <3>1, <4>1
      <4> QED
        BY <1>2, <2>2, <3>1, <4>1, <4>2, HeadUnlinked
    <3>2. CASE k # 1
      <4>1. k \in 2 .. Len(c)
        BY <1>1, <2>1, <3>2
      <4> QED
        BY <1>2, <2>2, <3>2, <4>1, LaterUnlinked
    <3> QED
      BY <3>1, <3>2
  <2>4. Held(data, d) = RemoveAt(Held(data, c), k)
    <3>1. TakenOut(Held(data, c), k, Held(data, d)) /\ Held(data, d) \in Seq(Payload)
      BY <2>3, HeldTakenOut, HeldFacts DEF CellsTypeOK
    <3>2. /\ TakenOut(Held(data, c), k, RemoveAt(Held(data, c), k))
          /\ RemoveAt(Held(data, c), k) \in Seq(Payload)
      BY <1>1, <2>1, RemoveAtTakesOut
    <3> QED
      BY <3>1, <3>2, TakenOutOnce
  <2> QED
    BY <1>2, <1>4, <2>3, <2>4 DEF k
<1> QED
  BY <1>3, <1>4

LEMMA DestroyStep ==
    ASSUME CellsTypeOK, NEW c \in Seq(Nodes), Links(c), Destroy
    PROVE  CellsTypeOK' /\ Links(<<>>)' /\ <<>> \in Seq(Nodes) /\ Held(data', <<>>) = <<>>
<1>1. Chain = c /\ DOMAIN c = 1 .. Len(c) /\ Len(c) \in Nat /\ Len(<<>>) = 0
  BY ChainIs, CellsFacts
<1>2. live' = {}
  BY <1>1 DEF Destroy, Links, Cells
<1>3. next' \in [Nodes -> Pointers]
  BY DEF Destroy, CellsTypeOK, Pointers
<1>4. CellsTypeOK'
  BY <1>2, <1>3 DEF Destroy, CellsTypeOK, Pointers
<1>5. Cells(<<>>) = {} /\ Once(<<>>)
  BY <1>1 DEF Cells, Once
<1>6. Links(<<>>)'
  BY <1>1, <1>2, <1>5 DEF Destroy, Links
<1>7. Held(data', <<>>) = <<>>
  BY <1>1 DEF Held
<1> QED
  BY <1>4, <1>6, <1>7
-----------------------------------------------------------------------------
QueueInv == CellsTypeOK /\ \E c \in Seq(Nodes) : Links(c)

LEMMA QueueInvInit == QueueInit => QueueInv
<1>1. SUFFICES ASSUME QueueInit PROVE QueueInv
  OBVIOUS
<1>2. <<>> \in Seq(Nodes) /\ Len(<<>>) = 0
  OBVIOUS
<1>3. Links(<<>>)
  BY <1>1, <1>2 DEF QueueInit, Links, Once, Cells
<1>4. CellsTypeOK
  BY <1>1 DEF QueueInit, CellsTypeOK, Payload, Pointers
<1> QED
  BY <1>2, <1>3, <1>4 DEF QueueInv

\* The step that d, the list after an operation, shows the abstract queue.
LEMMA SequenceStep ==
    QueueInv /\ [QueueNext]_queueVars => QueueInv' /\ [Abstract!Next]_(Abstract!qvars)
<1>0. (\A c \in Seq(Nodes) : Links(c) => Contents = Held(data, c))'
  BY ContentsIs, PTL
<1>1. SUFFICES ASSUME QueueInv, [QueueNext]_queueVars
               PROVE  QueueInv' /\ [Abstract!Next]_(Abstract!qvars)
  OBVIOUS
<1>2. PICK c \in Seq(Nodes) : CellsTypeOK /\ Links(c)
  BY <1>1 DEF QueueInv
<1>4. Contents = Held(data, c) /\ \A d \in Seq(Nodes) : Links(d)' => Contents' = Held(data', d)
  BY <1>0, <1>2, ContentsIs
<1>5. /\ Contents \in Seq(Payload) /\ Len(Contents) = Len(c)
      /\ DOMAIN Contents = 1 .. Len(c)
      /\ \A k \in 1 .. Len(c) : Contents[k] = data[c[k]]
  BY <1>2, <1>4, HeldFacts DEF CellsTypeOK
<1>6. Chain = c /\ DOMAIN c = 1 .. Len(c)
  BY <1>2, ChainIs, CellsFacts
<1>7. \A v : Hits(v) = {i \in DOMAIN Contents : Contents[i] = v}
  BY <1>5, <1>6 DEF Hits
<1>8. ASSUME NEW v \in Values, Add(v) PROVE QueueInv' /\ Abstract!Add(v)
  <2>1. /\ Len(c) < Cardinality(Nodes) /\ CellsTypeOK'
        /\ \E d \in Seq(Nodes) : Links(d)' /\ Held(data', d) = Append(Contents, v)
    BY <1>2, <1>4, <1>8, AddStep
  <2>2. ret' = FALSE
    BY <1>8 DEF Add, Allocate
  <2> QED
    BY <1>4, <1>5, <2>1, <2>2 DEF QueueInv, Abstract!Add
<1>9. ASSUME NEW v \in Values, AddFront(v) PROVE QueueInv' /\ Abstract!AddFront(v)
  <2>1. /\ Len(c) < Cardinality(Nodes) /\ CellsTypeOK'
        /\ \E d \in Seq(Nodes) : Links(d)' /\ Held(data', d) = <<v>> \o Contents
    BY <1>2, <1>4, <1>9, AddFrontStep
  <2>2. ret' = FALSE
    BY <1>9 DEF AddFront, Allocate
  <2> QED
    BY <1>4, <1>5, <2>1, <2>2 DEF QueueInv, Abstract!AddFront
<1>10. ASSUME RemoveFront PROVE QueueInv' /\ Abstract!RemoveFront
  <2>1. /\ CellsTypeOK'
        /\ \E d \in Seq(Nodes) :
              Links(d)' /\ Held(data', d) = IF Contents = <<>> THEN <<>> ELSE Tail(Contents)
    BY <1>2, <1>4, <1>10, RemoveFrontStep
  <2>2. ret' = FALSE
    BY <1>10 DEF RemoveFront
  <2> QED
    BY <1>4, <2>1, <2>2 DEF QueueInv, Abstract!RemoveFront
<1>11. ASSUME NEW v \in Values, RemoveValue(v) PROVE QueueInv' /\ Abstract!Remove(v)
  <2>1. /\ CellsTypeOK'
        /\ IF Hits(v) = {}
           THEN Links(c)' /\ Held(data', c) = Contents
           ELSE \E d \in Seq(Nodes) : Links(d)' /\ Held(data', d) = RemoveAt(Contents, FirstHit(v))
    BY <1>2, <1>4, <1>11, RemoveValueStep
  <2>2. ret' = (Hits(v) # {})
    BY <1>11 DEF RemoveValue
  <2>3. IF Hits(v) = {} THEN Contents' = Contents
                        ELSE Contents' = RemoveAt(Contents, FirstHit(v))
    BY <1>4, <2>1
  <2>4. Abstract!Remove(v)
    <3> DEFINE H == {i \in DOMAIN Contents : Contents[i] = v}
    <3>1. Hits(v) = H /\ FirstHit(v) = CHOOSE i \in H : \A j \in H : i <= j
      BY <1>7 DEF FirstHit
    <3>2. CASE H = {}
      BY <2>2, <2>3, <3>1, <3>2 DEF Abstract!Remove
    <3>3. CASE H # {}
      BY <2>2, <2>3, <3>1, <3>3 DEF Abstract!Remove, RemoveAt
    <3> QED
      BY <3>2, <3>3
  <2> QED
    BY <2>1, <2>4 DEF QueueInv
<1>12. ASSUME NEW v \in Values, IsMember(v) PROVE QueueInv' /\ Abstract!IsMember(v)
  <2>1. CellsTypeOK' /\ Links(c)' /\ Held(data', c) = Held(data, c)
    BY <1>2, <1>12 DEF IsMember, CellsTypeOK, Links
  <2>2. ret' = \E i \in DOMAIN Contents : Contents[i] = v
    BY <1>7, <1>12 DEF IsMember
  <2> QED
    BY <1>4, <2>1, <2>2 DEF QueueInv, Abstract!IsMember
<1>13. ASSUME Destroy PROVE QueueInv' /\ Abstract!Destroy
  <2>1. CellsTypeOK' /\ Links(<<>>)' /\ <<>> \in Seq(Nodes) /\ Held(data', <<>>) = <<>>
    BY <1>2, <1>13, DestroyStep
  <2>2. ret' = FALSE
    BY <1>13 DEF Destroy
  <2> QED
    BY <1>4, <2>1, <2>2 DEF QueueInv, Abstract!Destroy
<1>14. ASSUME UNCHANGED queueVars PROVE QueueInv' /\ UNCHANGED Abstract!qvars
  <2>1. CellsTypeOK' /\ Links(c)' /\ Held(data', c) = Held(data, c)
    BY <1>2, <1>14 DEF queueVars, CellsTypeOK, Links
  <2>2. ret' = ret
    BY <1>14 DEF queueVars
  <2> QED
    BY <1>4, <2>1, <2>2 DEF QueueInv, Abstract!qvars
<1> QED
  BY <1>1, <1>8, <1>9, <1>10, <1>11, <1>12, <1>13, <1>14 DEF QueueNext, Abstract!Next

LEMMA ListKeepsInv == ListSpec => []QueueInv
  BY QueueInvInit, SequenceStep, PTL DEF ListSpec

\* Every cell that was allocated and not deleted is in the list, after any
\* order of operations.
THEOREM CellsStayOwned == ListSpec => []Owned
<1>1. QueueInv => Owned
  <2>1. SUFFICES ASSUME QueueInv PROVE Owned
    OBVIOUS
  <2>2. PICK c \in Seq(Nodes) : Links(c)
    BY <2>1 DEF QueueInv
  <2>3. Chain = c /\ DOMAIN c = 1 .. Len(c)
    BY <2>2, ChainIs, CellsFacts
  <2> QED
    BY <2>2, <2>3 DEF Owned, Links, Cells
<1> QED
  BY <1>1, ListKeepsInv, PTL

\* m_Tail is the last cell of the list, or null together with m_Head.
THEOREM TailStaysLast == ListSpec => []TailIsLast
<1>1. QueueInv => TailIsLast
  <2>1. SUFFICES ASSUME QueueInv PROVE TailIsLast
    OBVIOUS
  <2>2. PICK c \in Seq(Nodes) : Links(c)
    BY <2>1 DEF QueueInv
  <2>3. /\ Chain = c /\ Len(c) \in Nat
        /\ \A i \in 1 .. Len(c) : c[i] \in Nodes /\ c[i] # NULL
    BY <2>2, ChainIs, CellsFacts
  <2> QED
    BY <2>2, <2>3 DEF TailIsLast, Links
<1> QED
  BY <1>1, ListKeepsInv, PTL

\* The linked list is the sequence that its users take it for: every operation
\* on the cells is the operation of that name on the sequence, or no step.
THEOREM ListImplementsSequence == ListSpec => Refines
<1>1. QueueInit => Abstract!Init
  <2>1. SUFFICES ASSUME QueueInit PROVE Abstract!Init
    OBVIOUS
  <2>2. <<>> \in Seq(Nodes) /\ Len(<<>>) = 0
    OBVIOUS
  <2>3. Links(<<>>)
    BY <2>1, <2>2 DEF QueueInit, Links, Once, Cells
  <2>4. Contents = Held(data, <<>>)
    BY <2>2, <2>3, ContentsIs
  <2>5. Held(data, <<>>) = <<>>
    BY <2>2 DEF Held
  <2> QED
    BY <2>1, <2>4, <2>5 DEF QueueInit, Abstract!Init
<1> QED
  BY <1>1, ListKeepsInv, SequenceStep, PTL DEF ListSpec, Refines, Abstract!Spec
-----------------------------------------------------------------------------
(* The schedules.                                                          *)

TaskLists == Seq({"path", "act", "spot"}) \ {<<>>}

LEMMA TasksTyped == \A p \in Plans : TasksOf[p] \in TaskLists
<1>1. /\ <<"path", "act">> \in TaskLists /\ <<"act", "path">> \in TaskLists
      /\ <<"spot", "path">> \in TaskLists
      /\ <<"act">> \in TaskLists /\ <<"path">> \in TaskLists
  BY DEF TaskLists
<1>2. Plans = {"goto", "fetch", "enemy", "grenade", "snipe", "gravgun", "order", "hide", "noise"}
  BY DEF Plans, TasksOf
<1>3. /\ TasksOf["goto"] \in TaskLists /\ TasksOf["fetch"] \in TaskLists
      /\ TasksOf["enemy"] \in TaskLists /\ TasksOf["grenade"] \in TaskLists
      /\ TasksOf["snipe"] \in TaskLists /\ TasksOf["gravgun"] \in TaskLists
      /\ TasksOf["order"] \in TaskLists /\ TasksOf["hide"] \in TaskLists
      /\ TasksOf["noise"] \in TaskLists
  BY <1>1 DEF TasksOf
<1> QED
  BY <1>2, <1>3

LEMMA PlansTyped == \A u \in Utils : PlansOf[u] \subseteq Plans
  BY UtilsAssumption DEF PlansOf, Plans, TasksOf

LEMMA NewScheduleTyped ==
    ASSUME NEW p \in Plans
    PROVE  /\ NewSchedule(p) \in Schedule
           /\ NewSchedule(p).plan = p /\ NewSchedule(p).step = 0
  BY TasksTyped DEF NewSchedule, Schedule, TaskLists
-----------------------------------------------------------------------------
(* What is done to a queue.                                                *)

LEMMA QueueFacts ==
    ASSUME NEW q \in Seq(Schedule)
    PROVE  /\ Len(q) \in Nat /\ DOMAIN q = 1 .. Len(q)
           /\ \A i \in 1 .. Len(q) : q[i] \in Schedule
           /\ q # <<>> <=> Len(q) > 0
           /\ q # <<>> => Head(q) = q[1] /\ q[1] \in Schedule
<1>1. Len(q) \in Nat /\ DOMAIN q = 1 .. Len(q) /\ \A i \in 1 .. Len(q) : q[i] \in Schedule
  BY ElementOfSeq, LenProperties
<1>2. q # <<>> <=> Len(q) > 0
  BY <1>1, EmptySeq
<1>3. q # <<>> => Head(q) = q[1]
  BY HeadTailProperties
<1> QED
  BY <1>1, <1>2, <1>3

LEMMA TailFacts ==
    ASSUME NEW q \in Seq(Schedule), q # <<>>
    PROVE  /\ Tail(q) \in Seq(Schedule) /\ Len(Tail(q)) = Len(q) - 1
           /\ \A i \in 1 .. Len(q) - 1 : Tail(q)[i] = q[i + 1]
  BY QueueFacts, HeadTailProperties

LEMMA HeadFacts ==
    ASSUME NEW q \in Seq(Schedule), q # <<>>, NEW s \in Schedule
    PROVE  /\ [q EXCEPT ![1] = s] \in Seq(Schedule)
           /\ Len([q EXCEPT ![1] = s]) = Len(q)
           /\ [q EXCEPT ![1] = s][1] = s
           /\ \A i \in 2 .. Len(q) : [q EXCEPT ![1] = s][i] = q[i]
<1>1. Len(q) \in Nat /\ 1 \in 1 .. Len(q) /\ DOMAIN q = 1 .. Len(q)
  BY QueueFacts
<1>2. [q EXCEPT ![1] = s] \in Seq(Schedule) /\ Len([q EXCEPT ![1] = s]) = Len(q)
  BY <1>1, ExceptSeq
<1> QED
  BY <1>1, <1>2

LEMMA SingleFacts ==
    ASSUME NEW p \in Plans
    PROVE  /\ <<NewSchedule(p)>> \in Seq(Schedule) /\ Len(<<NewSchedule(p)>>) = 1
           /\ <<NewSchedule(p)>>[1] = NewSchedule(p)
  BY NewScheduleTyped

\* r is q after a schedule of the kind p came to the front; the one in front of
\* which all moved back, if it was one, was at f.
MovedBack(q, r, p, f) ==
    /\ Len(r) = IF f > Len(q) THEN Len(q) + 1 ELSE Len(q)
    /\ f <= Len(q) => q[f].plan = p
    /\ \A i \in 1 .. Len(q) : i # f => q[i].plan # p
    /\ \A i \in 2 .. Len(r) : r[i] = IF i <= f THEN q[i - 1] ELSE q[i]

\* With one schedule of a kind at most, removeSchedule and addFront leave one
\* of this kind, at the front, and keep the order of the others: the ones in
\* front of the removed schedule move one place back.
LEMMA PutInFrontFacts ==
    ASSUME NEW q \in Seq(Schedule), NEW p \in Plans,
           \A i, j \in DOMAIN q : q[i].plan = q[j].plan => i = j
    PROVE  /\ PutInFront(p, q) \in Seq(Schedule) /\ Len(PutInFront(p, q)) > 0
           /\ PutInFront(p, q)[1] = NewSchedule(p)
           /\ \E f \in 1 .. Len(q) + 1 : MovedBack(q, PutInFront(p, q), p, f)
<1> DEFINE places == {i \in DOMAIN q : q[i].plan = p}
           first  == CHOOSE i \in places : \A j \in places : i <= j
           r      == PutInFront(p, q)
<1>0. Len(q) \in Nat /\ DOMAIN q = 1 .. Len(q) /\ NewSchedule(p) \in Schedule
  BY QueueFacts, NewScheduleTyped
<1>1. CASE places = {}
  <2>1. r = <<NewSchedule(p)>> \o q
    BY <1>1 DEF PutInFront
  <2>2. /\ r \in Seq(Schedule) /\ Len(r) = Len(q) + 1
        /\ \A i \in 1 .. Len(q) + 1 : r[i] = IF i = 1 THEN NewSchedule(p) ELSE q[i - 1]
    BY <1>0, <2>1, InFrontFacts
  <2>3. \A i \in 1 .. Len(q) : q[i].plan # p
    BY <1>0, <1>1
  <2> HIDE DEF r, places
  <2>4. /\ Len(r) = IF Len(q) + 1 > Len(q) THEN Len(q) + 1 ELSE Len(q)
        /\ Len(q) + 1 <= Len(q) => q[Len(q) + 1].plan = p
        /\ \A i \in 1 .. Len(q) : i # Len(q) + 1 => q[i].plan # p
        /\ \A i \in 2 .. Len(r) : r[i] = IF i <= Len(q) + 1 THEN q[i - 1] ELSE q[i]
    BY <1>0, <2>2, <2>3
  <2>5. Len(q) + 1 \in 1 .. Len(q) + 1 /\ Len(r) > 0 /\ r[1] = NewSchedule(p)
    BY <1>0, <2>2
  <2> QED
    BY <2>2, <2>4, <2>5 DEF r, MovedBack
<1>2. CASE places # {}
  <2>1. places \subseteq Nat
    BY <1>0
  <2>2. first \in places
    BY <1>2, <2>1, LeastInSet
  <2>3. first \in 1 .. Len(q) /\ q[first].plan = p
    BY <1>0, <2>2
  <2>4. r = <<NewSchedule(p)>> \o RemoveAt(q, first)
    BY <1>2 DEF PutInFront
  <2>5. \A i \in 1 .. Len(q) : i # first => q[i].plan # p
    BY <1>0, <2>3
  <2> HIDE DEF first, r, places
  <2>6. /\ RemoveAt(q, first) \in Seq(Schedule)
        /\ Len(RemoveAt(q, first)) = Len(q) - 1
        /\ \A i \in 1 .. Len(q) - 1 : RemoveAt(q, first)[i] = IF i < first THEN q[i] ELSE q[i + 1]
    BY <2>3, RemoveAtFacts
  <2>7. /\ r \in Seq(Schedule) /\ Len(r) = Len(RemoveAt(q, first)) + 1
        /\ \A i \in 1 .. Len(RemoveAt(q, first)) + 1 :
              r[i] = IF i = 1 THEN NewSchedule(p) ELSE RemoveAt(q, first)[i - 1]
    <3> DEFINE t == RemoveAt(q, first)
               n == NewSchedule(p)
    <3>1. t \in Seq(Schedule) /\ n \in Schedule /\ r = <<n>> \o t
      BY <1>0, <2>4, <2>6
    <3> HIDE DEF t, n
    <3>2. /\ <<n>> \o t \in Seq(Schedule) /\ Len(<<n>> \o t) = Len(t) + 1
          /\ \A i \in 1 .. Len(t) + 1 : (<<n>> \o t)[i] = IF i = 1 THEN n ELSE t[i - 1]
      BY <3>1, InFrontFacts
    <3> QED
      BY <3>1, <3>2 DEF t, n
  <2>8. /\ Len(r) = Len(q) /\ Len(q) > 0 /\ r[1] = NewSchedule(p)
        /\ \A i \in 2 .. Len(q) : r[i] = RemoveAt(q, first)[i - 1]
    BY <1>0, <2>3, <2>6, <2>7
  <2>9. ASSUME NEW i \in 2 .. Len(r)
        PROVE  r[i] = IF i <= first THEN q[i - 1] ELSE q[i]
    <3>1. i - 1 \in 1 .. Len(q) - 1 /\ (i - 1 < first <=> i <= first) /\ i - 1 + 1 = i
      BY <1>0, <2>3, <2>8
    <3>2. RemoveAt(q, first)[i - 1] = IF i - 1 < first THEN q[i - 1] ELSE q[i - 1 + 1]
      BY <2>6, <3>1
    <3>3. r[i] = RemoveAt(q, first)[i - 1]
      BY <2>8
    <3> QED
      BY <3>1, <3>2, <3>3
  <2>10. /\ first \in 1 .. Len(q) + 1
         /\ Len(r) = IF first > Len(q) THEN Len(q) + 1 ELSE Len(q)
    <3>1. first \in Nat /\ 1 <= first /\ first <= Len(q)
      BY <1>0, <2>3
    <3>2. first \in 1 .. Len(q) + 1 /\ ~(first > Len(q))
      BY <1>0, <3>1
    <3> QED
      BY <2>8, <3>2
  <2>11. r \in Seq(Schedule) /\ Len(r) > 0 /\ r[1] = NewSchedule(p)
    BY <2>7, <2>8
  <2> QED
    <3>1. MovedBack(q, r, p, first)
      BY <1>0, <2>3, <2>5, <2>9, <2>10 DEF MovedBack
    <3> QED
      BY <2>10, <2>11, <3>1 DEF r
<1> QED
  BY <1>1, <1>2
-----------------------------------------------------------------------------
(* The inductive invariant.  The path task that executes is the first task *)
(* of the first schedule, so the owner of the search can only be behind    *)
(* schedules whose paths have not begun: what they begin makes them owners.*)

OwnerOnTop ==
    \A i, j \in DOMAIN queue :
        i < j /\ queue[j].plan = owner /\ queue[j].step > 0 => queue[i].step = 0

\* In workRoute, which the path task of the first schedule called.
Routing ==
    IF stage = "routing"
    THEN /\ called /\ ahead /\ queue # <<>>
         /\ Head(queue).step \in {0, 1}
         /\ Head(queue).plan = owner => Head(queue).goal = target /\ busy
         /\ Head(queue).step = 0 => Head(queue).plan = owner
    ELSE ~called

Shape == OneOfAKind /\ PlanAtBottom
-----------------------------------------------------------------------------
(* What a step does to the queue.                                          *)

\* The schedule s takes the place of the first, whose plan it carries on.
HeadBecomes(s) ==
    /\ queue # <<>> /\ s \in Schedule /\ s.plan = queue[1].plan
    /\ queue' = [queue EXCEPT ![1] = s]

HeadGoes == queue # <<>> /\ queue' = Tail(queue)

QueueStep ==
    \/ queue' = queue
    \/ queue' = <<>>
    \/ \E p \in Plans : queue' = <<NewSchedule(p)>>
    \/ \E p \in Interrupts : queue' = PutInFront(p, queue)
    \/ HeadGoes
    \/ \E s \in Schedule : HeadBecomes(s)

LEMMA CompleteTaskFacts ==
    ASSUME TypeOK, queue # <<>>, CompleteTask
    PROVE  HeadGoes \/ \E s \in Schedule : HeadBecomes(s) /\ s.step = 0
<1> DEFINE s == [queue[1] EXCEPT !.tasks = Tail(queue[1].tasks), !.step = 0, !.goal = NoWpt]
<1>1. queue[1] \in Schedule /\ Current = queue[1]
  BY QueueFacts DEF TypeOK, Current
<1>2. CASE Len(Current.tasks) = 1
  BY <1>2 DEF CompleteTask, HeadGoes
<1>3. CASE Len(Current.tasks) # 1
  <2>1. queue' = [queue EXCEPT ![1] = s]
    BY <1>1, <1>3 DEF CompleteTask
  <2>2. Tail(queue[1].tasks) \in Seq({"path", "act", "spot"}) \ {<<>>}
    <3>1. queue[1].tasks \in Seq({"path", "act", "spot"}) /\ queue[1].tasks # <<>>
      BY <1>1 DEF Schedule
    <3>2. /\ Tail(queue[1].tasks) \in Seq({"path", "act", "spot"})
          /\ Len(Tail(queue[1].tasks)) = Len(queue[1].tasks) - 1
      BY <3>1, HeadTailProperties
    <3>3. Len(queue[1].tasks) \in Nat /\ Len(Tail(queue[1].tasks)) # 0
      BY <1>1, <1>3, <3>1, <3>2, LenProperties
    <3>4. Tail(queue[1].tasks) # <<>>
      BY <3>2, <3>3, EmptySeq, Zenon
    <3> QED
      BY <3>2, <3>4
  <2>3. s \in Schedule /\ s.plan = queue[1].plan /\ s.step = 0
    <3> DEFINE t == Tail(queue[1].tasks)
    <3>1. t \in Seq({"path", "act", "spot"}) \ {<<>>}
      BY <2>2
    <3>2. s = [queue[1] EXCEPT !.tasks = t, !.step = 0, !.goal = NoWpt]
      OBVIOUS
    <3>3. t \in TaskLists /\ NoWpt \in Waypoints \cup {NoWpt}
      BY <3>1 DEF TaskLists
    <3>4. Schedule = [plan : Plans, tasks : TaskLists, step : 0 .. 2,
                      goal : Waypoints \cup {NoWpt}]
      BY DEF Schedule, TaskLists
    <3> HIDE DEF s, t
    <3>5. s = [plan |-> queue[1].plan, tasks |-> t, step |-> 0, goal |-> NoWpt]
      BY <1>1, <3>2, <3>4
    <3>6. queue[1].plan \in Plans
      BY <1>1, <3>4
    <3> QED
      BY <3>3, <3>4, <3>5, <3>6
  <2> QED
    BY <2>1, <2>3 DEF HeadBecomes
<1> QED
  BY <1>2, <1>3

LEMMA WithPathFacts ==
    ASSUME TypeOK, queue # <<>>, NEW n \in 0 .. 2, NEW g \in Waypoints \cup {NoWpt},
           WithPath(n, g)
    PROVE  \E s \in Schedule : HeadBecomes(s) /\ s.step = n /\ s.goal = g
<1> DEFINE s == [queue[1] EXCEPT !.step = n, !.goal = g]
<1>1. queue[1] \in Schedule
  BY QueueFacts DEF TypeOK
<1>2. s \in Schedule /\ s.plan = queue[1].plan /\ s.step = n /\ s.goal = g
  BY <1>1 DEF Schedule
<1>3. queue' = [queue EXCEPT ![1] = s]
  BY QueueFacts DEF WithPath, TypeOK, Current
<1> QED
  BY <1>2, <1>3 DEF HeadBecomes

LEMMA HeadBecomesFacts ==
    ASSUME TypeOK, NEW s, HeadBecomes(s)
    PROVE  /\ queue' \in Seq(Schedule) /\ queue' # <<>>
           /\ Len(queue') = Len(queue) /\ Head(queue') = s /\ queue'[1] = s
           /\ \A i \in 2 .. Len(queue) : queue'[i] = queue[i]
<1>1. queue \in Seq(Schedule) /\ queue # <<>> /\ s \in Schedule
  BY DEF TypeOK, HeadBecomes
<1>2. /\ queue' \in Seq(Schedule) /\ Len(queue') = Len(queue) /\ queue'[1] = s
      /\ \A i \in 2 .. Len(queue) : queue'[i] = queue[i]
  BY <1>1, HeadFacts DEF HeadBecomes
<1>3. queue' # <<>> /\ Head(queue') = queue'[1]
  BY <1>1, <1>2, QueueFacts
<1> QED
  BY <1>2, <1>3

LEMMA HeadGoesFacts ==
    ASSUME TypeOK, HeadGoes
    PROVE  /\ queue' \in Seq(Schedule) /\ Len(queue') = Len(queue) - 1
           /\ \A i \in 1 .. Len(queue) - 1 : queue'[i] = queue[i + 1]
  BY TailFacts DEF TypeOK, HeadGoes

LEMMA EachStep ==
    ASSUME TypeOK, Routing, [Next]_vars
    PROVE  QueueStep
<1>1. queue \in Seq(Schedule) /\ "noise" \in Interrupts /\ "hide" \in Interrupts
      /\ "order" \in Plans /\ "gravgun" \in Plans
  BY DEF TypeOK, Interrupts, Plans, TasksOf
<1>2. CompleteTask /\ queue # <<>> => QueueStep
  BY CompleteTaskFacts DEF QueueStep
<1>3. RemoveSchedule /\ queue # <<>> => QueueStep
  BY DEF RemoveSchedule, QueueStep, HeadGoes
<1>4. \A n \in 0 .. 2, g \in Waypoints \cup {NoWpt} :
          WithPath(n, g) /\ queue # <<>> => QueueStep
  BY WithPathFacts DEF QueueStep
<1>5. CASE UNCHANGED vars
  BY <1>5 DEF vars, mindVars, QueueStep
<1>6. CASE Event
  BY <1>1, <1>6 DEF Event, Hurt, Die, ForceGotoWaypoint, MindChanges, QueueStep
<1>7. CASE Hear
  BY <1>1, <1>7 DEF Hear, QueueStep
<1>8. CASE CheckStuck
  BY <1>1, <1>8 DEF CheckStuck, StuckOnObject, QueueStep
<1>9. CASE KeepTasks
  BY <1>9 DEF KeepTasks, QueueStep
<1>10. CASE GetTasks
  BY <1>10, PlansTyped DEF GetTasks, QueueStep
<1>11. CASE NothingToDo \/ HearNothing \/ Walk
  BY <1>11 DEF NothingToDo, HearNothing, Walk, QueueStep
<1>12. CASE EndEarly \/ Act \/ FindHideSpot \/ NowhereToGo \/ FollowRoute
  <2>1. queue # <<>>
    BY <1>12 DEF EndEarly, Act, FindHideSpot, NowhereToGo, FollowRoute, Executes
  <2>2. queue' = queue \/ CompleteTask \/ RemoveSchedule
    BY <1>12 DEF EndEarly, Act, FindHideSpot, NowhereToGo, FollowRoute
  <2> QED
    BY <1>2, <1>3, <2>1, <2>2 DEF QueueStep
<1>13. ASSUME NEW g \in Waypoints \cup {NoWpt}, BeginPath(g)
       PROVE  QueueStep
  BY <1>3, <1>4, <1>13 DEF BeginPath, Executes
<1>14. CASE ResumePath
  BY <1>3, <1>14 DEF ResumePath, Executes, QueueStep
<1>15. CASE RouteReturns
  <2>0. queue # <<>>
    BY <1>15 DEF RouteReturns, Routing
  <2>1. Current.goal \in Waypoints \cup {NoWpt}
    BY <1>1, <2>0, QueueFacts DEF Current, Schedule
  <2> QED
    BY <1>2, <1>3, <1>4, <1>15, <2>0, <2>1 DEF RouteReturns
<1> QED
  BY <1>5, <1>6, <1>7, <1>8, <1>9, <1>10, <1>11, <1>12, <1>13, <1>14, <1>15
     DEF Next, Frame, Execute

LEMMA TypedStep ==
    ASSUME TypeOK, OneOfAKind, Routing, [Next]_vars
    PROVE  TypeOK'
<1>1. (queue \in Seq(Schedule))'
  <2>1. QueueStep
    BY EachStep
  <2>2. queue \in Seq(Schedule) /\ Interrupts \subseteq Plans
    BY DEF TypeOK, Interrupts, Plans, TasksOf
  <2>3. ASSUME NEW p \in Interrupts
        PROVE  PutInFront(p, queue) \in Seq(Schedule)
    BY <2>2, PutInFrontFacts DEF OneOfAKind
  <2>4. \A p \in Plans : <<NewSchedule(p)>> \in Seq(Schedule)
    BY SingleFacts
  <2>5. <<>> \in Seq(Schedule)
    OBVIOUS
  <2>6. HeadGoes => queue' \in Seq(Schedule)
    BY HeadGoesFacts
  <2>7. \A s : HeadBecomes(s) => queue' \in Seq(Schedule)
    BY HeadBecomesFacts
  <2> QED
    BY <2>1, <2>2, <2>3, <2>4, <2>5, <2>6, <2>7 DEF QueueStep
<1>2. (stage \in {"stuck", "tasks", "execute", "routing", "listen", "walk"})'
  BY DEF TypeOK, Next, Event, Frame, Execute, Hurt, Hear, HearNothing, Die, ForceGotoWaypoint,
         MindChanges, CheckStuck, KeepTasks, GetTasks, NothingToDo, EndEarly, Act, FindHideSpot,
         BeginPath, ResumePath, RouteReturns, NowhereToGo, FollowRoute, Walk, vars, mindVars
<1>3. (util \in Utils \cup {NoUtil} /\ changed \in BOOLEAN)'
  BY DEF TypeOK, Next, Event, Frame, Execute, Hurt, Hear, HearNothing, Die, ForceGotoWaypoint,
         MindChanges, CheckStuck, KeepTasks, GetTasks, NothingToDo, EndEarly, Act, FindHideSpot,
         BeginPath, ResumePath, RouteReturns, NowhereToGo, FollowRoute, Walk, vars, mindVars
<1>4. (failNext \in BOOLEAN)'
  BY DEF TypeOK, Next, Event, Frame, Execute, Hurt, Hear, HearNothing, Die, ForceGotoWaypoint,
         MindChanges, CheckStuck, KeepTasks, GetTasks, NothingToDo, EndEarly, Act, FindHideSpot,
         BeginPath, ResumePath, RouteReturns, NowhereToGo, FollowRoute, Walk, vars, mindVars
<1>5. (owner \in Plans \cup {NoUtil})'
  <2>1. owner \in Plans \cup {NoUtil}
    BY DEF TypeOK
  <2>2. queue # <<>> => Current.plan \in Plans
    BY QueueFacts DEF TypeOK, Current, Schedule
  <2>3. owner' = owner \/ (queue # <<>> /\ owner' = Current.plan)
    BY DEF Next, Event, Frame, Execute, Hurt, Hear, HearNothing, Die, ForceGotoWaypoint,
           MindChanges, CheckStuck, KeepTasks, GetTasks, NothingToDo, EndEarly, Act,
           FindHideSpot, BeginPath, ResumePath, RouteReturns, NowhereToGo, FollowRoute, Walk,
           Executes, vars, mindVars
  <2> QED
    BY <2>1, <2>2, <2>3
<1>6. ( /\ {called, busy, ahead, leads} \subseteq BOOLEAN
        /\ {target, last} \subseteq Waypoints \cup {NoWpt}
        /\ answer \in {"none", "pending", "found", "failed"} )'
  <2> DEFINE Touched == \E w \in Waypoints : PortTouch(w)
             Begun   == \E g \in Waypoints \cup {NoWpt} : PortBegin(g) \/ PortRefuse(g)
  <2>1. \/ UNCHANGED portVars \/ Touched \/ Begun
        \/ PortResume \/ PortGiveUp \/ PortPending \/ PortFound \/ PortFailed \/ PortCycle
    BY DEF Next, Event, Frame, Execute, Hurt, Hear, HearNothing, Die, ForceGotoWaypoint,
           MindChanges, CheckStuck, KeepTasks, GetTasks, NothingToDo, EndEarly, Act,
           FindHideSpot, BeginPath, ResumePath, RouteReturns, NowhereToGo, FollowRoute, Walk,
           vars, mindVars
  <2>2. CASE UNCHANGED portVars
    BY <2>2 DEF TypeOK, portVars
  <2>3. CASE Touched
    BY <2>3 DEF TypeOK, PortTouch
  <2>4. CASE Begun
    BY <2>4 DEF TypeOK, PortBegin, PortRefuse
  <2>5. CASE PortResume \/ PortGiveUp
    BY <2>5 DEF TypeOK, PortResume, PortGiveUp
  <2>6. CASE PortPending \/ PortFound \/ PortFailed \/ PortCycle
    BY <2>6 DEF TypeOK, PortPending, PortFound, PortFailed, PortCycle, PortReturn
  <2> QED
    BY <2>1, <2>2, <2>3, <2>4, <2>5, <2>6
<1> QED
  BY <1>1, <1>2, <1>3, <1>4, <1>5, <1>6 DEF TypeOK

LEMMA ShapeStep ==
    ASSUME TypeOK, Shape, Routing, [Next]_vars
    PROVE  Shape'
<1> USE DEF Shape, OneOfAKind, PlanAtBottom
<1>0. /\ queue \in Seq(Schedule) /\ Len(queue) \in Nat /\ DOMAIN queue = 1 .. Len(queue)
      /\ queue' \in Seq(Schedule) /\ Len(queue') \in Nat /\ DOMAIN queue' = 1 .. Len(queue')
  <2>1. queue \in Seq(Schedule) /\ queue' \in Seq(Schedule)
    BY TypedStep DEF TypeOK
  <2> QED
    BY <2>1, QueueFacts
<1>1. QueueStep
  BY EachStep
<1>2. CASE queue' = queue
  BY <1>2
<1>3. CASE queue' = <<>>
  BY <1>3
<1>4. ASSUME NEW p \in Plans, queue' = <<NewSchedule(p)>>
      PROVE  Shape'
  BY <1>4, SingleFacts
<1>5. ASSUME NEW p \in Interrupts, queue' = PutInFront(p, queue)
      PROVE  Shape'
  <2>1. p \in Plans
    BY <1>5 DEF Interrupts, Plans, TasksOf
  <2>2. PICK f \in 1 .. Len(queue) + 1 : MovedBack(queue, queue', p, f)
    <3>1. \A i, j \in DOMAIN queue : queue[i].plan = queue[j].plan => i = j
      OBVIOUS
    <3> HIDE DEF Shape, OneOfAKind, PlanAtBottom
    <3> QED
      BY <1>0, <1>5, <2>1, <3>1, PutInFrontFacts, Zenon
  <2>3. queue'[1].plan = p /\ Len(queue') > 0
    <3>1. \A i, j \in DOMAIN queue : queue[i].plan = queue[j].plan => i = j
      OBVIOUS
    <3> HIDE DEF Shape, OneOfAKind, PlanAtBottom
    <3>2. queue'[1] = NewSchedule(p) /\ Len(queue') > 0
      BY <1>0, <1>5, <2>1, <3>1, PutInFrontFacts, Zenon
    <3> QED
      BY <2>1, <3>2, NewScheduleTyped
  <2> DEFINE from(i) == IF i <= f THEN i - 1 ELSE i
  <2>4. ASSUME NEW i \in 2 .. Len(queue')
        PROVE  /\ from(i) \in 1 .. Len(queue) /\ from(i) # f
               /\ queue'[i] = queue[from(i)] /\ queue'[i].plan # p
    <3>1. from(i) \in 1 .. Len(queue) /\ from(i) # f
      BY <1>0, <2>2 DEF MovedBack
    <3>2. queue'[i] = queue[from(i)]
      BY <2>2 DEF MovedBack
    <3> QED
      BY <2>2, <3>1, <3>2 DEF MovedBack
  <2>5. ASSUME NEW i \in DOMAIN queue', NEW j \in DOMAIN queue', queue'[i].plan = queue'[j].plan
        PROVE  i = j
    <3>1. CASE i = 1 \/ j = 1
      BY <1>0, <2>3, <2>4, <2>5, <3>1
    <3>2. CASE i # 1 /\ j # 1
      <4>1. i \in 2 .. Len(queue') /\ j \in 2 .. Len(queue')
        BY <1>0, <3>2
      <4>2. /\ from(i) \in 1 .. Len(queue) /\ from(j) \in 1 .. Len(queue)
            /\ queue'[i] = queue[from(i)] /\ queue'[j] = queue[from(j)]
            /\ from(i) # f /\ from(j) # f
        BY <2>4, <4>1
      <4>3. from(i) = from(j)
        <5> HIDE DEF from
        <5>1. queue[from(i)].plan = queue[from(j)].plan
          BY <2>5, <4>2
        <5>2. from(i) \in DOMAIN queue /\ from(j) \in DOMAIN queue
          BY <1>0, <4>2
        <5>3. \A k, l \in DOMAIN queue : queue[k].plan = queue[l].plan => k = l
          OBVIOUS
        <5> HIDE DEF Shape, OneOfAKind, PlanAtBottom
        <5> QED
          BY <5>1, <5>2, <5>3, Zenon
      <4> QED
        BY <1>0, <4>1, <4>2, <4>3
    <3> QED
      BY <3>1, <3>2
  <2>6. ASSUME NEW i \in DOMAIN queue', queue'[i].plan \notin Interrupts
        PROVE  i = Len(queue')
    <3>1. i \in 2 .. Len(queue')
      BY <1>0, <2>3, <2>6
    <3>2. from(i) = Len(queue) /\ from(i) # f
      BY <1>0, <2>4, <2>6, <3>1
    <3> QED
      BY <1>0, <2>2, <3>1, <3>2 DEF MovedBack
  <2> QED
    BY <2>5, <2>6
<1>6. CASE HeadGoes
  <2>1. /\ Len(queue') = Len(queue) - 1
        /\ \A i \in 1 .. Len(queue) - 1 : queue'[i] = queue[i + 1]
    BY <1>6, HeadGoesFacts
  <2>2. \A i \in DOMAIN queue' : i + 1 \in DOMAIN queue /\ queue'[i] = queue[i + 1]
    BY <1>0, <2>1
  <2> QED
    BY <1>0, <2>1, <2>2
<1>7. ASSUME NEW s \in Schedule, HeadBecomes(s)
      PROVE  Shape'
  <2>1. /\ Len(queue') = Len(queue) /\ queue'[1].plan = queue[1].plan
        /\ \A i \in 2 .. Len(queue) : queue'[i] = queue[i]
    BY <1>7, HeadBecomesFacts DEF HeadBecomes
  <2>2. \A i \in DOMAIN queue' : i \in DOMAIN queue /\ queue'[i].plan = queue[i].plan
    BY <1>0, <2>1
  <2> QED
    BY <1>0, <2>1, <2>2
<1> QED
  BY <1>1, <1>2, <1>3, <1>4, <1>5, <1>6, <1>7 DEF QueueStep
-----------------------------------------------------------------------------
(* Whose route it is.                                                      *)

\* The schedules whose path has begun are as before, in the same order.
Kept ==
    /\ \A i \in DOMAIN queue' : queue'[i].step > 0 => \E k \in DOMAIN queue : queue[k] = queue'[i]
    /\ \A i, j \in DOMAIN queue' :
          i < j /\ queue'[i].step > 0 /\ queue'[j].step > 0 =>
             \E k, l \in DOMAIN queue : k < l /\ queue[k] = queue'[i] /\ queue[l] = queue'[j]


LEMMA QuietKeeps ==
    ASSUME TypeOK, Shape, Routing, [Next]_vars,
           \/ queue' = queue
           \/ queue' = <<>>
           \/ \E p \in Plans : queue' = <<NewSchedule(p)>>
           \/ \E p \in Interrupts : queue' = PutInFront(p, queue)
           \/ HeadGoes
           \/ \E s \in Schedule : HeadBecomes(s) /\ s.step = 0
    PROVE  Kept
<1>0. /\ queue \in Seq(Schedule) /\ Len(queue) \in Nat /\ DOMAIN queue = 1 .. Len(queue)
      /\ queue' \in Seq(Schedule) /\ Len(queue') \in Nat /\ DOMAIN queue' = 1 .. Len(queue')
  <2>1. queue \in Seq(Schedule) /\ queue' \in Seq(Schedule)
    BY TypedStep DEF TypeOK, Shape
  <2> QED
    BY <2>1, QueueFacts
<1>2. CASE queue' = queue \/ queue' = <<>>
  BY <1>2 DEF Kept
<1>4. ASSUME NEW p \in Plans, queue' = <<NewSchedule(p)>>
      PROVE  Kept
  BY <1>0, <1>4, SingleFacts, NewScheduleTyped DEF Kept
<1>5. ASSUME NEW p \in Interrupts, queue' = PutInFront(p, queue)
      PROVE  Kept
  <2>1. p \in Plans
    BY <1>5 DEF Interrupts, Plans, TasksOf
  <2>2. \A i, j \in DOMAIN queue : queue[i].plan = queue[j].plan => i = j
    BY DEF Shape, OneOfAKind
  <2>3. PICK f \in 1 .. Len(queue) + 1 : MovedBack(queue, queue', p, f)
    BY <1>0, <1>5, <2>1, <2>2, PutInFrontFacts, Zenon
  <2>4. queue'[1].step = 0
    <3>1. queue'[1] = NewSchedule(p)
      BY <1>0, <1>5, <2>1, <2>2, PutInFrontFacts, Zenon
    <3> QED
      BY <2>1, <3>1, NewScheduleTyped
  <2> DEFINE from(i) == IF i <= f THEN i - 1 ELSE i
  <2>5. ASSUME NEW i \in DOMAIN queue', queue'[i].step > 0
        PROVE  i \in 2 .. Len(queue') /\ from(i) \in DOMAIN queue /\ queue[from(i)] = queue'[i]
    <3>1. i \in 2 .. Len(queue')
      BY <1>0, <2>4, <2>5
    <3>2. from(i) \in DOMAIN queue
      BY <1>0, <2>3, <3>1 DEF MovedBack
    <3>3. queue[from(i)] = queue'[i]
      BY <2>3, <3>1 DEF MovedBack
    <3> QED
      BY <3>1, <3>2, <3>3
  <2>6. ASSUME NEW i \in 2 .. Len(queue'), NEW j \in 2 .. Len(queue'), i < j
        PROVE  from(i) < from(j)
    BY <1>0, <2>6
  <2> HIDE DEF from
  <2> QED
    BY <1>0, <2>5, <2>6 DEF Kept
<1>6. CASE HeadGoes
  <2>1. /\ Len(queue') = Len(queue) - 1
        /\ \A i \in 1 .. Len(queue) - 1 : queue'[i] = queue[i + 1]
    BY <1>6, HeadGoesFacts
  <2>2. \A i \in DOMAIN queue' : i + 1 \in DOMAIN queue /\ queue[i + 1] = queue'[i]
    BY <1>0, <2>1
  <2>3. \A i, j \in DOMAIN queue' : i < j => i + 1 < j + 1
    BY <1>0
  <2> QED
    BY <2>2, <2>3 DEF Kept
<1>7. ASSUME NEW s \in Schedule, HeadBecomes(s), s.step = 0
      PROVE  Kept
  <2>1. /\ Len(queue') = Len(queue) /\ queue'[1].step = 0
        /\ \A i \in 2 .. Len(queue) : queue'[i] = queue[i]
    BY <1>7, HeadBecomesFacts
  <2>2. \A i \in DOMAIN queue' :
           queue'[i].step > 0 => i \in DOMAIN queue /\ queue[i] = queue'[i]
    BY <1>0, <2>1
  <2> QED
    BY <2>2 DEF Kept
<1> QED
  BY <1>2, <1>4, <1>5, <1>6, <1>7

Own == OwnRoute /\ OwnerOnTop

LEMMA KeptOwn ==
    ASSUME TypeOK, TypeOK', Own, Kept,
           UNCHANGED <<busy, target, ahead, leads, last, owner>>
    PROVE  Own'
<1>1. \A i \in DOMAIN queue' : queue'[i].step \in 0 .. 2
  BY QueueFacts DEF TypeOK, Schedule
<1>2. OwnRoute'
  BY DEF Own, OwnRoute, Kept
<1>3. OwnerOnTop'
  <2>1. SUFFICES ASSUME NEW i \in DOMAIN queue', NEW j \in DOMAIN queue',
                        i < j, queue'[j].plan = owner, queue'[j].step > 0, queue'[i].step > 0
                 PROVE  FALSE
    BY <1>1 DEF OwnerOnTop
  <2>2. PICK k \in DOMAIN queue, l \in DOMAIN queue :
           k < l /\ queue[k] = queue'[i] /\ queue[l] = queue'[j]
    BY <2>1 DEF Kept
  <2> QED
    BY <2>1, <2>2 DEF Own, OwnerOnTop
<1> QED
  BY <1>2, <1>3 DEF Own

\* No schedule behind the first follows a route of the plan o.
NoneBehind(o) ==
    \A i \in 2 .. Len(queue) : queue[i].plan = o => queue[i].step = 0

\* What OwnRoute says of the schedule s.
Follows(s) ==
    /\ s.goal = target
    /\ s.step = 1 => busy /\ ahead
    /\ s.step = 2 => ~busy /\ IF ahead THEN leads ELSE last = target

LEMMA HeadOwns ==
    ASSUME TypeOK, TypeOK', NoneBehind(owner'),
           \/ HeadGoes
           \/ \E s \in Schedule :
                 HeadBecomes(s) /\ (s.plan = owner' /\ s.step > 0 => Follows(s)')
    PROVE  Own'
<1>0. /\ Len(queue) \in Nat /\ DOMAIN queue' = 1 .. Len(queue') /\ Len(queue') \in Nat
      /\ \A i \in 1 .. Len(queue) : queue[i].step \in 0 .. 2
      /\ \A i \in 1 .. Len(queue') : queue'[i].step \in 0 .. 2
  BY QueueFacts DEF TypeOK, Schedule
<1>1. CASE HeadGoes
  <2>1. /\ Len(queue') = Len(queue) - 1
        /\ \A i \in 1 .. Len(queue) - 1 : queue'[i] = queue[i + 1]
    BY <1>1, HeadGoesFacts
  <2>2. \A i \in DOMAIN queue' : queue'[i].plan = owner' => queue'[i].step = 0
    <3>1. \A i \in DOMAIN queue' : i + 1 \in 2 .. Len(queue) /\ queue'[i] = queue[i + 1]
      BY <1>0, <2>1
    <3> QED
      BY <3>1 DEF NoneBehind
  <2> QED
    BY <2>2 DEF Own, OwnRoute, OwnerOnTop
<1>2. ASSUME NEW s \in Schedule, HeadBecomes(s), s.plan = owner' /\ s.step > 0 => Follows(s)'
      PROVE  Own'
  <2>1. /\ Len(queue') = Len(queue) /\ queue'[1] = s
        /\ \A i \in 2 .. Len(queue) : queue'[i] = queue[i]
    BY <1>2, HeadBecomesFacts
  <2>2. \A i \in DOMAIN queue' : queue'[i].plan = owner' /\ queue'[i].step > 0 => i = 1
    <3>1. \A i \in DOMAIN queue' : i # 1 => i \in 2 .. Len(queue) /\ queue'[i] = queue[i]
      BY <1>0, <2>1
    <3> QED
      BY <3>1 DEF NoneBehind
  <2>3. OwnRoute'
    BY <1>2, <2>1, <2>2 DEF OwnRoute, Follows
  <2>4. OwnerOnTop'
    BY <1>0, <2>2 DEF OwnerOnTop
  <2> QED
    BY <2>3, <2>4 DEF Own
<1> QED
  BY <1>1, <1>2

LEMMA OwnStep ==
    ASSUME TypeOK, Shape, Own, Routing, [Next]_vars
    PROVE  Own'
<1>0. TypeOK' /\ Len(queue) \in Nat /\ DOMAIN queue = 1 .. Len(queue)
  BY TypedStep, QueueFacts DEF Shape, TypeOK
<1>a. ASSUME NEW i \in 2 .. Len(queue), queue[i].step # 0
      PROVE  i \in DOMAIN queue /\ 1 \in DOMAIN queue /\ 1 < i /\ queue[i].step > 0
  <2>1. i \in 1 .. Len(queue) /\ 1 \in 1 .. Len(queue) /\ 1 < i
    BY <1>0
  <2>2. queue[i].step \in 0 .. 2
    BY <2>1, QueueFacts DEF TypeOK, Schedule
  <2> QED
    BY <1>0, <1>a, <2>1, <2>2
<1> DEFINE Still == UNCHANGED <<busy, target, ahead, leads, last, owner>>
<1>1. CASE UNCHANGED vars
  BY <1>0, <1>1, QuietKeeps, KeptOwn DEF vars, portVars, mindVars
<1>2. CASE Event \/ Hear \/ CheckStuck \/ KeepTasks \/ GetTasks \/ NothingToDo \/ HearNothing
  <2>1. Still
    BY <1>2 DEF Event, Hurt, Die, ForceGotoWaypoint, MindChanges, Hear, CheckStuck, KeepTasks,
                GetTasks, NothingToDo, HearNothing, portVars
  <2>2. \/ queue' = queue
        \/ queue' = <<>>
        \/ \E p \in Plans : queue' = <<NewSchedule(p)>>
        \/ \E p \in Interrupts : queue' = PutInFront(p, queue)
    <3>1. "noise" \in Interrupts /\ "hide" \in Interrupts /\ "order" \in Plans
          /\ "gravgun" \in Plans
      BY DEF Interrupts, Plans, TasksOf
    <3> QED
      BY <1>2, <3>1, PlansTyped DEF Event, Hurt, Die, ForceGotoWaypoint, MindChanges, Hear,
                CheckStuck, StuckOnObject, KeepTasks, GetTasks, NothingToDo, HearNothing
  <2> QED
    BY <1>0, <2>1, <2>2, QuietKeeps, KeptOwn
<1>3. CASE EndEarly \/ Act \/ FindHideSpot \/ NowhereToGo \/ FollowRoute
  <2>1. Still
    BY <1>3 DEF EndEarly, Act, FindHideSpot, NowhereToGo, FollowRoute, portVars
  <2>2. queue # <<>>
    BY <1>3 DEF EndEarly, Act, FindHideSpot, NowhereToGo, FollowRoute, Executes
  <2>3. queue' = queue \/ CompleteTask \/ RemoveSchedule
    BY <1>3 DEF EndEarly, Act, FindHideSpot, NowhereToGo, FollowRoute
  <2>4. queue' = queue \/ HeadGoes \/ \E s \in Schedule : HeadBecomes(s) /\ s.step = 0
    <3>1. CompleteTask => HeadGoes \/ \E s \in Schedule : HeadBecomes(s) /\ s.step = 0
      BY <2>2, CompleteTaskFacts
    <3>2. RemoveSchedule => HeadGoes
      BY <2>2 DEF RemoveSchedule, HeadGoes
    <3> QED
      BY <2>3, <3>1, <3>2
  <2> QED
    BY <1>0, <2>1, <2>4, QuietKeeps, KeptOwn
<1>4. ASSUME NEW g \in Waypoints \cup {NoWpt}, BeginPath(g)
      PROVE  Own'
  <2>1. queue # <<>> /\ Current = queue[1] /\ owner' = queue[1].plan
    BY <1>4, QueueFacts DEF BeginPath, Executes, Current, TypeOK
  <2>2. NoneBehind(owner')
    BY <1>0, <2>1 DEF NoneBehind, Shape, OneOfAKind
  <2>3. HeadGoes \/ \E s \in Schedule : HeadBecomes(s) /\ s.step = 0
    <3>1. WithPath(0, g) => \E s \in Schedule : HeadBecomes(s) /\ s.step = 0
      BY <2>1, WithPathFacts
    <3>2. RemoveSchedule => HeadGoes
      BY <2>1 DEF RemoveSchedule, HeadGoes
    <3> QED
      BY <1>4, <3>1, <3>2 DEF BeginPath
  <2> QED
    BY <1>0, <2>2, <2>3, HeadOwns
<1>5. CASE ResumePath
  <2>1. queue # <<>> /\ queue[1].step = 1 /\ owner' = owner
    BY <1>5, QueueFacts DEF ResumePath, Executes, Current, TypeOK
  <2>2. CASE PortResume /\ queue' = queue
    <3>1. Still /\ Kept
      BY <1>0, <2>1, <2>2, QuietKeeps DEF PortResume
    <3> QED
      BY <1>0, <3>1, KeptOwn
  <2>3. CASE RemoveSchedule
    <3>1. NoneBehind(owner)
      BY <1>a, <2>1 DEF NoneBehind, Own, OwnerOnTop
    <3>2. HeadGoes
      BY <2>1, <2>3 DEF RemoveSchedule, HeadGoes
    <3> QED
      BY <1>0, <2>1, <3>1, <3>2, HeadOwns
  <2> QED
    BY <1>5, <2>2, <2>3 DEF ResumePath
<1>6. CASE RouteReturns
  <2>1. /\ queue # <<>> /\ Current = queue[1] /\ owner' = owner /\ target' = target
        /\ ahead' = ahead /\ ahead
        /\ queue[1].step \in {0, 1}
        /\ queue[1].plan = owner => queue[1].goal = target /\ busy
        /\ queue[1].step = 0 => queue[1].plan = owner
        /\ queue[1].goal \in Waypoints \cup {NoWpt}
    <3>1. queue # <<>> /\ Current = queue[1] /\ Head(queue) = queue[1] /\ queue[1] \in Schedule
      BY <1>6, QueueFacts DEF RouteReturns, Routing, Current, TypeOK
    <3>2. owner' = owner /\ target' = target /\ ahead' = ahead
      BY <1>6 DEF RouteReturns, PortPending, PortFound, PortFailed, PortCycle, PortReturn
    <3> QED
      BY <1>6, <3>1, <3>2 DEF RouteReturns, Routing, Schedule
  <2>2. NoneBehind(owner)
    <3>1. ASSUME NEW i \in 2 .. Len(queue), queue[i].plan = owner, queue[i].step # 0
          PROVE  FALSE
      <4>1. queue[i].step > 0 /\ i \in DOMAIN queue /\ 1 \in DOMAIN queue /\ 1 < i
        BY <1>a, <3>1
      <4>2. queue[1].step = 0
        BY <3>1, <4>1 DEF Own, OwnerOnTop
      <4>3. queue[1].plan = queue[i].plan
        BY <2>1, <3>1, <4>2
      <4> QED
        BY <4>1, <4>3 DEF Shape, OneOfAKind
    <3> QED
      BY <3>1 DEF NoneBehind
  <2>3. CASE PortPending /\ WithPath(1, Current.goal)
    <3>1. PICK s \in Schedule : HeadBecomes(s) /\ s.step = 1 /\ s.goal = queue[1].goal
      BY <2>1, <2>3, WithPathFacts
    <3>2. s.plan = owner' => Follows(s)'
      BY <2>1, <2>3, <3>1 DEF Follows, HeadBecomes, PortPending
    <3> QED
      BY <1>0, <2>1, <2>2, <3>1, <3>2, HeadOwns
  <2>4. CASE PortFound /\ WithPath(2, Current.goal)
    <3>1. PICK s \in Schedule : HeadBecomes(s) /\ s.step = 2 /\ s.goal = queue[1].goal
      BY <2>1, <2>4, WithPathFacts
    <3>2. s.plan = owner' => Follows(s)'
      BY <2>1, <2>4, <3>1 DEF Follows, HeadBecomes, PortFound
    <3> QED
      BY <1>0, <2>1, <2>2, <3>1, <3>2, HeadOwns
  <2>5. CASE CompleteTask \/ RemoveSchedule
    <3>1. HeadGoes \/ \E s \in Schedule : HeadBecomes(s) /\ s.step = 0
      <4>1. CompleteTask => HeadGoes \/ \E s \in Schedule : HeadBecomes(s) /\ s.step = 0
        BY <2>1, CompleteTaskFacts
      <4>2. RemoveSchedule => HeadGoes
        BY <2>1 DEF RemoveSchedule, HeadGoes
      <4> QED
        BY <2>5, <4>1, <4>2
    <3> QED
      BY <1>0, <2>1, <2>2, <3>1, HeadOwns
  <2> QED
    BY <1>6, <2>3, <2>4, <2>5 DEF RouteReturns
<1>7. CASE Walk
  <2>1. queue' = queue /\ owner' = owner
    BY <1>7 DEF Walk
  <2>2. CASE UNCHANGED portVars
    <3>1. Still /\ Kept
      BY <1>0, <2>1, <2>2, QuietKeeps DEF portVars
    <3> QED
      BY <1>0, <3>1, KeptOwn
  <2>3. ASSUME NEW w \in Waypoints, PortTouch(w)
        PROVE  Own'
    <3>1. OwnerOnTop'
      BY <2>1 DEF Own, OwnerOnTop
    <3>2. OwnRoute'
      <4>1. SUFFICES ASSUME NEW i \in DOMAIN queue, queue[i].plan = owner, queue[i].step > 0
                     PROVE  Follows(queue[i])'
        BY <2>1 DEF OwnRoute, Follows
      <4>2. Follows(queue[i])
        BY <4>1 DEF Own, OwnRoute, Follows
      <4> QED
        BY <2>1, <2>3, <4>2 DEF Follows, PortTouch
    <3> QED
      BY <3>1, <3>2 DEF Own
  <2> QED
    BY <1>7, <2>2, <2>3 DEF Walk
<1> QED
  BY <1>1, <1>2, <1>3, <1>4, <1>5, <1>6, <1>7 DEF Next, Frame, Execute

LEMMA RoutingStep ==
    ASSUME TypeOK, Shape, Own, Routing, [Next]_vars
    PROVE  Routing'
<1>0. TypeOK' /\ \A i \in DOMAIN queue : queue[i].step \in 0 .. 2
  BY TypedStep, QueueFacts DEF Shape, TypeOK, Schedule
<1>1. CASE UNCHANGED vars
  BY <1>1 DEF vars, portVars, mindVars, Routing
<1>2. CASE Event \/ Hear \/ CheckStuck \/ KeepTasks \/ GetTasks \/ NothingToDo \/ HearNothing
  <2>1. called' = called /\ stage # "routing" /\ stage' # "routing"
    BY <1>2 DEF Event, Hurt, Die, ForceGotoWaypoint, MindChanges, Hear, CheckStuck, KeepTasks,
                GetTasks, NothingToDo, HearNothing, portVars
  <2> QED
    BY <2>1 DEF Routing
<1>3. CASE EndEarly \/ Act \/ FindHideSpot \/ NowhereToGo \/ FollowRoute \/ Walk
  <2>1. called' = called /\ stage # "routing" /\ stage' # "routing"
    BY <1>3 DEF EndEarly, Act, FindHideSpot, NowhereToGo, FollowRoute, Walk, Executes, PortTouch,
                portVars
  <2> QED
    BY <2>1 DEF Routing
<1>4. ASSUME NEW g \in Waypoints \cup {NoWpt}, BeginPath(g)
      PROVE  Routing'
  <2>1. /\ queue # <<>> /\ Current = queue[1] /\ owner' = queue[1].plan /\ ~called
    BY <1>4, QueueFacts DEF BeginPath, Executes, Current, TypeOK, Routing
  <2>2. CASE PortBegin(g) /\ WithPath(0, g) /\ stage' = "routing"
    <3>1. PICK s \in Schedule : HeadBecomes(s) /\ s.step = 0 /\ s.goal = g
      BY <2>1, <2>2, WithPathFacts
    <3>2. queue' # <<>> /\ Head(queue') = s /\ s.plan = owner'
      BY <2>1, <3>1, HeadBecomesFacts DEF HeadBecomes
    <3> QED
      BY <2>2, <3>1, <3>2 DEF Routing, PortBegin
  <2>3. CASE PortRefuse(g) /\ stage' = "listen"
    BY <2>1, <2>3 DEF Routing, PortRefuse
  <2> QED
    BY <1>4, <2>2, <2>3 DEF BeginPath
<1>5. CASE ResumePath
  <2>1. /\ queue # <<>> /\ Head(queue) = queue[1] /\ queue[1].step = 1 /\ owner' = owner /\ ~called
        /\ 1 \in DOMAIN queue
    BY <1>5, QueueFacts DEF ResumePath, Executes, Current, TypeOK, Routing
  <2>2. CASE PortResume /\ queue' = queue /\ stage' = "routing"
    <3>1. queue[1].plan = owner => queue[1].goal = target /\ busy
      BY <2>1 DEF Own, OwnRoute
    <3> QED
      BY <2>1, <2>2, <3>1 DEF Routing, PortResume
  <2>3. CASE PortGiveUp /\ stage' = "listen"
    BY <2>1, <2>3 DEF Routing, PortGiveUp
  <2> QED
    BY <1>5, <2>2, <2>3 DEF ResumePath
<1>6. CASE RouteReturns
  BY <1>6 DEF RouteReturns, Routing, PortPending, PortFound, PortFailed, PortCycle, PortReturn
<1> QED
  BY <1>1, <1>2, <1>3, <1>4, <1>5, <1>6 DEF Next, Frame, Execute

Inv == TypeOK /\ Shape /\ Own /\ Routing

LEMMA Invariant == Spec => []Inv
<1>1. Init => Inv
  <2>1. SUFFICES ASSUME Init
                 PROVE  Inv
    OBVIOUS
  <2>2. queue = <<>> /\ queue \in Seq(Schedule) /\ DOMAIN queue = {}
    BY <2>1 DEF Init
  <2>3. TypeOK
    BY <2>1, <2>2 DEF Init, PortInit, TypeOK
  <2>4. Shape /\ Own
    BY <2>2 DEF Shape, OneOfAKind, PlanAtBottom, Own, OwnRoute, OwnerOnTop
  <2>5. Routing
    BY <2>1 DEF Init, PortInit, Routing
  <2> QED
    BY <2>3, <2>4, <2>5 DEF Inv
<1>2. Inv /\ [Next]_vars => Inv'
  BY TypedStep, ShapeStep, OwnStep, RoutingStep DEF Inv, Shape
<1> QED
  BY <1>1, <1>2, PTL DEF Spec

(* However the bot is hurt, killed, ordered about and distracted, its      *)
(* schedules are well formed: none is without a task, and every path task  *)
(* is before, in or after a search for a waypoint of the map               *)
(* (CBotSchedules, bot_schedule.h).                                        *)
THEOREM MindTyped == Spec => []TypeOK
  BY Invariant, PTL DEF Inv

(* removeSchedule before addFront leaves one schedule of each kind: the    *)
(* queue does not grow with the number of shots (bot.cpp, hurt and         *)
(* listenForPlayers).                                                      *)
THEOREM OneSchedulePerKind == Spec => []OneOfAKind
  BY Invariant, PTL DEF Inv, Shape

(* The reactions of a bot stay in front of its plan, which is the last of  *)
(* its schedules and the only plan (CHLDMBot::getTasks).                   *)
THEOREM PlanIsLast == Spec => []PlanAtBottom
  BY Invariant, PTL DEF Inv, Shape

(* The path task that began the last search has the navigator to itself,   *)
(* whatever schedules came and went in front of it (CFindPathTask and      *)
(* CWaypointNavigator::workRoute).                                         *)
THEOREM RouteOfItsOwn == Spec => []OwnRoute
  BY Invariant, PTL DEF Inv, Own
-----------------------------------------------------------------------------
(* What the path tasks make of the navigator.                              *)

\* A path task whose search was the last one to be begun.
OwnersReachGoal == [][NowhereToGo /\ Head(queue).plan = owner => last = Head(queue).goal]_vars

(* ReachedGoal (bot_task.cpp:2136) does hold of the task that began the    *)
(* last search, whatever interrupted it: if there is nowhere to go, it is  *)
(* because the bot touched its goal.  Only a task whose navigator another  *)
(* one has used can be mistaken.                                           *)
THEOREM OwnersAreRight == Spec => OwnersReachGoal
<1> DEFINE Right == NowhereToGo /\ Head(queue).plan = owner => last = Head(queue).goal
<1>1. Inv => Right
  <2>1. SUFFICES ASSUME Inv, NowhereToGo, Head(queue).plan = owner
                 PROVE  last = Head(queue).goal
    OBVIOUS
  <2>2. queue # <<>> /\ Current = Head(queue) /\ Current.step = 2 /\ ~ahead
    BY <2>1 DEF NowhereToGo, Executes, Current
  <2>3. 1 \in DOMAIN queue /\ Head(queue) = queue[1]
    BY <2>1, <2>2, QueueFacts DEF Inv, TypeOK
  <2> QED
    BY <2>1, <2>2, <2>3 DEF Inv, Own, OwnRoute
<1>2. [Next]_vars /\ Inv => [Right]_vars
  BY <1>1
<1> QED
  BY <1>2, Invariant, PTL DEF Spec, OwnersReachGoal

(* The other half of the composition with the navigator: all that a bot    *)
(* does with it are calls and walks of RoutePort, so that PortSpec, which  *)
(* NavigatorProofs shows of the search for any order of calls, says all    *)
(* that BotMind assumes of it.                                             *)
THEOREM BotUsesPort == Spec => PortSpec
<1>1. Init => PortInit
  BY DEF Init
<1>2. [Next]_vars => [PortNext]_portVars
  <2>1. SUFFICES ASSUME [Next]_vars PROVE [PortNext]_portVars
    OBVIOUS
  <2>2. CASE UNCHANGED vars \/ Event \/ Hear \/ CheckStuck \/ KeepTasks \/ GetTasks \/ HearNothing
    BY <2>2 DEF vars, Event, Hurt, Die, ForceGotoWaypoint, MindChanges, Hear, CheckStuck,
                KeepTasks, GetTasks, HearNothing
  <2>3. CASE NothingToDo \/ EndEarly \/ Act \/ FindHideSpot \/ NowhereToGo \/ FollowRoute
    BY <2>3 DEF NothingToDo, EndEarly, Act, FindHideSpot, NowhereToGo, FollowRoute
  <2>4. ASSUME NEW g \in Waypoints \cup {NoWpt}, BeginPath(g) PROVE PortNext
    BY <2>4 DEF BeginPath, PortNext
  <2>5. CASE ResumePath \/ RouteReturns
    BY <2>5 DEF ResumePath, RouteReturns, PortNext
  <2>6. CASE Walk
    BY <2>6 DEF Walk, PortNext
  <2> QED
    BY <2>1, <2>2, <2>3, <2>4, <2>5, <2>6 DEF Next, Frame, Execute
<1> QED
  BY <1>1, <1>2, PTL DEF Spec, PortSpec
-----------------------------------------------------------------------------
(* Why hiding ends.                                                        *)

\* The schedule t is further than s: it has fewer tasks left, or the same and
\* the path task has not gone back.
Further(s, t) == Len(t.tasks) < Len(s.tasks) \/ (t.tasks = s.tasks /\ s.step <= t.step)

\* The first schedule is over, or further, or nothing happened to the queue.
GoesOn ==
    \/ queue' = queue
    \/ HeadGoes
    \/ \E s : HeadBecomes(s) /\ Further(queue[1], s)

LEMMA CompletingGoesOn ==
    ASSUME TypeOK, queue # <<>>, CompleteTask
    PROVE  GoesOn
<1>1. Current = queue[1] /\ queue[1] \in Schedule
  BY QueueFacts DEF TypeOK, Current
<1>2. CASE HeadGoes
  BY <1>2 DEF GoesOn
<1>3. ASSUME NEW s \in Schedule, HeadBecomes(s), ~HeadGoes PROVE GoesOn
  <2>1. queue'[1] = s
    BY <1>3, HeadBecomesFacts
  <2>2. queue' = [queue EXCEPT ![1] = [Current EXCEPT !.tasks = Tail(Current.tasks),
                                                     !.step = 0, !.goal = NoWpt]]
    BY <1>3 DEF CompleteTask, HeadGoes
  <2>3. 1 \in DOMAIN queue
    BY QueueFacts DEF TypeOK
  <2>4. s = [Current EXCEPT !.tasks = Tail(Current.tasks), !.step = 0, !.goal = NoWpt]
    BY <2>1, <2>2, <2>3
  <2>5. s.tasks = Tail(queue[1].tasks)
    BY <1>1, <2>4 DEF Schedule
  <2>6. queue[1].tasks \in Seq({"path", "act", "spot"}) /\ queue[1].tasks # <<>>
    BY <1>1 DEF Schedule
  <2>7. Len(s.tasks) = Len(queue[1].tasks) - 1 /\ Len(queue[1].tasks) \in Nat
    BY <2>5, <2>6, HeadTailProperties, LenProperties
  <2> QED
    BY <1>3, <2>7 DEF GoesOn, Further
<1> QED
  BY <1>2, <1>3, CompleteTaskFacts

LEMMA PathGoesOn ==
    ASSUME TypeOK, queue # <<>>, NEW n \in 0 .. 2, NEW g \in Waypoints \cup {NoWpt},
           WithPath(n, g), Current.step <= n
    PROVE  GoesOn
<1> DEFINE s == [queue[1] EXCEPT !.step = n, !.goal = g]
<1>1. queue[1] \in Schedule /\ Current = queue[1]
  BY QueueFacts DEF TypeOK, Current
<1>2. s \in Schedule /\ s.plan = queue[1].plan /\ s.tasks = queue[1].tasks /\ s.step = n
  BY <1>1 DEF Schedule
<1>3. queue' = [queue EXCEPT ![1] = s]
  BY <1>1 DEF WithPath
<1>4. HeadBecomes(s) /\ Further(queue[1], s)
  BY <1>1, <1>2, <1>3 DEF HeadBecomes, Further
<1> QED
  BY <1>4 DEF GoesOn

\* A bot that is neither hurt nor hears a shot gets on with its schedules, or
\* drops them all for at most one, which is not a hiding place.
LEMMA UndisturbedStep ==
    ASSUME TypeOK, Routing, [Next]_vars, ~Hurt, ~Hear
    PROVE  \/ GoesOn
           \/ queue' = <<>>
           \/ \E p \in Plans \ {"hide"} : queue' = <<NewSchedule(p)>>
<1>1. RemoveSchedule /\ queue # <<>> => GoesOn
  BY DEF RemoveSchedule, HeadGoes, GoesOn
<1>2. CompleteTask /\ queue # <<>> => GoesOn
  BY CompletingGoesOn
<1>3. "order" \in Plans \ {"hide"} /\ "gravgun" \in Plans \ {"hide"}
  BY DEF Plans, TasksOf
<1>4. CASE UNCHANGED vars
  BY <1>4 DEF vars, mindVars, GoesOn
<1>5. CASE Die \/ ForceGotoWaypoint \/ MindChanges
  BY <1>3, <1>5 DEF Die, ForceGotoWaypoint, MindChanges, GoesOn
<1>6. CASE CheckStuck
  BY <1>3, <1>6 DEF CheckStuck, StuckOnObject, GoesOn
<1>7. CASE KeepTasks \/ NothingToDo \/ HearNothing \/ Walk
  BY <1>7 DEF KeepTasks, NothingToDo, HearNothing, Walk, GoesOn
<1>8. CASE GetTasks
  <2>1. \A u \in Utils : PlansOf[u] \subseteq Plans \ {"hide"}
    BY UtilsAssumption DEF PlansOf, Plans, TasksOf
  <2> QED
    BY <1>8, <2>1 DEF GetTasks, GoesOn
<1>9. CASE EndEarly \/ Act \/ FindHideSpot \/ NowhereToGo \/ FollowRoute
  <2>1. queue # <<>>
    BY <1>9 DEF EndEarly, Act, FindHideSpot, NowhereToGo, FollowRoute, Executes
  <2>2. queue' = queue \/ CompleteTask \/ RemoveSchedule
    BY <1>9 DEF EndEarly, Act, FindHideSpot, NowhereToGo, FollowRoute
  <2> QED
    BY <1>1, <1>2, <2>1, <2>2 DEF GoesOn
<1>10. ASSUME NEW g \in Waypoints \cup {NoWpt}, BeginPath(g)
       PROVE  GoesOn
  <2>1. queue # <<>> /\ Current.step <= 0
    BY <1>10 DEF BeginPath, Executes
  <2> QED
    BY <1>1, <1>10, <2>1, PathGoesOn DEF BeginPath
<1>11. CASE ResumePath
  BY <1>1, <1>11 DEF ResumePath, Executes, GoesOn
<1>12. CASE RouteReturns
  <2>1. queue # <<>> /\ Current.step \in {0, 1}
    BY <1>12 DEF RouteReturns, Routing, Current
  <2>2. Current.goal \in Waypoints \cup {NoWpt}
    BY <2>1, QueueFacts DEF TypeOK, Current, Schedule
  <2>3. WithPath(1, Current.goal) \/ WithPath(2, Current.goal) => GoesOn
    BY <2>1, <2>2, PathGoesOn
  <2> QED
    BY <1>1, <1>2, <1>12, <2>1, <2>3 DEF RouteReturns
<1> QED
  BY <1>4, <1>5, <1>6, <1>7, <1>8, <1>9, <1>10, <1>11, <1>12
     DEF Next, Event, Frame, Execute

\* While a bot hides, what is in front of its hiding place becomes less: there
\* are fewer schedules, or the first is the same or further.
HidingGetsOn ==
    [][HasSchedule("hide") /\ HasSchedule("hide")' /\ ~Hurt /\ ~Hear =>
          \/ Len(queue') < Len(queue)
          \/ /\ Len(queue') = Len(queue)
             /\ queue' = queue \/ Further(Head(queue), Head(queue'))]_vars

(* The measure behind HideEnds, for any plans: unless the bot is hurt or   *)
(* hears a shot, no step puts anything in front of its hiding place, gives *)
(* the first schedule a task again, or takes a path task back to a search. *)
(* So it hides for ever only if one of its tasks goes on for ever.         *)
THEOREM HidingProgresses == Spec => HidingGetsOn
<1> DEFINE GetsOn ==
             HasSchedule("hide") /\ HasSchedule("hide")' /\ ~Hurt /\ ~Hear =>
                \/ Len(queue') < Len(queue)
                \/ /\ Len(queue') = Len(queue)
                   /\ queue' = queue \/ Further(Head(queue), Head(queue'))
<1>1. Inv /\ [Next]_vars => GetsOn
  <2>1. SUFFICES ASSUME Inv, [Next]_vars, HasSchedule("hide"), HasSchedule("hide")',
                        ~Hurt, ~Hear
                 PROVE  \/ Len(queue') < Len(queue)
                        \/ /\ Len(queue') = Len(queue)
                           /\ queue' = queue \/ Further(Head(queue), Head(queue'))
    OBVIOUS
  <2>2. TypeOK /\ Routing
    BY <2>1 DEF Inv
  <2>3. \E i \in DOMAIN queue' : queue'[i].plan = "hide"
    BY <2>1 DEF HasSchedule
  <2>4. queue' # <<>>
    BY <2>3
  <2>5. ASSUME NEW p \in Plans \ {"hide"} PROVE queue' # <<NewSchedule(p)>>
    <3>1. SUFFICES ASSUME queue' = <<NewSchedule(p)>> PROVE FALSE
      OBVIOUS
    <3>2. PICK i \in DOMAIN <<NewSchedule(p)>> : <<NewSchedule(p)>>[i].plan = "hide"
      BY <2>3, <3>1
    <3>3. i = 1
      OBVIOUS
    <3> QED
      BY <3>2, <3>3, NewScheduleTyped
  <2>6. GoesOn
    BY <2>1, <2>2, <2>4, <2>5, UndisturbedStep
  <2>7. CASE queue' = queue
    BY <2>7
  <2>8. CASE HeadGoes
    <3>1. Len(queue') = Len(queue) - 1 /\ Len(queue) \in Nat
      BY <2>2, <2>8, HeadGoesFacts, QueueFacts DEF TypeOK
    <3> QED
      BY <3>1
  <2>9. ASSUME NEW s, HeadBecomes(s), Further(queue[1], s)
        PROVE  Len(queue') = Len(queue) /\ Further(Head(queue), Head(queue'))
    <3>1. Len(queue') = Len(queue) /\ Head(queue') = s
      BY <2>2, <2>9, HeadBecomesFacts
    <3>2. Head(queue) = queue[1]
      BY <2>2, <2>9, QueueFacts DEF TypeOK, HeadBecomes
    <3> QED
      BY <2>9, <3>1, <3>2
  <2> QED
    BY <2>6, <2>7, <2>8, <2>9 DEF GoesOn
<1>2. Inv /\ [Next]_vars => [GetsOn]_vars
  BY <1>1
<1> QED
  BY <1>2, Invariant, PTL DEF Spec, HidingGetsOn
=============================================================================
