--------------------------- MODULE SequenceLemmas ---------------------------
(***************************************************************************)
(* Facts about sequences that the proofs about the queues and lists of the *)
(* program rest on.                                                        *)
(***************************************************************************)
EXTENDS SequencesExt, SequenceTheorems, WellFoundedInduction, TLAPS

\* A set of natural numbers that is not empty has a least element.
LEMMA LeastExists ==
    ASSUME NEW T, T \subseteq Nat, T # {}
    PROVE  \E m \in T : \A k \in T : m <= k
<1>1. IsWellFoundedOn(OpToRel(<, Nat), Nat)
  BY NatLessThanWellFounded
<1>2. PICK m \in T : \A k \in T : ~ (<<k, m>> \in OpToRel(<, Nat))
  BY <1>1, WFMin
<1>3. \A k \in T : ~ (k < m)
  BY <1>2 DEF OpToRel
<1> QED
  BY <1>3

LEMMA LeastInSet ==
    ASSUME NEW T, T \subseteq Nat, T # {}
    PROVE  (CHOOSE m \in T : \A k \in T : m <= k) \in T
  BY LeastExists

\* The elements of a sequence from its m-th to its n-th.
LEMMA SubSeqFacts ==
    ASSUME NEW S, NEW s \in Seq(S), NEW m \in Nat \ {0}, NEW n \in Nat, n <= Len(s), m <= n + 1
    PROVE  /\ SubSeq(s, m, n) \in Seq(S)
           /\ Len(SubSeq(s, m, n)) = n - m + 1
           /\ \A i \in 1 .. n - m + 1 : SubSeq(s, m, n)[i] = s[m + i - 1]
<1>1. Len(s) \in Nat /\ \A i \in m .. n : s[i] \in S
  BY ElementOfSeq, LenProperties
<1>2. /\ SubSeq(s, m, n) \in Seq(S)
      /\ Len(SubSeq(s, m, n)) = IF m <= n THEN n - m + 1 ELSE 0
      /\ \A i \in 1 .. n - m + 1 : SubSeq(s, m, n)[i] = s[m + i - 1]
  BY <1>1, SubSeqProperties
<1> QED
  BY <1>2

\* Where an element is inserted in a sequence, the others keep their order;
\* nothing is lost, and nothing else comes in.
LEMMA InsertAtFacts ==
    ASSUME NEW S, NEW s \in Seq(S), NEW at \in 1 .. Len(s) + 1, NEW w \in S
    PROVE  /\ InsertAt(s, at, w) \in Seq(S)
           /\ Len(InsertAt(s, at, w)) = Len(s) + 1
           /\ \A i \in 1 .. Len(s) + 1 : InsertAt(s, at, w)[i] =
                IF i < at THEN s[i] ELSE IF i = at THEN w ELSE s[i - 1]
<1> DEFINE front == SubSeq(s, 1, at - 1)
           back  == SubSeq(s, at, Len(s))
<1>0. Len(s) \in Nat /\ \A i \in 1 .. Len(s) : s[i] \in S
  BY ElementOfSeq, LenProperties
<1>1. front \in Seq(S) /\ Len(front) = at - 1 /\ \A i \in 1 .. at - 1 : front[i] = s[i]
  <2>1. \A i \in 1 .. at - 1 : s[i] \in S
    BY <1>0
  <2>2. /\ SubSeq(s, 1, at - 1) \in Seq(S)
        /\ Len(SubSeq(s, 1, at - 1)) = IF 1 <= at - 1 THEN at - 1 - 1 + 1 ELSE 0
        /\ \A i \in 1 .. at - 1 - 1 + 1 : SubSeq(s, 1, at - 1)[i] = s[1 + i - 1]
    BY <1>0, <2>1, SubSeqProperties
  <2> QED
    BY <1>0, <2>2
<1>2. back \in Seq(S) /\ Len(back) = Len(s) - at + 1
      /\ \A i \in 1 .. Len(s) - at + 1 : back[i] = s[at + i - 1]
  <2>1. \A i \in at .. Len(s) : s[i] \in S
    BY <1>0
  <2>2. /\ SubSeq(s, at, Len(s)) \in Seq(S)
        /\ Len(SubSeq(s, at, Len(s))) = IF at <= Len(s) THEN Len(s) - at + 1 ELSE 0
        /\ \A i \in 1 .. Len(s) - at + 1 : SubSeq(s, at, Len(s))[i] = s[at + i - 1]
    BY <1>0, <2>1, SubSeqProperties
  <2> QED
    BY <1>0, <2>2
<1> HIDE DEF front, back
<1>3. <<w>> \in Seq(S) /\ Len(<<w>>) = 1 /\ <<w>>[1] = w
  OBVIOUS
<1>4. /\ front \o <<w>> \in Seq(S) /\ Len(front \o <<w>>) = at
      /\ \A i \in 1 .. at : (front \o <<w>>)[i] = IF i < at THEN s[i] ELSE w
  BY <1>0, <1>1, <1>3, ConcatProperties
<1>5. /\ (front \o <<w>>) \o back \in Seq(S)
      /\ Len((front \o <<w>>) \o back) = Len(s) + 1
      /\ \A i \in 1 .. Len(s) + 1 : ((front \o <<w>>) \o back)[i] =
            IF i < at THEN s[i] ELSE IF i = at THEN w ELSE s[i - 1]
  BY <1>0, <1>2, <1>4, ConcatProperties
<1> QED
  BY <1>5 DEF InsertAt, front, back

\* What is left when an element is removed keeps its order.
LEMMA RemoveAtFacts ==
    ASSUME NEW S, NEW s \in Seq(S), NEW at \in 1 .. Len(s)
    PROVE  /\ RemoveAt(s, at) \in Seq(S)
           /\ Len(RemoveAt(s, at)) = Len(s) - 1
           /\ \A i \in 1 .. Len(s) - 1 : RemoveAt(s, at)[i] = IF i < at THEN s[i] ELSE s[i + 1]
<1> DEFINE front == SubSeq(s, 1, at - 1)
           back  == SubSeq(s, at + 1, Len(s))
<1>0. Len(s) \in Nat
  BY LenProperties
<1>1. front \in Seq(S) /\ Len(front) = at - 1 /\ \A i \in 1 .. at - 1 : front[i] = s[i]
  <2>1. /\ SubSeq(s, 1, at - 1) \in Seq(S)
        /\ Len(SubSeq(s, 1, at - 1)) = at - 1 - 1 + 1
        /\ \A i \in 1 .. at - 1 - 1 + 1 : SubSeq(s, 1, at - 1)[i] = s[1 + i - 1]
    BY <1>0, SubSeqFacts
  <2> QED
    BY <1>0, <2>1
<1>2. back \in Seq(S) /\ Len(back) = Len(s) - at
      /\ \A i \in 1 .. Len(s) - at : back[i] = s[at + i]
  <2>1. /\ SubSeq(s, at + 1, Len(s)) \in Seq(S)
        /\ Len(SubSeq(s, at + 1, Len(s))) = Len(s) - (at + 1) + 1
        /\ \A i \in 1 .. Len(s) - (at + 1) + 1 :
              SubSeq(s, at + 1, Len(s))[i] = s[at + 1 + i - 1]
    BY <1>0, SubSeqFacts
  <2> QED
    BY <1>0, <2>1
<1> HIDE DEF front, back
<1>3. /\ front \o back \in Seq(S) /\ Len(front \o back) = Len(s) - 1
      /\ \A i \in 1 .. Len(s) - 1 : (front \o back)[i] = IF i < at THEN s[i] ELSE s[i + 1]
  <2>1. /\ front \o back \in Seq(S)
        /\ Len(front \o back) = Len(front) + Len(back)
        /\ \A i \in 1 .. Len(front) + Len(back) : (front \o back)[i] =
              IF i <= Len(front) THEN front[i] ELSE back[i - Len(front)]
    BY <1>1, <1>2, ConcatProperties
  <2>2. Len(front) + Len(back) = Len(s) - 1
    BY <1>0, <1>1, <1>2
  <2>3. ASSUME NEW i \in 1 .. Len(s) - 1
        PROVE  (front \o back)[i] = IF i < at THEN s[i] ELSE s[i + 1]
    <3>1. CASE i < at
      BY <1>0, <1>1, <2>1, <2>2, <3>1
    <3>2. CASE ~(i < at)
      <4>1. (front \o back)[i] = back[i - (at - 1)]
        BY <1>0, <1>1, <2>1, <2>2, <3>2
      <4>2. i - (at - 1) \in 1 .. Len(s) - at /\ at + (i - (at - 1)) = i + 1
        BY <1>0, <3>2
      <4>3. back[i - (at - 1)] = s[at + (i - (at - 1))]
        BY <1>2, <4>2
      <4> QED
        BY <3>2, <4>1, <4>2, <4>3
    <3> QED
      BY <3>1, <3>2
  <2> QED
    BY <2>1, <2>2, <2>3
<1> QED
  BY <1>3 DEF RemoveAt, front, back

\* A sequence with one more element in front.
LEMMA InFrontFacts ==
    ASSUME NEW S, NEW s \in Seq(S), NEW w \in S
    PROVE  /\ <<w>> \o s \in Seq(S)
           /\ Len(<<w>> \o s) = Len(s) + 1
           /\ \A i \in 1 .. Len(s) + 1 : (<<w>> \o s)[i] = IF i = 1 THEN w ELSE s[i - 1]
<1>1. <<w>> \in Seq(S) /\ Len(<<w>>) = 1 /\ <<w>>[1] = w /\ Len(s) \in Nat
  BY LenProperties
<1> QED
  BY <1>1, ConcatProperties

\* The sequences of n steps from base: step[k] leads from a state to the next.
Runs(S, base, step, n) ==
    {g \in [0 .. n -> S] : g[0] = base /\ \A k \in 1 .. n : g[k] = step[k][g[k - 1]]}

\* A sequence of states in which each follows from the one before exists,
\* for any number of steps.
LEMMA StepsExist ==
    ASSUME NEW S, NEW base \in S, NEW step \in [Nat -> [S -> S]], NEW n \in Nat
    PROVE  Runs(S, base, step, n) # {}
<1> DEFINE Good(m, g) == g[0] = base /\ \A k \in 1 .. m : g[k] = step[k][g[k - 1]]
           Bad == {m \in Nat : ~ \E g \in [0 .. m -> S] : Good(m, g)}
<1>1. SUFFICES ASSUME Bad # {} PROVE FALSE
  BY DEF Runs
<1>b. \A m \in Nat : m \in Bad <=> ~ \E g \in [0 .. m -> S] : Good(m, g)
  OBVIOUS
<1>c. Bad \subseteq Nat
  OBVIOUS
<1> HIDE DEF Bad
<1>2. PICK least \in Bad : \A k \in Bad : least <= k
  BY <1>1, <1>c, LeastExists
<1>3. least # 0
  <2>1. [k \in 0 .. 0 |-> base] \in [0 .. 0 -> S] /\ Good(0, [k \in 0 .. 0 |-> base])
    OBVIOUS
  <2> QED
    BY <2>1, <1>b
<1>4. least \in Nat /\ least - 1 \in Nat /\ least - 1 \notin Bad
  BY <1>2, <1>3, <1>c
<1>5. PICK g \in [0 .. least - 1 -> S] : Good(least - 1, g)
  BY <1>4, <1>b
<1> DEFINE h == [k \in 0 .. least |-> IF k < least THEN g[k] ELSE step[least][g[least - 1]]]
<1>6. h \in [0 .. least -> S]
  BY <1>4, <1>5
<1>7. Good(least, h)
  <2>1. h[0] = base
    BY <1>3, <1>4, <1>5
  <2>2. ASSUME NEW k \in 1 .. least PROVE h[k] = step[k][h[k - 1]]
    <3>1. h[k - 1] = g[k - 1]
      BY <1>4
    <3>2. CASE k < least
      BY <3>1, <3>2, <1>4, <1>5
    <3>3. CASE k = least
      BY <3>1, <3>3, <1>4
    <3> QED
      BY <3>2, <3>3, <1>4
  <2> QED
    BY <2>1, <2>2
<1> QED
  BY <1>2, <1>4, <1>6, <1>7, <1>b
=============================================================================
