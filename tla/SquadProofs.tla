---------------------------- MODULE SquadProofs -----------------------------
(***************************************************************************)
(* Proofs about Squads, for any players, bots and squads.  Both sides of   *)
(* the membership are needed at once: that the pointers are valid depends  *)
(* on which followers a squad has, and the other way round.                *)
(***************************************************************************)
EXTENDS Squads, SequenceLemmas

\* The first place of an element is one of its places.
LEMMA FirstFacts ==
    ASSUME NEW S, NEW list \in Seq(S), NEW x, In(x, list)
    PROVE  First(x, list) \in 1 .. Len(list) /\ list[First(x, list)] = x
<1> DEFINE T == {i \in DOMAIN list : list[i] = x}
           m == CHOOSE i \in T : \A j \in T : i <= j
<1>1. T \subseteq Nat /\ T # {} /\ DOMAIN list = 1 .. Len(list)
  BY LenProperties DEF In
<1>2. m \in T
  BY <1>1, LeastInSet
<1>3. \A j \in T : m <= j
  <2>1. \E i \in T : \A j \in T : i <= j
    <3>1. IsWellFoundedOn(OpToRel(<, Nat), Nat)
      BY NatLessThanWellFounded
    <3>2. PICK i \in T : \A j \in T : ~ (<<j, i>> \in OpToRel(<, Nat))
      BY <1>1, <3>1, WFMin
    <3>3. \A j \in T : ~ (j < i)
      BY <1>1, <3>2 DEF OpToRel
    <3>4. \A j \in T : i <= j
      BY <1>1, <3>3
    <3> QED
      BY <3>4
  <2> QED
    BY <2>1
<1>4. \E i \in DOMAIN list : list[i] = x /\ \A j \in DOMAIN list : list[j] = x => i <= j
  BY <1>2, <1>3
<1> QED
  BY <1>1, <1>4 DEF First

\* What is left when the first of a kind is taken out: all others, and nothing
\* of the kind where there was one of it only.
LEMMA WithoutFacts ==
    ASSUME NEW S, NEW list \in Seq(S), NEW x
    PROVE  /\ Without(x, list) \in Seq(S)
           /\ Len(Without(x, list)) <= Len(list)
           /\ \A y : In(y, Without(x, list)) => In(y, list)
           /\ \A y : y # x /\ In(y, list) => In(y, Without(x, list))
           /\ \A V : OnceIn(list, V) =>
                /\ OnceIn(Without(x, list), V)
                /\ x \in V => ~In(x, Without(x, list))
<1>1. CASE ~In(x, list)
  BY <1>1, LenProperties DEF Without
<1>2. CASE In(x, list)
  <2> DEFINE at == First(x, list)
             left == Without(x, list)
  <2>1. at \in 1 .. Len(list) /\ list[at] = x /\ Len(list) \in Nat
    BY <1>2, FirstFacts, LenProperties
  <2>2. left = RemoveAt(list, at)
    BY <1>2 DEF Without
  <2> HIDE DEF at, left
  <2>3. /\ left \in Seq(S) /\ Len(left) = Len(list) - 1
        /\ \A i \in 1 .. Len(list) - 1 : left[i] = IF i < at THEN list[i] ELSE list[i + 1]
    BY <2>1, <2>2, RemoveAtFacts
  <2>4. DOMAIN left = 1 .. Len(list) - 1 /\ DOMAIN list = 1 .. Len(list)
    BY <2>3, LenProperties
  <2>5. ASSUME NEW y, In(y, left)
        PROVE  In(y, list)
    <3>1. PICK i \in 1 .. Len(list) - 1 : left[i] = y
      BY <2>4, <2>5 DEF In
    <3>2. i \in 1 .. Len(list) /\ i + 1 \in 1 .. Len(list)
      BY <2>1
    <3> QED
      BY <2>3, <2>4, <3>1, <3>2 DEF In
  <2>6. ASSUME NEW y, y # x, In(y, list)
        PROVE  In(y, left)
    <3>1. PICK i \in 1 .. Len(list) : list[i] = y
      BY <2>4, <2>6 DEF In
    <3>2. CASE i < at
      <4>1. i \in 1 .. Len(list) - 1 /\ left[i] = y
        BY <2>1, <2>3, <3>1, <3>2
      <4> QED
        BY <2>4, <4>1 DEF In
    <3>3. CASE i > at
      <4>1. i - 1 \in 1 .. Len(list) - 1 /\ ~(i - 1 < at) /\ (i - 1) + 1 = i
        BY <2>1, <3>3
      <4>2. left[i - 1] = y
        BY <2>3, <3>1, <4>1
      <4> QED
        BY <2>4, <4>1, <4>2 DEF In
    <3> QED
      BY <2>1, <2>6, <3>1, <3>2, <3>3
  <2>7. ASSUME NEW V, OnceIn(list, V)
        PROVE  OnceIn(left, V)
    <3>1. SUFFICES ASSUME NEW i \in 1 .. Len(list) - 1, NEW j \in 1 .. Len(list) - 1,
                          left[i] \in V, left[i] = left[j]
                   PROVE  i = j
      BY <2>4 DEF OnceIn
    <3> DEFINE old(k) == IF k < at THEN k ELSE k + 1
    <3>2. \A k \in 1 .. Len(list) - 1 : old(k) \in 1 .. Len(list) /\ left[k] = list[old(k)]
      BY <2>1, <2>3
    <3>3. old(i) = old(j)
      <4>1. /\ old(i) \in 1 .. Len(list) /\ left[i] = list[old(i)]
            /\ old(j) \in 1 .. Len(list) /\ left[j] = list[old(j)]
        BY <3>2
      <4> HIDE DEF old
      <4> QED
        BY <2>4, <2>7, <3>1, <4>1 DEF OnceIn
    <3> QED
      BY <2>1, <3>3
  <2>8. ASSUME NEW V, OnceIn(list, V), x \in V
        PROVE  ~In(x, left)
    <3>1. SUFFICES ASSUME NEW i \in 1 .. Len(list) - 1, left[i] = x
                   PROVE  FALSE
      BY <2>4 DEF In
    <3> DEFINE k == IF i < at THEN i ELSE i + 1
    <3>2. k \in 1 .. Len(list) /\ k # at /\ list[k] = x
      BY <2>1, <2>3, <3>1
    <3> HIDE DEF k
    <3> QED
      BY <2>1, <2>4, <2>8, <3>2 DEF OnceIn
  <2>9. Len(left) <= Len(list)
    BY <2>1, <2>3
  <2> QED
    BY <2>3, <2>5, <2>6, <2>7, <2>8, <2>9 DEF left
<1> QED
  BY <1>1, <1>2

\* A list with one more element in front.
LEMMA PushFacts ==
    ASSUME NEW S, NEW list \in Seq(S), NEW x \in S
    PROVE  /\ <<x>> \o list \in Seq(S) /\ Len(<<x>> \o list) = Len(list) + 1
           /\ \A y : In(y, <<x>> \o list) <=> y = x \/ In(y, list)
           /\ \A V : OnceIn(list, V) /\ ~In(x, list) => OnceIn(<<x>> \o list, V)
<1> DEFINE more == <<x>> \o list
<1>1. /\ more \in Seq(S) /\ Len(more) = Len(list) + 1 /\ Len(list) \in Nat
      /\ \A i \in 1 .. Len(list) + 1 : more[i] = IF i = 1 THEN x ELSE list[i - 1]
  BY InFrontFacts, LenProperties
<1>2. DOMAIN more = 1 .. Len(list) + 1 /\ DOMAIN list = 1 .. Len(list)
  BY <1>1, LenProperties
<1> HIDE DEF more
<1>3. ASSUME NEW y, In(y, more)
      PROVE  y = x \/ In(y, list)
  <2>1. PICK i \in 1 .. Len(list) + 1 : more[i] = y
    BY <1>2, <1>3 DEF In
  <2>2. i # 1 => i - 1 \in 1 .. Len(list)
    BY <1>1
  <2> QED
    BY <1>1, <1>2, <2>1, <2>2 DEF In
<1>4. In(x, more)
  <2>1. 1 \in 1 .. Len(list) + 1 /\ more[1] = x
    BY <1>1
  <2> QED
    BY <1>2, <2>1 DEF In
<1>5. ASSUME NEW y, In(y, list)
      PROVE  In(y, more)
  <2>1. PICK i \in 1 .. Len(list) : list[i] = y
    BY <1>2, <1>5 DEF In
  <2>2. i + 1 \in 1 .. Len(list) + 1 /\ more[i + 1] = y
    BY <1>1, <2>1
  <2> QED
    BY <1>2, <2>2 DEF In
<1>6. ASSUME NEW V, OnceIn(list, V), ~In(x, list)
      PROVE  OnceIn(more, V)
  <2>1. SUFFICES ASSUME NEW i \in 1 .. Len(list) + 1, NEW j \in 1 .. Len(list) + 1,
                        more[i] \in V, more[i] = more[j]
                 PROVE  i = j
    BY <1>2 DEF OnceIn
  <2>2. \A k \in 1 .. Len(list) + 1 : k # 1 => k - 1 \in 1 .. Len(list) /\ more[k] = list[k - 1]
    BY <1>1
  <2>3. \A k \in 1 .. Len(list) + 1 : k # 1 => more[k] # x
    BY <1>2, <1>6, <2>2 DEF In
  <2>4. more[1] = x
    BY <1>1
  <2>5. CASE i = 1 \/ j = 1
    BY <2>1, <2>3, <2>4, <2>5
  <2>6. CASE i # 1 /\ j # 1
    <3>1. /\ i - 1 \in 1 .. Len(list) /\ list[i - 1] \in V
          /\ j - 1 \in 1 .. Len(list) /\ list[i - 1] = list[j - 1]
      BY <2>1, <2>2, <2>6
    <3>2. i - 1 = j - 1
      BY <1>2, <1>6, <3>1 DEF OnceIn
    <3> QED
      BY <3>2
  <2> QED
    BY <2>5, <2>6
<1> QED
  BY <1>1, <1>3, <1>4, <1>5, <1>6 DEF more

\* A list without its first element.
LEMMA PopFacts ==
    ASSUME NEW S, NEW list \in Seq(S), Len(list) > 0
    PROVE  /\ Head(list) \in S /\ In(Head(list), list)
           /\ Tail(list) \in Seq(S) /\ Len(Tail(list)) <= Len(list)
           /\ \A y : In(y, Tail(list)) => In(y, list)
           /\ \A y : In(y, list) => y = Head(list) \/ In(y, Tail(list))
           /\ \A V : OnceIn(list, V) =>
                /\ OnceIn(Tail(list), V)
                /\ Head(list) \in V => ~In(Head(list), Tail(list))
<1> DEFINE rest == Tail(list)
<1>1. /\ list # <<>> /\ Len(list) \in Nat /\ DOMAIN list = 1 .. Len(list)
      /\ \A i \in 1 .. Len(list) : list[i] \in S
  BY LenProperties, ElementOfSeq
<1>2. /\ rest \in Seq(S) /\ Len(rest) = Len(list) - 1
      /\ \A i \in 1 .. Len(list) - 1 : rest[i] = list[i + 1]
      /\ Head(list) = list[1] /\ 1 \in 1 .. Len(list)
  BY <1>1, HeadTailProperties
<1>3. DOMAIN rest = 1 .. Len(list) - 1
  BY <1>2, LenProperties
<1> HIDE DEF rest
<1>4. In(Head(list), list) /\ Head(list) \in S
  BY <1>1, <1>2 DEF In
<1>5. \A i \in 1 .. Len(list) - 1 : i + 1 \in 1 .. Len(list)
  BY <1>1
<1>6. ASSUME NEW y, In(y, rest)
      PROVE  In(y, list)
  BY <1>1, <1>2, <1>3, <1>5, <1>6 DEF In
<1>7. ASSUME NEW y, In(y, list)
      PROVE  y = Head(list) \/ In(y, rest)
  <2>1. PICK i \in 1 .. Len(list) : list[i] = y
    BY <1>1, <1>7 DEF In
  <2>2. i # 1 => i - 1 \in 1 .. Len(list) - 1 /\ rest[i - 1] = y
    BY <1>1, <1>2, <2>1
  <2> QED
    BY <1>2, <1>3, <2>1, <2>2 DEF In
<1>8. ASSUME NEW V, OnceIn(list, V)
      PROVE  OnceIn(rest, V)
  <2>1. SUFFICES ASSUME NEW i \in 1 .. Len(list) - 1, NEW j \in 1 .. Len(list) - 1,
                        rest[i] \in V, rest[i] = rest[j]
                 PROVE  i = j
    BY <1>3 DEF OnceIn
  <2>2. i + 1 = j + 1
    BY <1>1, <1>2, <1>5, <1>8, <2>1 DEF OnceIn
  <2> QED
    BY <2>2
<1>9. ASSUME NEW V, OnceIn(list, V), Head(list) \in V
      PROVE  ~In(Head(list), rest)
  <2>1. SUFFICES ASSUME NEW i \in 1 .. Len(list) - 1, rest[i] = Head(list)
                 PROVE  FALSE
    BY <1>3 DEF In
  <2>2. i + 1 \in 1 .. Len(list) /\ i + 1 # 1 /\ list[i + 1] = list[1]
    BY <1>2, <1>5, <2>1
  <2> QED
    BY <1>1, <1>2, <1>9, <2>2 DEF OnceIn
<1>10. Len(rest) <= Len(list)
  BY <1>1, <1>2
<1> QED
  BY <1>2, <1>4, <1>6, <1>7, <1>8, <1>9, <1>10 DEF rest

\* A stack after a player has left: his handle reads as NULL, others stay.
LEMMA LeftFacts ==
    ASSUME NEW list \in Seq(Bots \cup {NoOne}), NEW p \in Players,
           NEW now, now = [i \in DOMAIN list |-> IF list[i] = p THEN NoOne ELSE list[i]]
    PROVE  /\ now \in Seq(Bots \cup {NoOne}) /\ Len(now) = Len(list)
           /\ \A y \in Bots : In(y, now) <=> In(y, list) /\ y # p
           /\ OnceIn(list, Bots) => OnceIn(now, Bots)
<1>1. /\ Len(list) \in Nat /\ DOMAIN list = 1 .. Len(list)
      /\ \A i \in 1 .. Len(list) : list[i] \in Bots \cup {NoOne}
  BY LenProperties, ElementOfSeq
<1>2. \A i \in 1 .. Len(list) :
        now[i] = (IF list[i] = p THEN NoOne ELSE list[i]) /\ now[i] \in Bots \cup {NoOne}
  BY <1>1
<1>3. now \in Seq(Bots \cup {NoOne}) /\ Len(now) = Len(list) /\ DOMAIN now = 1 .. Len(list)
  <2>1. now \in [1 .. Len(list) -> Bots \cup {NoOne}]
    BY <1>1
  <2> QED
    BY <1>1, <2>1, SeqDef, LenProperties
<1>4. NoOne \notin Bots
  BY BotsAssumption
<1>5. \A y \in Bots : In(y, now) <=> In(y, list) /\ y # p
  BY <1>1, <1>2, <1>3, <1>4 DEF In
<1>6. ASSUME OnceIn(list, Bots)
      PROVE  OnceIn(now, Bots)
  BY <1>1, <1>2, <1>3, <1>4, <1>6 DEF OnceIn
<1> QED
  BY <1>3, <1>5, <1>6
-----------------------------------------------------------------------------
Facts(b, stacks) ==
    /\ stacks \in [SquadIds -> Seq(Bots \cup {NoOne})]
    /\ \A s \in SquadIds :
        /\ Len(stacks[s]) <= MaxMembers
        /\ OnceIn(stacks[s], Bots)
        /\ \A x \in Bots : In(x, stacks[s]) => x # b /\ mySquad[x] = s
    /\ \A x \in Bots \ (strayed \cup {b}) :
        mySquad[x] # NoSquad => leader[mySquad[x]] = x \/ In(x, stacks[mySquad[x]])

\* No squad is listed twice.
SquadsOnce == OnceIn(squads, SquadIds)

\* Between CBot::died and the change of leader.
DyingStrayed == dying \in Bots /\ mySquad[dying] # NoSquad => dying \in strayed

IInv == TypeOK /\ PointersValid /\ FollowersBelong /\ StrayOnlyByDeath /\ SquadsOnce
        /\ DyingStrayed

LEMMA InitIInv == Init => IInv
<1>1. SUFFICES ASSUME Init
               PROVE  IInv
  OBVIOUS
<1>2. <<>> \in Seq(SquadIds) /\ <<>> \in Seq(Bots \cup {NoOne}) /\ Len(<<>>) = 0 /\ DOMAIN <<>> = {}
  OBVIOUS
<1>3. TypeOK
  BY <1>1, <1>2, MaxMembersAssumption DEF Init, TypeOK, Handle
<1>4. PointersValid /\ StrayOnlyByDeath
  BY <1>1 DEF Init, PointersValid, StrayOnlyByDeath
<1>5. FollowersBelong /\ SquadsOnce
  BY <1>1, <1>2 DEF Init, FollowersBelong, SquadsOnce, OnceIn, In
<1>6. DyingStrayed
  BY <1>1, BotsAssumption DEF Init, DyingStrayed
<1> QED
  BY <1>3, <1>4, <1>5, <1>6 DEF IInv

\* A bot that is in no stack and finds no squad.
LEMMA NoSquadKeeps ==
    ASSUME IInv, NEW b \in Bots, NEW stacks, Facts(b, stacks),
           NoSquadFor(stacks, b), dying = NoOne, UNCHANGED dying
    PROVE  IInv'
<1> USE DEF NoSquadFor
<1>1. mySquad' \in [Bots -> SquadIds \cup {NoSquad}] /\ \A x \in Bots :
        mySquad'[x] = IF x = b THEN NoSquad ELSE mySquad[x]
  BY DEF IInv, TypeOK
<1>2. TypeOK'
  BY <1>1 DEF IInv, TypeOK, Facts
<1>3. PointersValid'
  BY <1>1 DEF IInv, PointersValid, Listed
<1>4. FollowersBelong'
  BY <1>1 DEF FollowersBelong, Facts
<1>5. StrayOnlyByDeath'
  BY <1>1 DEF StrayOnlyByDeath, Facts
<1>6. SquadsOnce'
  BY DEF IInv, SquadsOnce
<1>7. DyingStrayed'
  BY BotsAssumption DEF DyingStrayed
<1> QED
  BY <1>2, <1>3, <1>4, <1>5, <1>6, <1>7 DEF IInv

\* A bot that is in no stack is added to the squad of the player who called it.
LEMMA JoinKeeps ==
    ASSUME IInv, NEW b \in Bots, NEW p \in Players, NEW stacks, Facts(b, stacks),
           JoinSquadOf(stacks, p, b), dying = NoOne, UNCHANGED dying
    PROVE  IInv'
<1>1. PICK i \in DOMAIN squads :
        /\ Len(stacks[squads[i]]) < MaxMembers
        /\ members' = Added(stacks, squads[i], b)
        /\ mySquad' = [mySquad EXCEPT ![b] = squads[i]]
        /\ strayed' = strayed \ {b}
        /\ UNCHANGED <<squads, leader>>
  BY DEF JoinSquadOf
<1> DEFINE s == squads[i]
           more == <<b>> \o stacks[s]
<1>2. s \in SquadIds /\ Listed(s)
  <2>1. squads \in Seq(SquadIds)
    BY DEF IInv, TypeOK
  <2> QED
    BY <2>1, ElementOfSeq, LenProperties DEF Listed, In
<1> HIDE DEF s
<1>3. stacks[s] \in Seq(Bots \cup {NoOne}) /\ ~In(b, stacks[s]) /\ OnceIn(stacks[s], Bots)
      /\ Len(stacks[s]) \in Nat
  BY <1>2, LenProperties DEF Facts
<1>4. /\ more \in Seq(Bots \cup {NoOne}) /\ Len(more) = Len(stacks[s]) + 1
      /\ \A y : In(y, more) <=> y = b \/ In(y, stacks[s])
      /\ OnceIn(more, Bots)
  BY <1>3, PushFacts
<1> HIDE DEF more
<1>5. members' \in [SquadIds -> Seq(Bots \cup {NoOne})]
      /\ \A t \in SquadIds : members'[t] = IF t = s THEN more ELSE stacks[t]
  BY <1>1, <1>2, <1>3, <1>4 DEF Added, Facts, s, more
<1>6. mySquad' \in [Bots -> SquadIds \cup {NoSquad}] /\ \A x \in Bots :
        mySquad'[x] = IF x = b THEN s ELSE mySquad[x]
  BY <1>1, <1>2 DEF IInv, TypeOK, s
<1>7. TypeOK'
  <2>1. Len(stacks[s]) < MaxMembers
    BY <1>1 DEF s
  <2>2. Len(more) <= MaxMembers
    BY <1>3, <1>4, <2>1, MaxMembersAssumption
  <2>3. ASSUME NEW t \in SquadIds
        PROVE  Len(members'[t]) <= MaxMembers
    <3>1. Len(stacks[t]) <= MaxMembers
      BY DEF Facts
    <3>2. members'[t] = more \/ members'[t] = stacks[t]
      BY <1>5
    <3> QED
      BY <2>2, <3>1, <3>2
  <2> QED
    BY <1>1, <1>5, <1>6, <2>3 DEF IInv, TypeOK
<1>8. PointersValid'
  BY <1>1, <1>2, <1>6 DEF IInv, PointersValid, Listed
<1>9. FollowersBelong'
  BY <1>4, <1>5, <1>6 DEF FollowersBelong, Facts
<1>10. StrayOnlyByDeath'
  BY <1>1, <1>2, <1>4, <1>5, <1>6 DEF StrayOnlyByDeath, Facts, IInv, TypeOK
<1>11. SquadsOnce'
  BY <1>1 DEF IInv, SquadsOnce
<1>12. DyingStrayed'
  BY BotsAssumption DEF DyingStrayed
<1> QED
  BY <1>7, <1>8, <1>9, <1>10, <1>11, <1>12 DEF IInv

\* A new squad: nobody points to its address, and who leads it follows in none.
LEMMA MakeKeeps ==
    ASSUME IInv, NEW b \in Bots, NEW p \in Players, NEW stacks, Facts(b, stacks), b # p,
           MakeSquad(stacks, p, b), dying = NoOne, UNCHANGED dying
    PROVE  IInv'
<1>1. PICK s \in SquadIds :
        /\ ~Listed(s)
        /\ squads' = <<s>> \o squads
        /\ leader' = [leader EXCEPT ![s] = p]
        /\ members' = [stacks EXCEPT ![s] = <<b>>]
        /\ mySquad' = [x \in Bots |-> IF x \in {b, p} THEN s ELSE mySquad[x]]
        /\ strayed' = strayed \ {b, p}
  BY DEF MakeSquad
<1>2. \A t \in SquadIds : Listed(t) => ~HasLeader(stacks, p, t)
  BY DEF MakeSquad, Listed, In
<1>3. squads \in Seq(SquadIds)
  BY DEF IInv, TypeOK
<1>4. squads' \in Seq(SquadIds) /\ SquadsOnce' /\ \A t : Listed(t)' <=> t = s \/ Listed(t)
  BY <1>1, <1>3, PushFacts DEF IInv, SquadsOnce, Listed
<1>5. \A x \in Bots : mySquad[x] # s
  BY <1>1, IdsAssumption DEF IInv, PointersValid
<1>6. <<b>> \in Seq(Bots \cup {NoOne}) /\ Len(<<b>>) = 1 /\ OnceIn(<<b>>, Bots)
      /\ \A y : In(y, <<b>>) <=> y = b
  BY DEF OnceIn, In
<1>7. members' \in [SquadIds -> Seq(Bots \cup {NoOne})]
      /\ \A t \in SquadIds : members'[t] = IF t = s THEN <<b>> ELSE stacks[t]
  BY <1>1, <1>6 DEF Facts
<1>8. leader' \in [SquadIds -> Handle]
      /\ \A t \in SquadIds : leader'[t] = IF t = s THEN p ELSE leader[t]
  BY <1>1 DEF IInv, TypeOK, Handle
<1>9. mySquad' \in [Bots -> SquadIds \cup {NoSquad}]
      /\ \A x \in Bots : mySquad'[x] = IF x \in {b, p} THEN s ELSE mySquad[x]
  BY <1>1 DEF IInv, TypeOK
<1>10. TypeOK'
  <2>1. ASSUME NEW t \in SquadIds
        PROVE  Len(members'[t]) <= MaxMembers
    <3>1. Len(stacks[t]) <= MaxMembers
      BY DEF Facts
    <3>2. CASE t = s
      <4>1. Len(members'[t]) = 1
        BY <1>6, <1>7, <3>2
      <4> QED
        BY <4>1, MaxMembersAssumption
    <3>3. CASE t # s
      BY <1>7, <3>1, <3>3
    <3> QED
      BY <3>2, <3>3
  <2> QED
    BY <1>1, <1>4, <1>7, <1>8, <1>9, <2>1 DEF IInv, TypeOK
<1>11. PointersValid'
  BY <1>4, <1>9 DEF IInv, PointersValid
<1>12. FollowersBelong'
  <2>1. \A t \in SquadIds : OnceIn(members'[t], Bots)
    BY <1>6, <1>7 DEF Facts
  <2>2. ASSUME NEW t \in SquadIds, NEW x \in Bots, In(x, members'[t])
        PROVE  mySquad'[x] = t
    <3>1. CASE t = s
      BY <1>6, <1>7, <1>9, <2>2, <3>1
    <3>2. CASE t # s
      <4>1. In(x, stacks[t]) /\ x # b /\ mySquad[x] = t
        BY <1>7, <2>2, <3>2 DEF Facts
      <4>2. Listed(t)
        BY <4>1, IdsAssumption DEF IInv, PointersValid
      <4>3. x # p
        BY <1>2, <4>1, <4>2 DEF HasLeader
      <4> QED
        BY <1>9, <4>1, <4>3
    <3> QED
      BY <3>1, <3>2
  <2> QED
    BY <2>1, <2>2 DEF FollowersBelong
<1>13. StrayOnlyByDeath'
  <2>1. SUFFICES ASSUME NEW x \in Bots, x \notin strayed', mySquad'[x] # NoSquad
                 PROVE  leader'[mySquad'[x]] = x \/ In(x, members'[mySquad'[x]])
    BY DEF StrayOnlyByDeath
  <2>2. CASE x \in {b, p}
    BY <1>6, <1>7, <1>8, <1>9, <2>2
  <2>3. CASE x \notin {b, p}
    <3>1. mySquad'[x] = mySquad[x] /\ mySquad[x] # s /\ mySquad[x] \in SquadIds
      BY <1>5, <1>9, <2>1, <2>3 DEF IInv, TypeOK
    <3>2. leader[mySquad[x]] = x \/ In(x, stacks[mySquad[x]])
      BY <1>1, <2>1, <2>3, <3>1 DEF Facts
    <3> QED
      BY <1>7, <1>8, <3>1, <3>2
  <2> QED
    BY <2>2, <2>3
<1>14. DyingStrayed'
  BY BotsAssumption DEF DyingStrayed
<1> QED
  BY <1>4, <1>10, <1>11, <1>12, <1>13, <1>14 DEF IInv

LEMMA AddKeeps ==
    ASSUME IInv, NEW b \in Bots, NEW p \in Players, NEW stacks, Facts(b, stacks), b # p,
           AddSquadMember(stacks, p, b), dying = NoOne, UNCHANGED dying
    PROVE  IInv'
  BY NoSquadKeeps, JoinKeeps, MakeKeeps DEF AddSquadMember

\* The stacks without a bot that leaves its squad.
LEMMA LeftStackFacts ==
    ASSUME IInv, NEW b \in Bots, mySquad[b] # NoSquad
    PROVE  Facts(b, LeftStack(b))
<1> DEFINE s == mySquad[b]
           left == Without(b, members[s])
<1>1. s \in SquadIds /\ members \in [SquadIds -> Seq(Bots \cup {NoOne})]
      /\ members[s] \in Seq(Bots \cup {NoOne}) /\ OnceIn(members[s], Bots)
  BY DEF IInv, TypeOK, FollowersBelong
<1>2. /\ left \in Seq(Bots \cup {NoOne}) /\ Len(left) <= Len(members[s])
      /\ \A y : In(y, left) => In(y, members[s])
      /\ \A y : y # b /\ In(y, members[s]) => In(y, left)
      /\ OnceIn(left, Bots) /\ ~In(b, left)
  BY <1>1, WithoutFacts
<1>3. LeftStack(b) \in [SquadIds -> Seq(Bots \cup {NoOne})]
      /\ \A t \in SquadIds : LeftStack(b)[t] = IF t = s THEN left ELSE members[t]
  BY <1>1, <1>2 DEF LeftStack
<1> HIDE DEF left
<1>4. ASSUME NEW t \in SquadIds
      PROVE  Len(LeftStack(b)[t]) <= MaxMembers /\ OnceIn(LeftStack(b)[t], Bots)
  <2>1. Len(members[t]) <= MaxMembers /\ OnceIn(members[t], Bots)
    BY DEF IInv, TypeOK, FollowersBelong
  <2>2. CASE t = s
    <3>1. Len(members[s]) \in Nat /\ Len(left) \in Nat
      BY <1>1, <1>2, LenProperties
    <3>2. Len(left) <= MaxMembers
      BY <1>2, <2>1, <2>2, <3>1, MaxMembersAssumption
    <3> QED
      BY <1>2, <1>3, <2>2, <3>2
  <2>3. CASE t # s
    <3>1. LeftStack(b)[t] = members[t]
      BY <1>3, <2>3
    <3> QED
      BY <2>1, <3>1
  <2> QED
    BY <2>2, <2>3
<1>5. ASSUME NEW t \in SquadIds, NEW x \in Bots, In(x, LeftStack(b)[t])
      PROVE  x # b /\ mySquad[x] = t
  <2>1. In(x, members[t]) /\ mySquad[x] = t
    BY <1>2, <1>3, <1>5 DEF IInv, FollowersBelong
  <2> QED
    BY <1>2, <1>3, <1>5, <2>1
<1>6. ASSUME NEW x \in Bots, x \notin strayed, x # b, mySquad[x] # NoSquad
      PROVE  leader[mySquad[x]] = x \/ In(x, LeftStack(b)[mySquad[x]])
  <2>1. leader[mySquad[x]] = x \/ In(x, members[mySquad[x]])
    BY <1>6 DEF IInv, StrayOnlyByDeath
  <2>2. mySquad[x] \in SquadIds
    BY <1>6 DEF IInv, TypeOK
  <2> QED
    BY <1>2, <1>3, <1>6, <2>1, <2>2
<1> QED
  BY <1>3, <1>4, <1>5, <1>6 DEF Facts

\* A squad is dissolved: no bot points to it any more, and it is listed no more.
LEMMA DissolveKeeps ==
    ASSUME IInv, NEW s \in SquadIds, Dissolve(s), UNCHANGED strayed,
           dying' \in Handle, dying' \in Bots => mySquad'[dying'] = NoSquad
    PROVE  IInv' /\ ~Listed(s)' /\ \A t \in SquadIds : t # s => leader'[t] = leader[t]
<1>1. /\ squads' = Without(s, squads)
      /\ leader' = [leader EXCEPT ![s] = NoOne]
      /\ members' = [members EXCEPT ![s] = <<>>]
      /\ mySquad' = [x \in Bots |-> IF mySquad[x] = s THEN NoSquad ELSE mySquad[x]]
  BY DEF Dissolve, Cleared
<1>2. squads \in Seq(SquadIds) /\ OnceIn(squads, SquadIds)
  BY DEF IInv, TypeOK, SquadsOnce
<1>3. /\ squads' \in Seq(SquadIds) /\ SquadsOnce' /\ ~Listed(s)'
      /\ \A t : t # s /\ Listed(t) => Listed(t)'
  BY <1>1, <1>2, WithoutFacts DEF SquadsOnce, Listed
<1>4. <<>> \in Seq(Bots \cup {NoOne}) /\ Len(<<>>) = 0 /\ DOMAIN <<>> = {}
  OBVIOUS
<1>5. /\ members' \in [SquadIds -> Seq(Bots \cup {NoOne})]
      /\ \A t \in SquadIds : members'[t] = IF t = s THEN <<>> ELSE members[t]
      /\ leader' \in [SquadIds -> Handle]
      /\ \A t \in SquadIds : leader'[t] = IF t = s THEN NoOne ELSE leader[t]
  BY <1>1, <1>4 DEF IInv, TypeOK, Handle
<1>6. mySquad' \in [Bots -> SquadIds \cup {NoSquad}]
      /\ \A x \in Bots : mySquad'[x] = IF mySquad[x] = s THEN NoSquad ELSE mySquad[x]
  BY <1>1 DEF IInv, TypeOK
<1>7. TypeOK'
  <2>1. ASSUME NEW t \in SquadIds
        PROVE  Len(members'[t]) <= MaxMembers
    <3>1. Len(members[t]) <= MaxMembers
      BY DEF IInv, TypeOK
    <3>2. members'[t] = <<>> \/ members'[t] = members[t]
      BY <1>5
    <3> QED
      BY <1>4, <3>1, <3>2, MaxMembersAssumption
  <2> QED
    BY <1>3, <1>5, <1>6, <2>1 DEF IInv, TypeOK
<1>8. PointersValid'
  BY <1>3, <1>6 DEF IInv, PointersValid
<1>9. FollowersBelong'
  <2>1. ASSUME NEW t \in SquadIds
        PROVE  OnceIn(members'[t], Bots) /\ \A b \in Bots : In(b, members'[t]) => mySquad'[b] = t
    <3>1. CASE t = s
      BY <1>4, <1>5, <3>1 DEF OnceIn, In
    <3>2. CASE t # s
      BY <1>5, <1>6, <3>2 DEF IInv, FollowersBelong
    <3> QED
      BY <3>1, <3>2
  <2> QED
    BY <2>1 DEF FollowersBelong
<1>10. StrayOnlyByDeath'
  <2>1. SUFFICES ASSUME NEW x \in Bots, x \notin strayed, mySquad'[x] # NoSquad
                 PROVE  leader'[mySquad'[x]] = x \/ In(x, members'[mySquad'[x]])
    BY DEF StrayOnlyByDeath
  <2>2. mySquad'[x] = mySquad[x] /\ mySquad[x] # s /\ mySquad[x] \in SquadIds
    BY <1>6, <2>1, IdsAssumption DEF IInv, TypeOK
  <2> QED
    BY <1>5, <2>1, <2>2 DEF IInv, StrayOnlyByDeath
<1>11. DyingStrayed'
  BY DEF DyingStrayed
<1> QED
  BY <1>3, <1>5, <1>7, <1>8, <1>9, <1>10, <1>11 DEF IInv

\* The top follower takes over, and is a follower no more.
LEMMA NextLeaderKeeps ==
    ASSUME IInv, NEW s \in SquadIds, leader[s] = dying, StaysOn(s), ChangeLeader(s),
           dying' = NoOne, UNCHANGED strayed, dying # NoOne
    PROVE  IInv' /\ leader'[s] # NoOne /\ \A t \in SquadIds : t # s => leader'[t] = leader[t]
<1> DEFINE top  == Head(members[s])
           rest == Tail(members[s])
<1>1. /\ Len(members[s]) > 1 /\ top # NoOne
      /\ leader' = [leader EXCEPT ![s] = top]
      /\ members' = [members EXCEPT ![s] = rest]
      /\ squads' = squads /\ mySquad' = mySquad
  BY DEF ChangeLeader, StaysOn, TopFollower
<1>2. members[s] \in Seq(Bots \cup {NoOne}) /\ OnceIn(members[s], Bots)
      /\ Len(members[s]) \in Nat /\ Len(members[s]) <= MaxMembers
  BY LenProperties DEF IInv, TypeOK, FollowersBelong
<1>3. /\ top \in Bots /\ In(top, members[s]) /\ ~In(top, rest)
      /\ rest \in Seq(Bots \cup {NoOne}) /\ Len(rest) <= Len(members[s])
      /\ \A y : In(y, rest) => In(y, members[s])
      /\ \A y : In(y, members[s]) => y = top \/ In(y, rest)
      /\ OnceIn(rest, Bots)
  <2>1. Len(members[s]) > 0
    BY <1>1, <1>2
  <2>2. top \in Bots \cup {NoOne}
    BY <1>2, <2>1, PopFacts
  <2>3. top \in Bots
    BY <1>1, <2>2
  <2> QED
    BY <1>2, <2>1, <2>3, PopFacts
<1> HIDE DEF top, rest
<1>4. /\ members' \in [SquadIds -> Seq(Bots \cup {NoOne})]
      /\ \A t \in SquadIds : members'[t] = IF t = s THEN rest ELSE members[t]
      /\ leader' \in [SquadIds -> Handle]
      /\ \A t \in SquadIds : leader'[t] = IF t = s THEN top ELSE leader[t]
  BY <1>1, <1>3, BotsAssumption DEF IInv, TypeOK, Handle
<1>5. TypeOK'
  <2>1. ASSUME NEW t \in SquadIds
        PROVE  Len(members'[t]) <= MaxMembers
    <3>1. CASE t = s
      <4>1. Len(rest) \in Nat
        BY <1>3, LenProperties
      <4>2. Len(rest) <= MaxMembers
        BY <1>2, <1>3, <4>1, MaxMembersAssumption
      <4> QED
        BY <1>4, <3>1, <4>2
    <3>2. CASE t # s
      <4>1. members'[t] = members[t]
        BY <1>4, <3>2
      <4> QED
        BY <4>1 DEF IInv, TypeOK
    <3> QED
      BY <3>1, <3>2
  <2> QED
    BY <1>1, <1>4, <2>1 DEF IInv, TypeOK, Handle
<1>6. PointersValid' /\ SquadsOnce'
  BY <1>1 DEF IInv, PointersValid, SquadsOnce, Listed
<1>7. FollowersBelong'
  <2>1. ASSUME NEW t \in SquadIds
        PROVE  OnceIn(members'[t], Bots) /\ \A b \in Bots : In(b, members'[t]) => mySquad'[b] = t
    <3>1. CASE t = s
      BY <1>1, <1>3, <1>4, <3>1 DEF IInv, FollowersBelong
    <3>2. CASE t # s
      BY <1>1, <1>4, <3>2 DEF IInv, FollowersBelong
    <3> QED
      BY <3>1, <3>2
  <2> QED
    BY <2>1 DEF FollowersBelong
<1>8. StrayOnlyByDeath'
  <2>1. SUFFICES ASSUME NEW x \in Bots, x \notin strayed, mySquad[x] # NoSquad
                 PROVE  leader'[mySquad[x]] = x \/ In(x, members'[mySquad[x]])
    BY <1>1 DEF StrayOnlyByDeath
  <2>2. mySquad[x] \in SquadIds /\ (leader[mySquad[x]] = x \/ In(x, members[mySquad[x]]))
    BY <2>1 DEF IInv, TypeOK, StrayOnlyByDeath
  <2>3. CASE mySquad[x] = s
    <3>1. x # dying
      BY <2>1 DEF IInv, DyingStrayed
    <3>2. In(x, members[s])
      BY <2>2, <2>3, <3>1
    <3> QED
      BY <1>3, <1>4, <2>3, <3>2
  <2>4. CASE mySquad[x] # s
    BY <1>4, <2>2, <2>4
  <2> QED
    BY <2>3, <2>4
<1>9. DyingStrayed'
  BY BotsAssumption DEF DyingStrayed
<1> QED
  BY <1>1, <1>4, <1>5, <1>6, <1>7, <1>8, <1>9 DEF IInv

LEMMA DieKeeps ==
    ASSUME IInv, NEW p \in Players, Die(p)
    PROVE  IInv' /\ \A s \in SquadIds : Listed(s)' => leader'[s] = leader[s]
<1>1. dying = NoOne /\ dying' = p /\ p \in Handle
  BY DEF Die, Handle
<1>2. CASE p \in Bots /\ mySquad[p] # NoSquad
  <2> DEFINE left == LeftStack(p)[mySquad[p]]
  <2>1. Facts(p, LeftStack(p)) /\ mySquad[p] \in SquadIds
    BY <1>2, LeftStackFacts DEF IInv, TypeOK
  <2>2. CASE Len(left) <= 1 /\ Dissolve(mySquad[p]) /\ UNCHANGED strayed
    <3>1. mySquad'[p] = NoSquad
      BY <1>2, <2>2 DEF Dissolve, Cleared
    <3> QED
      BY <1>1, <2>1, <2>2, <3>1, DissolveKeeps
  <2>3. CASE /\ members' = LeftStack(p)
             /\ strayed' = strayed \cup {p}
             /\ UNCHANGED <<squads, leader, mySquad>>
    <3>1. TypeOK'
      BY <1>1, <1>2, <2>1, <2>3 DEF IInv, TypeOK, Facts
    <3>2. PointersValid' /\ SquadsOnce'
      BY <2>3 DEF IInv, PointersValid, SquadsOnce, Listed
    <3>3. FollowersBelong'
      BY <2>1, <2>3 DEF FollowersBelong, Facts
    <3>4. StrayOnlyByDeath'
      BY <2>1, <2>3 DEF StrayOnlyByDeath, Facts
    <3>5. DyingStrayed'
      BY <1>1, <2>3 DEF DyingStrayed
    <3> QED
      BY <2>3, <3>1, <3>2, <3>3, <3>4, <3>5 DEF IInv
  <2> QED
    BY <1>2, <2>2, <2>3 DEF Die
<1>3. CASE p \in Bots => mySquad[p] = NoSquad
  <2>1. UNCHANGED <<squads, leader, members, mySquad, strayed>>
    BY <1>3 DEF Die
  <2>2. TypeOK' /\ PointersValid' /\ FollowersBelong' /\ StrayOnlyByDeath' /\ SquadsOnce'
    BY <1>1, <2>1 DEF IInv, TypeOK, PointersValid, FollowersBelong, StrayOnlyByDeath,
                      SquadsOnce, Listed
  <2>3. DyingStrayed'
    BY <1>1, <1>3, <2>1 DEF DyingStrayed
  <2> QED
    BY <2>1, <2>2, <2>3 DEF IInv
<1> QED
  BY <1>2, <1>3

LEMMA DeathHandledKeeps ==
    ASSUME IInv, DeathHandled
    PROVE  /\ IInv'
           /\ \A s \in SquadIds : Listed(s)' =>
                leader'[s] = leader[s] \/ leader'[s] # NoOne
<1>1. dying # NoOne /\ dying' = NoOne /\ UNCHANGED strayed
  BY DEF DeathHandled
<1>2. NoOne \in Handle /\ NoOne \notin Bots
  BY BotsAssumption DEF Handle
<1>3. ASSUME NEW i \in DOMAIN squads, leader[squads[i]] = dying, ChangeLeader(squads[i])
      PROVE  IInv' /\ \A s \in SquadIds : Listed(s)' => leader'[s] = leader[s] \/ leader'[s] # NoOne
  <2>1. squads[i] \in SquadIds
    BY ElementOfSeq, LenProperties DEF IInv, TypeOK
  <2>2. CASE StaysOn(squads[i])
    BY <1>1, <1>3, <2>1, <2>2, NextLeaderKeeps
  <2>3. CASE ~StaysOn(squads[i])
    <3>1. Dissolve(squads[i])
      BY <1>3, <2>3 DEF ChangeLeader
    <3> QED
      BY <1>1, <1>2, <2>1, <3>1, DissolveKeeps
  <2> QED
    BY <2>2, <2>3
<1>4. CASE UNCHANGED <<squads, leader, members, mySquad>>
  <2>1. TypeOK' /\ PointersValid' /\ FollowersBelong' /\ StrayOnlyByDeath' /\ SquadsOnce'
    BY <1>1, <1>2, <1>4 DEF IInv, TypeOK, PointersValid, FollowersBelong, StrayOnlyByDeath,
                            SquadsOnce, Listed
  <2>2. DyingStrayed'
    BY <1>1, <1>2 DEF DyingStrayed
  <2> QED
    BY <1>4, <2>1, <2>2 DEF IInv
<1> QED
  BY <1>3, <1>4 DEF DeathHandled

LEMMA DisconnectKeeps ==
    ASSUME IInv, NEW p \in Players, Disconnect(p)
    PROVE  IInv' /\ \A s \in SquadIds : leader'[s] = leader[s] \/ leader[s] = p
<1>1. /\ leader' = [s \in SquadIds |-> IF leader[s] = p THEN NoOne ELSE leader[s]]
      /\ mySquad' = [b \in Bots |-> IF b = p THEN NoSquad ELSE mySquad[b]]
      /\ strayed' = strayed \ {p}
      /\ UNCHANGED <<squads, dying>> /\ dying = NoOne
  BY DEF Disconnect
<1>2. ASSUME NEW s \in SquadIds
      PROVE  /\ members'[s] \in Seq(Bots \cup {NoOne}) /\ Len(members'[s]) = Len(members[s])
             /\ \A y \in Bots : In(y, members'[s]) <=> In(y, members[s]) /\ y # p
             /\ OnceIn(members'[s], Bots)
  <2>1. members[s] \in Seq(Bots \cup {NoOne}) /\ OnceIn(members[s], Bots)
    BY DEF IInv, TypeOK, FollowersBelong
  <2>2. members'[s] = [i \in DOMAIN members[s] |->
                          IF members[s][i] = p THEN NoOne ELSE members[s][i]]
    BY DEF Disconnect
  <2> QED
    BY <2>1, <2>2, LeftFacts
<1>3. members' = [s \in SquadIds |-> members'[s]]
  BY DEF Disconnect
<1>4. members' \in [SquadIds -> Seq(Bots \cup {NoOne})]
  BY <1>2, <1>3
<1>5. TypeOK'
  <2>1. \A s \in SquadIds : Len(members'[s]) <= MaxMembers
    BY <1>2 DEF IInv, TypeOK
  <2>2. leader' \in [SquadIds -> Handle]
    BY <1>1 DEF IInv, TypeOK, Handle
  <2>3. mySquad' \in [Bots -> SquadIds \cup {NoSquad}] /\ strayed' \subseteq Bots
    BY <1>1 DEF IInv, TypeOK
  <2> QED
    BY <1>1, <1>4, <2>1, <2>2, <2>3 DEF IInv, TypeOK, Handle
<1>6. \A b \in Bots : mySquad'[b] = IF b = p THEN NoSquad ELSE mySquad[b]
  BY <1>1
<1>7. PointersValid' /\ SquadsOnce'
  BY <1>1, <1>6 DEF IInv, PointersValid, SquadsOnce, Listed
<1>8. FollowersBelong'
  BY <1>2, <1>6 DEF IInv, FollowersBelong
<1>9. StrayOnlyByDeath'
  <2>1. SUFFICES ASSUME NEW x \in Bots, x \notin strayed', mySquad'[x] # NoSquad
                 PROVE  leader'[mySquad'[x]] = x \/ In(x, members'[mySquad'[x]])
    BY DEF StrayOnlyByDeath
  <2>2. x # p /\ mySquad'[x] = mySquad[x] /\ mySquad[x] \in SquadIds /\ x \notin strayed
    BY <1>1, <1>6, <2>1 DEF IInv, TypeOK
  <2>3. leader[mySquad[x]] = x \/ In(x, members[mySquad[x]])
    BY <2>1, <2>2 DEF IInv, StrayOnlyByDeath
  <2> QED
    BY <1>1, <1>2, <2>2, <2>3
<1>10. DyingStrayed'
  BY <1>1, BotsAssumption DEF DyingStrayed
<1>11. \A s \in SquadIds : leader'[s] = leader[s] \/ leader[s] = p
  BY <1>1
<1> QED
  BY <1>5, <1>7, <1>8, <1>9, <1>10, <1>11 DEF IInv

\* What a step may do to the squads it leaves listed.
LeadersKept ==
    \A s \in SquadIds :
        Listed(s) /\ Listed(s)' /\ leader[s] # NoOne /\ leader'[s] = NoOne
           => Disconnect(leader[s]) \/ MapChange

LEMMA AddLeaders ==
    ASSUME NEW b \in Bots, NEW p \in Players, NEW stacks, AddSquadMember(stacks, p, b)
    PROVE  LeadersKept
<1>1. CASE NoSquadFor(stacks, b) \/ JoinSquadOf(stacks, p, b)
  BY <1>1 DEF NoSquadFor, JoinSquadOf, LeadersKept
<1>2. CASE MakeSquad(stacks, p, b)
  <2>1. PICK new \in SquadIds : ~Listed(new) /\ leader' = [leader EXCEPT ![new] = p]
    BY <1>2 DEF MakeSquad
  <2>2. \A s \in SquadIds : Listed(s) => leader'[s] = leader[s]
    BY <2>1
  <2> QED
    BY <2>2 DEF LeadersKept
<1> QED
  BY <1>1, <1>2 DEF AddSquadMember

LEMMA StepKeeps ==
    ASSUME IInv, [Next]_vars
    PROVE  IInv' /\ (LeadersKept \/ UNCHANGED vars)
<1>1. ASSUME NEW b \in Bots, NEW p \in Players, Join(b, p)
      PROVE  IInv' /\ LeadersKept
  <2>1. /\ dying = NoOne /\ b # p /\ mySquad[b] = NoSquad
        /\ AddSquadMember(members, p, b) /\ UNCHANGED dying
    BY <1>1 DEF Join
  <2>2. Facts(b, members)
    BY <2>1, IdsAssumption DEF Facts, IInv, TypeOK, FollowersBelong, StrayOnlyByDeath
  <2> QED
    BY <2>1, <2>2, AddKeeps, AddLeaders
<1>2. ASSUME NEW b \in Bots, NEW p \in Players, ChangeSquad(b, p)
      PROVE  IInv' /\ LeadersKept
  <2>1. /\ dying = NoOne /\ b # p /\ mySquad[b] # NoSquad
        /\ AddSquadMember(LeftStack(b), p, b) /\ UNCHANGED dying
    BY <1>2 DEF ChangeSquad
  <2>2. Facts(b, LeftStack(b))
    BY <2>1, LeftStackFacts
  <2> QED
    BY <2>1, <2>2, AddKeeps, AddLeaders
<1>3. ASSUME NEW b \in Bots, Displace(b)
      PROVE  IInv' /\ LeadersKept
  <2>1. /\ dying = NoOne /\ mySquad[b] # NoSquad
        /\ NoSquadFor(LeftStack(b), b) /\ UNCHANGED dying
    BY <1>3 DEF Displace
  <2>2. Facts(b, LeftStack(b))
    BY <2>1, LeftStackFacts
  <2> QED
    BY <2>1, <2>2, NoSquadKeeps DEF NoSquadFor, LeadersKept
<1>4. ASSUME NEW p \in Players, Die(p)
      PROVE  IInv' /\ LeadersKept
  BY <1>4, DieKeeps DEF LeadersKept
<1>5. ASSUME NEW p \in Players, Disconnect(p)
      PROVE  IInv' /\ LeadersKept
  BY <1>5, DisconnectKeeps DEF LeadersKept
<1>6. CASE DeathHandled
  BY <1>6, DeathHandledKeeps DEF LeadersKept
<1>7. CASE MapChange
  <2>1. Init'
    BY <1>7 DEF MapChange, Init
  <2>2. IInv'
    BY <2>1, InitIInv, PTL
  <2> QED
    BY <1>7, <2>2 DEF LeadersKept
<1>8. CASE UNCHANGED vars
  <2>1. UNCHANGED <<squads, leader, members, mySquad, dying, strayed>>
    BY <1>8 DEF vars
  <2>2. TypeOK' /\ PointersValid' /\ FollowersBelong' /\ StrayOnlyByDeath' /\ SquadsOnce'
        /\ DyingStrayed'
    BY <2>1 DEF IInv, TypeOK, PointersValid, FollowersBelong, StrayOnlyByDeath, SquadsOnce,
                Listed, DyingStrayed
  <2> QED
    BY <1>8, <2>2 DEF IInv
<1> QED
  BY <1>1, <1>2, <1>3, <1>4, <1>5, <1>6, <1>7, <1>8 DEF Next

THEOREM SpecIInv == Spec => []IInv
<1>1. IInv /\ [Next]_vars => IInv'
  BY StepKeeps
<1> QED
  BY <1>1, InitIInv, PTL DEF Spec

(* However squads are formed, left and dissolved, both sides hold what     *)
(* their types say.                                                        *)
THEOREM SquadsTyped == Spec => []TypeOK
<1>1. IInv => TypeOK
  BY DEF IInv
<1> QED
  BY <1>1, SpecIInv, PTL

(* For any number of players and squads no bot points to a squad that was  *)
(* dissolved.                                                              *)
THEOREM PointersStayValid == Spec => []PointersValid
<1>1. IInv => PointersValid
  BY DEF IInv
<1> QED
  BY <1>1, SpecIInv, PTL

(* For any number of players and squads a bot follows once, in the squad   *)
(* it points to.                                                           *)
THEOREM FollowersAgree == Spec => []FollowersBelong
<1>1. IInv => FollowersBelong
  BY DEF IInv
<1> QED
  BY <1>1, SpecIInv, PTL

(* For any number of players and squads a bot that points to a squad takes *)
(* part in it, unless it died since it came.                               *)
THEOREM NobodyStrays == Spec => []StrayOnlyByDeath
<1>1. IInv => StrayOnlyByDeath
  BY DEF IInv
<1> QED
  BY <1>1, SpecIInv, PTL

(* For any number of players and squads a squad loses its leader only when *)
(* he leaves the server.                                                   *)
THEOREM LeadersStay == Spec => LeaderlessOnlyByLeaving
<1>1. IInv /\ [Next]_vars => [LeadersKept]_vars
  BY StepKeeps
<1>2. Spec => [][LeadersKept]_vars
  BY <1>1, SpecIInv, PTL DEF Spec
<1>3. LeadersKept <=> \A s \in SquadIds :
         Listed(s) /\ Listed(s)' /\ leader[s] # NoOne /\ leader'[s] = NoOne
            => Disconnect(leader[s]) \/ MapChange
  BY DEF LeadersKept
<1> QED
  BY <1>2, <1>3, PTL DEF LeaderlessOnlyByLeaving
=============================================================================
