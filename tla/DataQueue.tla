------------------------------ MODULE DataQueue ------------------------------
(***************************************************************************)
(* The template dataQueue<T> of bot_genclass.h: a singly linked list with a *)
(* head and a tail pointer.  Nodes are heap cells; live holds those that   *)
(* were allocated with new and not deleted yet.                            *)
(***************************************************************************)
EXTENDS Naturals, Sequences, FiniteSets

CONSTANTS Nodes,   \* the heap cells
          Values,  \* the payload type T
          NULL     \* the null pointer

ASSUME NullAssumption == NULL \notin Nodes

\* The heap is bounded.
ASSUME NodesAssumption == IsFiniteSet(Nodes)

VARIABLES head, tail,  \* m_Head, m_Tail
          next, data,  \* m_Next and m_NodeData of every cell
          live,        \* allocated cells
          ret          \* result of the last operation

queueVars == <<head, tail, next, data, live, ret>>

Pointers == Nodes \cup {NULL}

IsEmpty == head = NULL \/ tail = NULL

\* The pointer k steps behind m_Head; NULL past the end.
CellAt == LET step[k \in 0 .. Cardinality(Nodes)] ==
              IF k = 0 THEN head
              ELSE IF step[k - 1] = NULL THEN NULL ELSE next[step[k - 1]]
        IN  step

ChainLength == Cardinality({k \in DOMAIN CellAt : CellAt[k] # NULL})

\* The cells reachable from m_Head, in list order.
Chain == [k \in 1 .. ChainLength |-> CellAt[k - 1]]

Contents == [k \in DOMAIN Chain |-> data[Chain[k]]]

Hits(v) == {k \in DOMAIN Chain : data[Chain[k]] = v}

LastHit(v)  == CHOOSE k \in Hits(v) : \A j \in Hits(v) : k >= j
FirstHit(v) == CHOOSE k \in Hits(v) : \A j \in Hits(v) : k <= j

\* m_Tail once the cell del, which follows prev, is unlinked.
KeepTail(del, prev)    == tail
TailWithout(del, prev) == IF del = tail THEN prev ELSE tail

\* delete of a cell.
Leak(n) == live
Free(n) == live \ {n}

QueueInit ==
    /\ head = NULL /\ tail = NULL
    /\ next = [n \in Nodes |-> NULL]
    /\ data \in [Nodes -> {CHOOSE v \in Values : TRUE}]
    /\ live = {}
    /\ ret = FALSE

Allocate(n, v) ==
    /\ n \notin live
    /\ live' = live \cup {n}
    /\ data' = [data EXCEPT ![n] = v]
    /\ ret' = FALSE

Add(v) == \E n \in Nodes :
    /\ Allocate(n, v)
    /\ tail' = n
    /\ IF IsEmpty
       THEN head' = n /\ next' = [next EXCEPT ![n] = NULL]
       ELSE head' = head /\ next' = [next EXCEPT ![n] = NULL, ![tail] = n]

AddFront(v) == \E n \in Nodes :
    /\ Allocate(n, v)
    /\ head' = n
    /\ next' = [next EXCEPT ![n] = head]
    /\ tail' = IF head = NULL THEN n ELSE tail

RemoveFront ==
    /\ ret' = FALSE
    /\ UNCHANGED data
    /\ IF head = NULL
       THEN tail' = NULL /\ UNCHANGED <<head, next, live>>
       ELSE /\ IF head = tail
               THEN head' = NULL /\ tail' = NULL
               ELSE head' = next[head] /\ tail' = tail
            /\ next' = [next EXCEPT ![head] = NULL]
            /\ live' = Free(head)

\* The head is unlinked like in RemoveFront; a later cell is unlinked from
\* the cell in front of it, which becomes the tail if the last one went.
RemoveValue(v) ==
    /\ UNCHANGED data
    /\ IF Hits(v) = {}
       THEN ret' = FALSE /\ UNCHANGED <<head, tail, next, live>>
       ELSE LET k   == FirstHit(v)
                del == Chain[k]
            IN  /\ ret' = TRUE
                /\ live' = Free(del)
                /\ IF k = 1
                   THEN /\ next' = [next EXCEPT ![del] = NULL]
                        /\ IF head = tail
                           THEN head' = NULL /\ tail' = NULL
                           ELSE head' = next[head] /\ tail' = tail
                   ELSE LET prev == Chain[k - 1]
                        IN  /\ head' = head
                            /\ tail' = TailWithout(del, prev)
                            /\ next' = [next EXCEPT ![prev] =
                                   IF del = tail THEN NULL ELSE next[del]]

IsMember(v) ==
    /\ ret' = (Hits(v) # {})
    /\ UNCHANGED <<head, tail, next, data, live>>

Destroy ==
    /\ head' = NULL /\ tail' = NULL
    /\ live' = live \ {Chain[k] : k \in DOMAIN Chain}
    /\ next' = [n \in Nodes |-> IF \E k \in DOMAIN Chain : Chain[k] = n
                                THEN NULL ELSE next[n]]
    /\ ret' = FALSE
    /\ UNCHANGED data

QueueNext ==
    \/ \E v \in Values : Add(v) \/ AddFront(v) \/ RemoveValue(v) \/ IsMember(v)
    \/ RemoveFront
    \/ Destroy

ListSpec == QueueInit /\ [][QueueNext]_queueVars
-----------------------------------------------------------------------------
(* Ownership: the cells allocated and not deleted are exactly those in the *)
(* list, so no operation leaks a cell and none leaves a deleted one linked. *)
Owned == live = {Chain[k] : k \in DOMAIN Chain}

(* m_Tail is the last cell of the list and both ends are null together:    *)
(* the invariant Add relies on when it writes m_Tail->m_Next.              *)
TailIsLast ==
    /\ (head = NULL) <=> (tail = NULL)
    /\ head # NULL => Chain[Len(Chain)] = tail /\ next[tail] = NULL

(* The linked list implements the sequence its users reason about.         *)
Abstract == INSTANCE QueueSpec WITH contents <- Contents,
                                    MaxLength <- Cardinality(Nodes)
Refines == Abstract!Spec
=============================================================================
