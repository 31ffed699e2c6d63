------------------------------ MODULE QueueSpec ------------------------------
(***************************************************************************)
(* What the template dataQueue<T> of bot_genclass.h promises to its users  *)
(* (the task list of a schedule and the schedule list of a bot): a finite  *)
(* sequence that grows at either end, shrinks at the front, and from which *)
(* the first occurrence of a value can be taken out.  Each operation       *)
(* leaves its result in ret.                                               *)
(***************************************************************************)
EXTENDS Naturals, Sequences

CONSTANTS Values,    \* what the queue holds (pointers to tasks or schedules)
          MaxLength  \* bound on the length explored

VARIABLES contents,  \* the values, front first
          ret        \* the result of the last operation

qvars == <<contents, ret>>

Init == contents = <<>> /\ ret = FALSE

Add(v) ==
    /\ Len(contents) < MaxLength
    /\ contents' = Append(contents, v)
    /\ ret' = FALSE

AddFront(v) ==
    /\ Len(contents) < MaxLength
    /\ contents' = <<v>> \o contents
    /\ ret' = FALSE

RemoveFront ==
    /\ contents' = IF contents = <<>> THEN <<>> ELSE Tail(contents)
    /\ ret' = FALSE

\* The first occurrence of v goes, every other element keeps its place.
Remove(v) ==
    LET Hits == {i \in DOMAIN contents : contents[i] = v}
    IN  IF Hits = {}
        THEN contents' = contents /\ ret' = FALSE
        ELSE LET i == CHOOSE i \in Hits : \A j \in Hits : i <= j
             IN  /\ contents' = SubSeq(contents, 1, i - 1)
                                    \o SubSeq(contents, i + 1, Len(contents))
                 /\ ret' = TRUE

IsMember(v) ==
    /\ ret' = (\E i \in DOMAIN contents : contents[i] = v)
    /\ UNCHANGED contents

Destroy == contents' = <<>> /\ ret' = FALSE

Next ==
    \/ \E v \in Values : Add(v) \/ AddFront(v) \/ Remove(v) \/ IsMember(v)
    \/ RemoveFront
    \/ Destroy

Spec == Init /\ [][Next]_qvars
=============================================================================
