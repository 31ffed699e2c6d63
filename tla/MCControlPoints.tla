-------------------------- MODULE MCControlPoints --------------------------
(***************************************************************************)
(* A map with three points for ControlPoints, in two kinds of rounds: one  *)
(* where both teams work their way to the enemy's base, the middle point   *)
(* being nobody's, and one where Red defends the first two points.         *)
(***************************************************************************)
EXTENDS ControlPoints, TLC

CONSTANTS redBot, blueBot

BothTeams == (redBot :> Red) @@ (blueBot :> Blue)

BothCanCap == [t \in {Red, Blue} |-> 0 .. 2]

\* Red needs the middle point for the first, Blue the other two for the last.
BothPrevious ==
    (Red :> ((0 :> <<1>>) @@ (1 :> <<>>) @@ (2 :> <<2>>)))
    @@ (Blue :> ((0 :> <<0>>) @@ (1 :> <<>>) @@ (2 :> <<1, 0>>)))

BothBase == (Red :> 2) @@ (Blue :> 0)

\* All points, or the middle one only.
TwoOpenings == {0 .. 2, {1}}

MiddleReset == {<<1, Nobody>>}

TwoStarts ==
    {[owner |-> (0 :> Blue) @@ (1 :> Nobody) @@ (2 :> Red), open |-> 0 .. 2, round |-> 0 .. 2],
     [owner |-> [i \in 0 .. 2 |-> Red], open |-> 0 .. 2, round |-> {0, 1}]}

\* Areas set by hand, in another order than the points'; 3 = MaxPoints - 1 is the
\* last area that setup translates.
ByHand == {(0 :> 3) @@ (1 :> 1) @@ (2 :> 2)}
=============================================================================
