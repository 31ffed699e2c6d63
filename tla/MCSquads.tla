------------------------------ MODULE MCSquads ------------------------------
(***************************************************************************)
(* One human and three bots, who may form up to two squads.              *)
(***************************************************************************)
EXTENDS Squads, TLC

CONSTANTS h, b1, b2, b3, s1, s2

ThePlayers == {h, b1, b2, b3}
TheBots    == {b1, b2, b3}
TheSquads  == {s1, s2}

Symmetric == Permutations(TheBots) \cup Permutations(TheSquads)
=============================================================================
