---------------------------- MODULE MCBotManager ----------------------------
(***************************************************************************)
(* Instances of BotManager: three slots, or two where liveness of puppets  *)
(* is checked.                                                             *)
(***************************************************************************)
EXTENDS BotManager, TLC

CONSTANTS s1, s2, s3, cheeseh

AllSlots == {s1, s2, s3}
TwoSlots == {s1, s2}
Symmetry == Permutations(AllSlots)

\* No limit, one bot, and more than there are slots; and limits that leave a
\* slot free.
SomeLimits == {-1, 1, 4}
LowLimits  == {-1, 1, 2}

\* Fewer bots the more humans there are.
TwoQuota   == (0 :> 2) @@ (1 :> 1) @@ (2 :> 0)
ThreeQuota == (0 :> 2) @@ (1 :> 1) @@ (2 :> 1) @@ (3 :> 0)
=============================================================================
