---------------------------- MODULE MCDataQueue ----------------------------
(* DataQueue on four heap cells and two payloads.                          *)
EXTENDS DataQueue, TLC

Symmetry == Permutations(Nodes)

=============================================================================
