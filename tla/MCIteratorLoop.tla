---------------------------- MODULE MCIteratorLoop ----------------------------
(* Two names with two matches each, and one with none.                     *)
EXTENDS IteratorLoop, TLC
CONSTANTS mine, other, none
MCMatching == mine :> {1, 3} @@ other :> {2, 3} @@ none :> {}
=============================================================================
