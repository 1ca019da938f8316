---------------------------- MODULE MCHeldStrings -----------------------------
(* Three names with a knob, two of them the same one, and one without; a    *)
(* file that is in the second directory, and another that is nowhere.      *)
EXTENDS HeldStrings, TLC
CONSTANTS k, also, m, unknown, d1, d2, here, nowhere
MCOwner == k :> k @@ also :> k @@ m :> m @@ unknown :> None
MCTexts == {<<here>>, <<nowhere>>}
MCDirs == <<d1, d2>>
MCDisk == {<<d2, here>>}
=============================================================================
