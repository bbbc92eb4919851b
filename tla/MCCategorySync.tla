--------------------------- MODULE MCCategorySync ---------------------------
(***************************************************************************)
(* The name of an item's directory stands for the item; what the user      *)
(* makes has one of these names or another.                                *)
(***************************************************************************)
EXTENDS CategorySync, TLC

CONSTANTS i1, i2, a, b, c1, c2, c3

MCDirName == [i \in Items |-> i]

Symmetry == Permutations(Items) \cup Permutations(Calls) \cup Permutations(Categories \ {Unmatched})
=============================================================================
