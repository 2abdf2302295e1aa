--------------------------- MODULE MCPokerSession ---------------------------
(***************************************************************************)
(* Small instances of PokerSession for TLC.                                *)
(***************************************************************************)
EXTENDS PokerSession

Symmetry == Permutations(Tasks) \cup Permutations(Users)
=============================================================================
