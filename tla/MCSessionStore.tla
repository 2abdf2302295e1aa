--------------------------- MODULE MCSessionStore ---------------------------
(***************************************************************************)
(* Small instances of SessionStore for TLC.                                *)
(***************************************************************************)
EXTENDS SessionStore

Symmetry == Permutations(Handlers) \cup Permutations(Users) \cup Permutations(Tasks)
=============================================================================
