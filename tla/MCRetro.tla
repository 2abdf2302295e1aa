------------------------------ MODULE MCRetro ------------------------------
(* Instances of Retro for TLC. *)
EXTENDS Retro, TLC

Symmetry ==
    Permutations(Sections) \cup Permutations(Users) \cup Permutations(Cards)
        \cup Permutations(Groups) \cup Permutations(Managers)
=============================================================================
