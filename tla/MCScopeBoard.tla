---------------------------- MODULE MCScopeBoard ----------------------------
(* ScopeBoard with a few boards, questions and issues.                     *)
EXTENDS ScopeBoard, TLC

Symmetry == Permutations(Handlers) \cup Permutations(Release)
=============================================================================
