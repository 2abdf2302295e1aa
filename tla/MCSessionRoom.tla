--------------------------- MODULE MCSessionRoom ---------------------------
(***************************************************************************)
(* Small instances of SessionRoom for TLC.                                 *)
(***************************************************************************)
EXTENDS SessionRoom
=============================================================================
