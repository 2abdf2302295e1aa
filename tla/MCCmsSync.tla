----------------------------- MODULE MCCmsSync -----------------------------
(***************************************************************************)
(* Small instances of CmsSync for TLC.                                     *)
(***************************************************************************)
EXTENDS CmsSync
=============================================================================
