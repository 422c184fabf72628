------------------------- MODULE MCSharedConnection -------------------------
(***************************************************************************)
(* Small instances of SharedConnection for TLC.                            *)
(***************************************************************************)
EXTENDS SharedConnection
=============================================================================
