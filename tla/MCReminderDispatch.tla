------------------------- MODULE MCReminderDispatch -------------------------
(***************************************************************************)
(* Small instances of ReminderDispatch for TLC.                            *)
(***************************************************************************)
EXTENDS ReminderDispatch
=============================================================================
