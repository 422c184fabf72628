---------------------------- MODULE MCNoteCapture ----------------------------
(***************************************************************************)
(* Small instances of NoteCapture for TLC.                                 *)
(***************************************************************************)
EXTENDS NoteCapture
=============================================================================
