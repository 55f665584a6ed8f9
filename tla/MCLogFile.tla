----------------------------- MODULE MCLogFile -----------------------------
(* LogFile for TLC.  The constants come from the .cfg files.               *)
EXTENDS LogFile
=============================================================================
