---------------------------- MODULE MCFileLogger ----------------------------
(* FileLogger for TLC.  The constants come from the .cfg files.            *)
EXTENDS FileLogger
=============================================================================
