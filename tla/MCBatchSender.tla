---------------------------- MODULE MCBatchSender ----------------------------
(* BatchSender for TLC.  The constants come from the .cfg files.           *)
EXTENDS BatchSender
=============================================================================
