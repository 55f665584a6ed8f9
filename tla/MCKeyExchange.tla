---------------------------- MODULE MCKeyExchange ----------------------------
(* KeyExchange for TLC.  The constants come from the .cfg files.           *)
EXTENDS KeyExchange
=============================================================================
