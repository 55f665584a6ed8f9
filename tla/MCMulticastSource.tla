------------------------- MODULE MCMulticastSource -------------------------
(* MulticastSource for TLC.  The constants come from the .cfg files.        *)
EXTENDS MulticastSource
=============================================================================
