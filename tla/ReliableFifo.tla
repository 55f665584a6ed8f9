---------------------------- MODULE ReliableFifo ----------------------------
(***************************************************************************)
(* The promise of a stage that loses nothing it has accepted: items are    *)
(* numbered in the order in which they are accepted and come out in that   *)
(* order, each once, without gaps.                                         *)
(***************************************************************************)
EXTENDS Naturals, Sequences

VARIABLES
  accepted,   \* number of items accepted so far; item n is the n-th one
  output      \* the numbers of the items emitted so far

Init ==
  /\ accepted = 0
  /\ output = <<>>

Accept ==
  /\ accepted' = accepted + 1
  /\ UNCHANGED output

Emit ==
  /\ Len(output) < accepted
  /\ output' = Append(output, Len(output) + 1)
  /\ UNCHANGED accepted

Next == Accept \/ Emit

Spec == Init /\ [][Next]_<<accepted, output>>
=============================================================================
