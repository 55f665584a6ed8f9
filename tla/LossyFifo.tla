------------------------------ MODULE LossyFifo ------------------------------
(***************************************************************************)
(* The promise of the batching senders: items are numbered in the order in *)
(* which they are accepted; they come out in batches, in that order, each  *)
(* at most once.  Items may be lost but never overtake each other.         *)
(***************************************************************************)
EXTENDS Naturals, Sequences

VARIABLES
  accepted,   \* number of items accepted so far; item n is the n-th one
  output      \* the numbers of the items emitted so far

Increasing(s) == \A i, j \in DOMAIN s : i < j => s[i] < s[j]

Init ==
  /\ accepted = 0
  /\ output = <<>>

Accept ==
  /\ accepted' = accepted + 1
  /\ UNCHANGED output

\* Emit some items, all of them later than the ones emitted before.
Emit ==
  /\ Len(output') > Len(output)
  /\ \A i \in DOMAIN output : output'[i] = output[i]
  /\ \A i \in DOMAIN output' : output'[i] \in 1..accepted
  /\ Increasing(output')
  /\ UNCHANGED accepted

Next == Accept \/ Emit

Spec == Init /\ [][Next]_<<accepted, output>>
=============================================================================
