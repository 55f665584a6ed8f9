---------------------------- MODULE LossyDelivery ----------------------------
(***************************************************************************)
(* The weakest promise on mclog's delivery path: items are numbered in the *)
(* order in which a stage accepts them, and each comes out at most once.   *)
(* Items may be lost, and may overtake each other.                         *)
(***************************************************************************)
EXTENDS Naturals, Sequences

VARIABLES
  accepted,   \* number of items accepted so far; item n is the n-th one
  output      \* the numbers of the items emitted so far, in emission order

deliveryVars == <<accepted, output>>

Emitted == {output[i] : i \in DOMAIN output}

Init ==
  /\ accepted = 0
  /\ output = <<>>

Accept ==
  /\ accepted' = accepted + 1
  /\ UNCHANGED output

\* Emit one accepted item that was not emitted before.
Emit ==
  /\ \E n \in (1..accepted) \ Emitted : output' = Append(output, n)
  /\ UNCHANGED accepted

Next == Accept \/ Emit

Spec == Init /\ [][Next]_deliveryVars
=============================================================================
