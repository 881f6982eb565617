--------------------------- MODULE MCReasoningLoop ---------------------------
(***************************************************************************)
(* An instance of ReasoningLoop for TLC: a review of each band.            *)
(***************************************************************************)
EXTENDS ReasoningLoop, TLC

CONSTANTS Long, Short

BothDirections == {Long, Short}

Review0(valid, direction, score) == [valid |-> valid, direction |-> direction, score |-> score]

\* Rejected outright (synthetic, one direction), borderline, and valid under
\* the NORMAL gate only or under every gate.
SampleReviews ==
  {Review0(FALSE, Neutral, 2)} \cup
  {Review0(v, d, s) : v \in {FALSE}, d \in BothDirections, s \in {4}} \cup
  {Review0(TRUE, d, s) : d \in BothDirections, s \in {5, 6, 8}}

RegimeGates == {6, 7, 8}

DirectionSymmetry == Permutations(BothDirections)
=============================================================================
