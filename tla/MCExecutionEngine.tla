------------------------- MODULE MCExecutionEngine -------------------------
(***************************************************************************)
(* Instances of ExecutionEngine for TLC.  d1 is a pullback decision, d2    *)
(* one that enters at market, c1 a CLOSE decision, all on symbol s1.       *)
(***************************************************************************)
EXTENDS ExecutionRefinement, TLC

CONSTANTS d1, d2, c1, s1, p1, p2, p3

TwoDecisions == [d \in {d1, d2, c1} |-> s1]
OneDecision  == [d \in {d1, c1} |-> s1]

SlotSymmetry == Permutations(Slots)
=============================================================================
