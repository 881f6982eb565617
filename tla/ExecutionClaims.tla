--------------------------- MODULE ExecutionClaims ---------------------------
(***************************************************************************)
(* Statements the repository makes about the execution engine that the     *)
(* engine, as modelled in ExecutionEngine, does not keep.                  *)
(***************************************************************************)
EXTENDS MCExecutionEngine

\* "protect on fill, cancel on expiry" (process_pending_entries): with nothing
\* failing, a filled pullback entry is under the sweep, protected or exited.
\* The entry that fills while its expiry is being cancelled is none of them.
ProtectedOnFill ==
  AtRest /\ faults = 0 =>
    \A d \in Pullback : entry[d] = "filled" =>
      d \in pending \/ Standing(d, "sl") \/ d \in exited

\* "no duplicate orders are placed" (_place_protective_subset): after a crash
\* the reconciler leaves at most one live order of each kind per position.
NoDuplicateProtection ==
  src = "reconcile" => \A d \in Decisions, k \in Kinds :
    Cardinality(LegsOf(d, k) \cap RestingLegs) <= 1
=============================================================================
