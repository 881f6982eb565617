-------------------------- MODULE ExecutionRefinement --------------------------
(***************************************************************************)
(* ExecutionEngine implements TradeLifecycle.  The phase of a trade is     *)
(* read off the queue and the exchange alone: nothing the loop keeps in    *)
(* memory or in Redis is part of what it promises.                         *)
(***************************************************************************)
EXTENDS ExecutionEngine

\* A protective order of this kind was sent, whatever became of it.
Sent(d, kind) == \E l \in LegsOf(d, kind) : leg[l] # "none"

\* The phase of an entry that has not filled.
Unfilled(status) ==
  IF status = "none" THEN "taken" ELSE IF status = "new" THEN "resting" ELSE status

PhaseOf(d) ==
  IF d \in queue THEN "queued"
  ELSE IF entry[d] # "filled" THEN Unfilled(entry[d])
  ELSE IF Sent(d, "tp") THEN "bracketed"
  ELSE IF Sent(d, "sl") THEN "stopped" ELSE "filled"

Lifecycle == INSTANCE TradeLifecycle
               WITH phase <- [d \in Decisions |-> PhaseOf(d)], exposure <- net

\* Every step of the loop, of the exchange, of a crash and of the recovery is
\* a step of the trade's life or leaves it alone (execute, _on_order_filled,
\* process_pending_entries, _close_position, reconcile).
ImplementsLifecycle == Lifecycle!LifecycleSpec
=============================================================================
