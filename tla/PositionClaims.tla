---------------------------- MODULE PositionClaims ----------------------------
(***************************************************************************)
(* A statement the repository makes about position management that the     *)
(* loop, as modelled in PositionLoop, does not keep.                       *)
(***************************************************************************)
EXTENDS PositionLoop

\* "position left for reconciliation" (_full_exit): a position whose exposure
\* is gone, because its stop-loss triggered on the exchange, is eventually
\* removed.  Every full exit of it is refused, and nothing else removes it.
FlatPositionIsRemoved == (stored /\ qty = 0) ~> ~stored
=============================================================================
