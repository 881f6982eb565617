---------------------------- MODULE ReasoningClaims ----------------------------
(***************************************************************************)
(* A statement the repository makes about the Trader's circuit breaker     *)
(* that the code, as modelled in ReasoningLoop, does not keep.             *)
(***************************************************************************)
EXTENDS MCReasoningLoop

\* "The circuit resets automatically on the next successful Trader decision"
\* (is_trader_circuit_open): a Trader that would decide whenever it is asked
\* closes it again.  An open circuit answers before the Trader is asked.
CircuitRecovers == CircuitOpen ~> ~CircuitOpen
=============================================================================
