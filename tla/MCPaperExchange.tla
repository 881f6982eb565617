--------------------------- MODULE MCPaperExchange ---------------------------
(***************************************************************************)
(* An instance of PaperExchange for TLC.  The amounts are such that the    *)
(* margin of up to two orders divides by their quantity, so that the       *)
(* rounding of a partial close does not show.                              *)
(***************************************************************************)
EXTENDS PaperExchange, TLC

TickerPrices    == {12, 24}
OrderQuantities == {2, 4}
SetLeverages    == {1, 2}

MarginsOf(q) == {(p * q) \div l : p \in Prices, l \in Leverages}

ASSUME MarginsDivide ==
  \A q1, q2 \in Quantities : \A m1 \in MarginsOf(q1), m2 \in MarginsOf(q2) :
    m1 % q1 = 0 /\ (m1 + m2) % (q1 + q2) = 0
=============================================================================
