---------------------------- MODULE PreTradeClaims ----------------------------
(***************************************************************************)
(* A statement of the repository that the risk checks do not keep.         *)
(***************************************************************************)
EXTENDS MCPreTrade

\* spine/risk/schemas.py:31-32: "TIER_1 symbols trade at 25% size in EXTREME
\* regime instead of being fully blocked", and validator.py:298: "TIER_1 allowed
\* through EXTREME with reduced sizing".  So a TIER_1 decision that no check has
\* refused, and that a NORMAL regime would give a size, has one in EXTREME too.
ExtremeTradesReduced ==
  exec # None /\ exec.check = "size" /\ exec.refusals = {} =>
    LET d == exec.d IN
    /\ SymbolTier = "TIER_1"
    /\ RegimeOf(d.z, EngineTh) = "EXTREME"
    /\ Sized(store.account, d, SymbolTier, "NORMAL") > 0
    => Sized(store.account, d, SymbolTier, "EXTREME") > 0
=============================================================================
