------------------------------ MODULE RiskRules ------------------------------
(***************************************************************************)
(* What the execution engine asks of a decision before it places an order: *)
(* the regime detector (spine/risk/volatility.py), the staleness checker,  *)
(* the risk validator with the position sizer, the exposure limiter and    *)
(* the liquidation calculator, and the tier registry.                      *)
(*                                                                         *)
(* Money is in whole units, quantities in lots of 1 / Lot (the code's      *)
(* quantum is 1e-8), z-scores in tenths; stop and target distances are in  *)
(* the units of TradeGeometry.                                             *)
(***************************************************************************)
EXTENDS TradeGeometry

CONSTANTS
  TierConfig,    \* per tier: [risk, exposure, confidence, leverage], in percent
  MaxPositions,  \* max_positions
  PausePct,      \* drawdown_pause_percent
  CloseAllPct,   \* drawdown_close_all_percent
  MaxMargin,     \* max_margin_ratio, in percent
  NotionalFloor, \* min_position_notional_usd
  Lot,           \* lots in a unit of quantity
  Mmr,           \* maintenance margin in percent of a notional, per bracket lookup
  EngineLeverage,\* default_leverage: what the engine validates with
  Staleness      \* staleness_thresholds_ms, in ticks of the clock, per regime

Regime == {"LOW", "NORMAL", "HIGH", "EXTREME"}
Tier   == {"TIER_1", "TIER_2", "TIER_3"}

ASSUME RiskAssumption ==
  /\ TierConfig \in [Tier -> [risk : Nat, exposure : Nat, confidence : 0..100, leverage : Nat \ {0}]]
  /\ MaxPositions \in Nat /\ PausePct \in Nat /\ CloseAllPct \in Nat /\ PausePct < CloseAllPct
  /\ MaxMargin \in Nat /\ NotionalFloor \in Nat /\ Lot \in Nat \ {0}
  /\ Mmr \in 0..100 /\ EngineLeverage \in Nat \ {0}
  /\ Staleness \in [Regime -> Nat]

-----------------------------------------------------------------------------
(* Regimes.                                                                *)

\* Thresholds are ordered, as RiskConfigSchema requires.
Thresholds == {t \in [low : Int, high : Int, extreme : Int] : t.low < t.high /\ t.high < t.extreme}

\* detect_regime; a history too short or without spread has the z-score 0.
RegimeOf(z, th) ==
  IF z < th.low THEN "LOW"
  ELSE IF z > th.extreme THEN "EXTREME"
  ELSE IF z > th.high THEN "HIGH"
  ELSE "NORMAL"

\* REGIME_SIZE_MULTIPLIERS, in percent, and the tier-aware variant.
SizeMultiplier(regime) ==
  CASE regime = "NORMAL" -> 100 [] regime = "HIGH" -> 50 [] OTHER -> 0
TierMultiplier(regime, tier) ==
  IF regime = "EXTREME" /\ tier = "TIER_1" THEN 25 ELSE SizeMultiplier(regime)

\* _REGIME_SEVERITY and the choice _validate_regime_drift makes.
Severity == [LOW |-> 1, NORMAL |-> 2, HIGH |-> 3, EXTREME |-> 4]
Stricter(r, s) == IF Severity[r] >= Severity[s] THEN r ELSE s

\* is_stale: an age below zero is stale too.
Stale(age, regime) == age < 0 \/ age > Staleness[regime]

-----------------------------------------------------------------------------
(* The checks of validate_trade, each with the name of what it refuses.    *)

Refused(name, cond) == IF cond THEN {name} ELSE {}

\* An account whose drawdown or positions cannot be read refuses the trade.
DrawdownRefusals(account) == Refused("drawdown", account.drawdown >= PausePct)

ExposureRefusals(held) == Refused("exposure", held.count >= MaxPositions \/ held.own)

RegimeRefusals(regime, tier) ==
  Refused("regime", regime = "LOW" \/ (regime = "EXTREME" /\ tier # "TIER_1"))

\* The stop's side needs no check: the distances below are positive.
StopRefusals(d) ==
  IF d.atr = 0 THEN {}
  ELSE Refused("stop_tight", d.stop < AtrStop(MinSlAtr, d.atr) \/ d.stop < MinSlPct * d.entry)
       \cup Refused("stop_wide", d.stop > AtrStop(MaxSlAtr, d.atr))

RewardRefusals(d) == Refused("reward", d.stop = 0 \/ d.target < MinRR * d.stop)

\* The distance to liquidation is entry * (1/leverage - Mmr) on either side;
\* the stop must lie before it and keep the buffer.
LiquidationRefusals(d, leverage) ==
  LET room == d.entry * (100 - Mmr * leverage) IN
  Refused("liquidation",
    leverage > 1 /\ \/ d.stop * leverage >= 100 * room
                    \/ d.stop * leverage > (100 - LiqBuffer) * room)

MarginRefusals(account) == Refused("margin", account.margin >= MaxMargin)

ConfidenceRefusals(d, tier) == Refused("confidence", d.confidence < TierConfig[tier].confidence)

-----------------------------------------------------------------------------
(* calculate_size.  The code cuts down to the lot after the floor and the  *)
(* cap, and cutting down commutes with taking a minimum or a maximum.      *)

RiskLots(account, d, tier, regime) ==
  (account.balance * TierConfig[tier].risk * SizeMultiplier(regime) * Lot) \div d.stop
FloorLots(d)          == (NotionalFloor * Lot) \div d.entry
CapLots(account, d, tier) ==
  (account.balance * TierConfig[tier].exposure * Lot) \div (100 * d.entry)
MarginLots(account, d) == (account.available * EngineLeverage * Lot) \div d.entry

Smaller(a, b) == IF a <= b THEN a ELSE b

\* Mutant: the floor is applied after the cap.
FloorLast(account, d, tier, regime) ==
  LET capped == Smaller(RiskLots(account, d, tier, regime), CapLots(account, d, tier))
  IN IF SizeMultiplier(regime) = 0 \/ account.balance = 0 THEN 0
     ELSE Smaller(Larger(capped, FloorLots(d)), MarginLots(account, d))

\* A size the regime has not zeroed is raised to the floor, then capped by the
\* tier's exposure and by the margin there is.
Sized(account, d, tier, regime) ==
  LET wanted == IF SizeMultiplier(regime) = 0 \/ account.balance = 0 THEN 0
                ELSE Larger(RiskLots(account, d, tier, regime), FloorLots(d))
  IN IF d.atr = 0 THEN 0
     ELSE Smaller(Smaller(wanted, CapLots(account, d, tier)), MarginLots(account, d))

\* _compute_recommended_size: a size still under the floor is a refusal.
UnderFloor(lots, d) == lots > 0 /\ lots * d.entry < NotionalFloor * Lot
=============================================================================
