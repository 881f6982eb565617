---------------------------- MODULE TradeGeometry ----------------------------
(***************************************************************************)
(* TradeGeometryCalculator (spine/execution/geometry.py): from the         *)
(* structure the Trader agent chooses (stop anchor, target style, entry    *)
(* tactic) to prices, or to a typed rejection; and estimate, the cheap     *)
(* check made before the Trader is asked.                                  *)
(*                                                                         *)
(* The code computes with Decimals.  Here prices and the ATR are in ticks, *)
(* stop distances in ten-thousandths of a tick and target distances in     *)
(* hundred-thousandths, so that every product is an exact integer and a    *)
(* quotient is only ever compared by multiplying across.                   *)
(***************************************************************************)
EXTENDS Integers, Sequences

CONSTANTS
  MinSlAtr,  \* min_sl_atr, in hundredths of the ATR
  MaxSlAtr,  \* max_sl_atr, likewise
  MinSlPct,  \* min_sl_percent, in hundredths of a percent of the price
  MinRR,     \* min_rr_ratio, in tenths
  LiqBuffer, \* liquidation_sl_buffer_ratio, in percent
  MaxTpAtr,  \* MAX_TP_ATR, in ATRs
  SlBuffer   \* SL_LEVEL_BUFFER_ATR, in hundredths of the ATR

ASSUME GeometryAssumption ==
  /\ MinSlAtr \in Nat \ {0} /\ MaxSlAtr \in Nat /\ MinSlAtr < MaxSlAtr
  /\ MinSlPct \in Nat /\ MinRR \in Nat \ {0} /\ MaxTpAtr \in Nat /\ MaxTpAtr >= 3
  /\ LiqBuffer \in 0..100 /\ SlBuffer \in Nat

Absent == 0
Sides  == {"LONG", "SHORT"}

\* What the Trader may choose.  An index or a multiplier of 0 is an absent one:
\* the indices below count from 1, where the code's count from 0.
Structure ==
  [side : Sides, tactic : {"IMMEDIATE", "PULLBACK_TO_LEVEL"},
   target : {"STRUCTURAL", "ATR_2X", "ATR_3X"},
   entryLevel : Nat, stopLevel : Nat, stopAtr : Nat]

Level == [type : {"SUPPORT", "RESISTANCE"}, price : Nat \ {0}]

\* GeometryInputsSchema; an ATR that is missing or not positive is 0.
Inputs == [price : Nat \ {0}, atr : Nat, levels : Seq(Level), leverage : Nat \ {0}]

Larger(a, b) == IF a >= b THEN a ELSE b
Gap(a, b)    == IF a >= b THEN a - b ELSE b - a

Rejection(code) == [ok |-> FALSE, code |-> code]

-----------------------------------------------------------------------------
(* Distances.                                                              *)

StopUnits(ticks)   == 10000 * ticks
TargetUnits(ticks) == 100000 * ticks

\* _min_stop_distance and the ceiling it is compared with.
AtrStop(mult, atr)        == 100 * (mult * atr)
MinStopDistance(ref, atr) == Larger(AtrStop(MinSlAtr, atr), MinSlPct * ref)
MaxStopDistance(atr)      == AtrStop(MaxSlAtr, atr)

\* _liquidation_budget: at a leverage of 1 there is none.
ExceedsLiquidationBudget(stop, entry, leverage) ==
  leverage > 1 /\ stop * leverage > (100 * entry) * (100 - LiqBuffer)

\* The target that reaches the minimum reward to risk, and the ATR's reach.
RequiredTarget(stop)    == MinRR * stop
TargetAtr(mult, atr)    == TargetUnits(mult * atr)

\* The levels a trade may stop behind, and those it may aim at.
Anchors(side, level, ref) ==
  IF side = "LONG" THEN level.type = "SUPPORT" /\ level.price < ref
                   ELSE level.type = "RESISTANCE" /\ level.price > ref
ProfitDistances(side, ref, levels) ==
  {TargetUnits(Gap(levels[i].price, ref)) :
     i \in {j \in DOMAIN levels :
       IF side = "LONG" THEN levels[j].type = "RESISTANCE" /\ levels[j].price > ref
                        ELSE levels[j].type = "SUPPORT" /\ levels[j].price < ref}}

Qualifying(side, ref, levels, required) ==
  {d \in ProfitDistances(side, ref, levels) : d >= required}

\* The least of a set of distances, as a set: empty when the set is.
Nearest(distances) == {d \in distances : \A e \in distances : d <= e}

-----------------------------------------------------------------------------
(* compute.                                                                *)

EntryLevelUsable(s, in) ==
  /\ s.entryLevel \in DOMAIN in.levels
  /\ Anchors(s.side, in.levels[s.entryLevel], in.price)

EntryPrice(s, in) ==
  IF s.tactic = "IMMEDIATE" THEN in.price ELSE in.levels[s.entryLevel].price

\* The stop the Trader asks for: a level goes before a multiplier.
StopUsable(s, in, entry) ==
  IF s.stopLevel # Absent
  THEN s.stopLevel \in DOMAIN in.levels /\ Anchors(s.side, in.levels[s.stopLevel], entry)
  ELSE s.stopAtr # Absent /\ s.stopAtr \in MinSlAtr..MaxSlAtr

AskedStop(s, in, entry) ==
  IF s.stopLevel # Absent
  THEN StopUnits(Gap(entry, in.levels[s.stopLevel].price)) + AtrStop(SlBuffer, in.atr)
  ELSE AtrStop(s.stopAtr, in.atr)

\* Mutant: the stop that was asked for is kept, however tight.
StopAsAsked(s, in, entry) == AskedStop(s, in, entry)

\* A stop inside the floor is widened to it.
StopDistance(s, in, entry) ==
  Larger(AskedStop(s, in, entry), MinStopDistance(entry, in.atr))

\* What the chosen style offers, as a set of at most one distance.
StyleTarget(s, in, entry, stop) ==
  LET atrTarget == TargetAtr(IF s.target = "ATR_2X" THEN 2 ELSE 3, in.atr)
  IN IF s.target = "STRUCTURAL"
     THEN Nearest(Qualifying(s.side, entry, in.levels, RequiredTarget(stop)))
     ELSE {t \in {atrTarget} : t >= RequiredTarget(stop)}

\* _resolve_target_distance: the style's target, else the one that just pays
\* for the risk, unless that lies out of the ATR's reach.
TargetDistance(s, in, entry, stop) ==
  LET offered == StyleTarget(s, in, entry, stop)
  IN IF offered # {} THEN offered
     ELSE {t \in {RequiredTarget(stop)} : t <= TargetAtr(MaxTpAtr, in.atr)}

\* _assemble: the price that lies a distance below must be positive.
Positive(s, entry, stop, target) ==
  IF s.side = "LONG" THEN stop < StopUnits(entry) ELSE target < TargetUnits(entry)

Compute(s, in) ==
  LET entry   == EntryPrice(s, in)
      stop    == StopDistance(s, in, entry)
      targets == TargetDistance(s, in, entry, stop)
  IN IF in.atr = 0 THEN Rejection("NO_ATR")
     ELSE IF s.tactic # "IMMEDIATE" /\ ~ EntryLevelUsable(s, in)
          THEN Rejection("INVALID_STRUCTURE")
     ELSE IF ~ StopUsable(s, in, entry) THEN Rejection("INVALID_STRUCTURE")
     ELSE IF stop > MaxStopDistance(in.atr) THEN Rejection("SL_TOO_WIDE")
     ELSE IF ExceedsLiquidationBudget(stop, entry, in.leverage)
          THEN Rejection("SL_BEYOND_LIQUIDATION")
     ELSE IF targets = {} THEN Rejection("TP_UNREACHABLE")
     ELSE LET target == CHOOSE t \in targets : TRUE IN
       IF ~ Positive(s, entry, stop, target) THEN Rejection("TP_UNREACHABLE")
       ELSE [ok |-> TRUE, side |-> s.side, tactic |-> s.tactic, entry |-> entry,
             stop |-> stop, target |-> target]

-----------------------------------------------------------------------------
(* estimate.                                                               *)

\* Mutant: only the reach of the ATR is considered.
AtrReach(side, in) == {TargetAtr(MaxTpAtr, in.atr)}

\* The targets any structure could be given.
Reach(side, in) ==
  {TargetAtr(MaxTpAtr, in.atr)} \cup ProfitDistances(side, in.price, in.levels)

\* A "not viable" verdict spares the Trader's call.
Viable(side, in) ==
  LET floor == MinStopDistance(in.price, in.atr) IN
  /\ in.atr > 0
  /\ floor <= MaxStopDistance(in.atr)
  /\ ~ ExceedsLiquidationBudget(floor, in.price, in.leverage)
  /\ \E best \in Reach(side, in) : best >= RequiredTarget(floor)

-----------------------------------------------------------------------------
(* What the calculator promises, and what the risk validator will ask.     *)

\* A geometry has a stop within the configured bounds and a target that is
\* worth its risk: the guarantee the calculator's docstring gives.
Sound(g, in) ==
  /\ AtrStop(MinSlAtr, in.atr) <= g.stop /\ g.stop <= AtrStop(MaxSlAtr, in.atr)
  /\ MinSlPct * g.entry <= g.stop
  /\ g.target >= MinRR * g.stop
  /\ ~ ExceedsLiquidationBudget(g.stop, g.entry, in.leverage)
=============================================================================
