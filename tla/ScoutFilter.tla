----------------------------- MODULE ScoutFilter -----------------------------
(***************************************************************************)
(* ScoutFilter (spine/filters/scout.py): the deterministic filter that     *)
(* decides which symbols are worth an Analyst.  Four gates, then six       *)
(* criteria in order; the first that fires names the pattern.              *)
(*                                                                         *)
(* Percentages are in hundredths of a percent, ratios, %B and the RSI in   *)
(* hundredths; a quotient is compared by multiplying across.  A missing    *)
(* indicator is None.                                                      *)
(***************************************************************************)
EXTENDS Integers, Sequences, FiniteSets

CONSTANTS
  Scout, \* ScoutConfigSchema
  None   \* an indicator that is not there

Regimes  == {"LOW", "NORMAL", "HIGH", "EXTREME"}
Tiers    == {"TIER_1", "TIER_2", "TIER_3"}
Patterns == <<"BREAKOUT", "TREND_CONTINUATION", "REVERSAL", "VOLUME_SPIKE",
              "MOMENTUM_SHIFT", "TREND_PULLBACK">>

Pattern == {Patterns[i] : i \in DOMAIN Patterns}

ScoutConfig ==
  [blocked : SUBSET Regimes, extremeAllowed : SUBSET Pattern,
   atrPctMin : Nat, atrPercentile : 0..100, atrMinSamples : Nat \ {0},
   volHardSkip : Nat, breakoutVol : Nat, breakoutMargin : Nat, emaSpread : Nat,
   trendRsiLow : Nat, trendRsiHigh : Nat, trendVol : Nat,
   oversold : Nat, overbought : Nat, reversalLower : Nat, reversalUpper : Nat,
   spikeVol : Nat, spikeBody : Nat, spikeRsiLow : Nat, spikeRsiHigh : Nat,
   spikeLower : Nat, spikeUpper : Nat, momentumCandles : Nat \ {0, 1},
   pullbackChange : Nat, minCandles : Nat \ {0, 1}, window : Nat \ {0, 1},
   minConfirming : Nat \ {0}]

ASSUME ScoutAssumption == Scout \in ScoutConfig

\* What the indicators say of the latest candle; there is one, and the candles
\* that the criteria look back on end with it.
CandleData == [open : Int, close : Int, high : Int, low : Int]
Averages   == [1..3 -> Int]
Bands      == [lower : Int, upper : Int]
Views ==
  [pctB : Int \cup {None}, vol : Nat \cup {None}, rsi : Int \cup {None},
   ema : Averages \cup {None}, histogram : Int \cup {None},
   candles : Seq(CandleData) \ {<<>>}, atrHistory : Seq(Nat), bollinger : Bands \cup {None}]

Magnitude(x) == IF x >= 0 THEN x ELSE 0 - x

-----------------------------------------------------------------------------
(* The indicators a criterion reads.                                       *)

\* _ema_alignment: ordered averages, spread widely enough.
Alignment(ema) ==
  LET spreads == Magnitude(ema[1] - ema[3]) * 10000 >= Scout.emaSpread * ema[3] IN
  IF ema = None \/ ~ spreads THEN "NEUTRAL"
  ELSE IF ema[1] > ema[2] /\ ema[2] > ema[3] THEN "BULLISH"
  ELSE IF ema[1] < ema[2] /\ ema[2] < ema[3] THEN "BEARISH"
  ELSE "NEUTRAL"

Latest(candles) == candles[Len(candles)]
Tail2(candles, n) == SubSeq(candles, Len(candles) - n + 1, Len(candles))

\* _candle_body_ratio: a candle without a range has none.
BodyAtLeast(candle, ratio) ==
  IF candle.high = candle.low THEN ratio = 0
  ELSE Magnitude(candle.close - candle.open) * 100 >= ratio * (candle.high - candle.low)

\* _short_term_momentum_confirms: enough of the last moves go with the trend.
MomentumConfirms(candles, alignment) ==
  LET recent == Tail2(candles, Scout.window)
      Confirms(i) == IF alignment = "BULLISH"
                     THEN recent[i].close >= recent[i - 1].close
                     ELSE recent[i].close <= recent[i - 1].close
  IN \/ Len(candles) < Scout.window
     \/ Cardinality({i \in 2..Len(recent) : Confirms(i)}) >= Scout.minConfirming

-----------------------------------------------------------------------------
(* The criteria.                                                           *)

Breakout(in) ==
  /\ in.pctB # None /\ in.vol # None
  /\ in.vol >= Scout.breakoutVol
  /\ \/ in.pctB >= 100 + Scout.breakoutMargin
     \/ in.pctB <= 0 - Scout.breakoutMargin

TrendContinuation(in) ==
  /\ Alignment(in.ema) # "NEUTRAL"
  /\ in.rsi # None /\ in.vol # None
  /\ Scout.trendRsiLow <= in.rsi /\ in.rsi <= Scout.trendRsiHigh
  /\ in.vol >= Scout.trendVol

Reversal(in) ==
  /\ in.rsi # None /\ in.pctB # None
  /\ in.rsi < Scout.oversold \/ in.rsi > Scout.overbought
  /\ in.pctB < Scout.reversalLower \/ in.pctB > Scout.reversalUpper

VolumeSpike(in) ==
  /\ in.vol # None /\ in.vol >= Scout.spikeVol
  /\ in.candles # <<>> /\ BodyAtLeast(Latest(in.candles), Scout.spikeBody)
  /\ \/ Alignment(in.ema) # "NEUTRAL"
     \/ in.rsi # None /\ (in.rsi < Scout.spikeRsiLow \/ in.rsi > Scout.spikeRsiHigh)
     \/ in.pctB # None /\ (in.pctB < Scout.spikeLower \/ in.pctB > Scout.spikeUpper)

\* All the candles before the latest went against the histogram's sign.
MomentumShift(in) ==
  LET last == Tail2(in.candles, Scout.momentumCandles) IN
  /\ in.histogram # None /\ Len(in.candles) >= Scout.momentumCandles
  /\ \A i \in 1..Len(last) - 1 : IF in.histogram > 0
                                 THEN last[i].close < last[i].open
                                 ELSE last[i].close > last[i].open

TrendPullback(in) ==
  LET alignment == Alignment(in.ema)
      first     == in.candles[1].close
      change    == Latest(in.candles).close - first
  IN /\ alignment # "NEUTRAL"
     /\ Len(in.candles) >= Scout.minCandles /\ first # 0
     /\ IF alignment = "BULLISH" THEN change > 0 ELSE change < 0
     /\ Magnitude(change) * 10000 >= Scout.pullbackChange * first
     /\ MomentumConfirms(in.candles, alignment)

Fires(pattern, in) ==
  CASE pattern = "BREAKOUT"           -> Breakout(in)
    [] pattern = "TREND_CONTINUATION" -> TrendContinuation(in)
    [] pattern = "REVERSAL"           -> Reversal(in)
    [] pattern = "VOLUME_SPIKE"       -> VolumeSpike(in)
    [] pattern = "MOMENTUM_SHIFT"     -> MomentumShift(in)
    [] pattern = "TREND_PULLBACK"     -> TrendPullback(in)

-----------------------------------------------------------------------------
(* The gates.                                                              *)

\* A blocked regime, except EXTREME for a TIER_1 symbol.
Blocked(regime, tier) ==
  regime \in Scout.blocked /\ ~ (regime = "EXTREME" /\ tier = "TIER_1")

\* A blocked EXTREME regime still lets a list of patterns through.
ByPatternOnly(regime, tier) ==
  Blocked(regime, tier) /\ regime = "EXTREME" /\ Scout.extremeAllowed # {}

RegimePasses(regime, tier) == Blocked(regime, tier) => ByPatternOnly(regime, tier)

\* _effective_atr_threshold: the floor, or the percentile of the history.
AtrThreshold(history) ==
  LET n      == Len(history)
      index  == (n * Scout.atrPercentile) \div 100
      rank   == IF index < n THEN index ELSE n - 1
      Below(v) == Cardinality({i \in 1..n : history[i] < v})
      UpTo(v)  == Cardinality({i \in 1..n : history[i] <= v})
      sample   == CHOOSE v \in {history[i] : i \in 1..n} : Below(v) <= rank /\ rank < UpTo(v)
  IN IF n < Scout.atrMinSamples \/ sample < Scout.atrPctMin THEN Scout.atrPctMin ELSE sample

\* Without an ATR the gate has nothing to compare.
AtrPasses(atr, price, history) ==
  atr # None /\ price # 0 => atr * 10000 >= AtrThreshold(history) * price

VolumePasses(vol) == vol # None => vol >= Scout.volHardSkip

\* Mutant: the search ends at the first criterion, on the list or not.
FirstMatch(regime, tier, in) ==
  {i \in DOMAIN Patterns :
     /\ Fires(Patterns[i], in)
     /\ \A j \in 1..i - 1 : ~ Fires(Patterns[j], in)
     /\ ByPatternOnly(regime, tier) => Patterns[i] \in Scout.extremeAllowed}

\* The criteria that fire and, in a blocked EXTREME, are on the list.
Matches(regime, tier, in) ==
  {i \in DOMAIN Patterns :
     /\ Fires(Patterns[i], in)
     /\ ByPatternOnly(regime, tier) => Patterns[i] \in Scout.extremeAllowed}

Interesting(regime, tier, atr, price, in) ==
  /\ RegimePasses(regime, tier)
  /\ AtrPasses(atr, price, in.atrHistory)
  /\ VolumePasses(in.vol)
  /\ Matches(regime, tier, in) # {}

\* The pattern is the first of them.
PatternOf(regime, tier, in) ==
  Patterns[CHOOSE i \in Matches(regime, tier, in) : \A j \in Matches(regime, tier, in) : i <= j]
=============================================================================
