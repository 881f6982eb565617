------------------------------ MODULE MCPreTrade ------------------------------
(***************************************************************************)
(* PreTrade for TLC: candles, answers and accounts chosen so that each     *)
(* gate, each rejection of the geometry and each clamp of the sizer meets  *)
(* both sides of its bound.  The filters have the values of                *)
(* config/config.yaml, which asks less of a LONG in fear than of a SHORT   *)
(* in greed.                                                               *)
(***************************************************************************)
EXTENDS PreTrade

DefaultThresholds == [low |-> -15, high |-> 10, extreme |-> 20]
TunedThresholds   == [low |-> -10, high |-> 8, extreme |-> 18]

Tiered == [TIER_1 |-> [risk |-> 4, exposure |-> 80, confidence |-> 65, leverage |-> 10],
           TIER_2 |-> [risk |-> 3, exposure |-> 50, confidence |-> 65, leverage |-> 3],
           TIER_3 |-> [risk |-> 2, exposure |-> 10, confidence |-> 85, leverage |-> 2]]

StalenessTicks == [LOW |-> 2, NORMAL |-> 1, HIGH |-> 1, EXTREME |-> 0]

ScoutValues ==
  [blocked |-> {"EXTREME"}, extremeAllowed |-> {"TREND_CONTINUATION", "REVERSAL"},
   atrPctMin |-> 8, atrPercentile |-> 25, atrMinSamples |-> 3,
   volHardSkip |-> 30, breakoutVol |-> 150, breakoutMargin |-> 5, emaSpread |-> 10,
   trendRsiLow |-> 3500, trendRsiHigh |-> 6500, trendVol |-> 80,
   oversold |-> 3000, overbought |-> 7000, reversalLower |-> 10, reversalUpper |-> 90,
   spikeVol |-> 200, spikeBody |-> 50, spikeRsiLow |-> 3500, spikeRsiHigh |-> 6500,
   spikeLower |-> 15, spikeUpper |-> 85, momentumCandles |-> 3,
   pullbackChange |-> 150, minCandles |-> 3, window |-> 3, minConfirming |-> 1]

FilterValues ==
  [crowdedLong |-> [TIER_1 |-> 20, TIER_2 |-> 25, TIER_3 |-> 30],
   crowdedShort |-> [TIER_1 |-> -20, TIER_2 |-> -25, TIER_3 |-> -30],
   minBody |-> 30, spikeBody |-> 150, movementBypass |-> 7,
   fear |-> 5, greed |-> 90, fearBypass |-> 9,
   elevatedFear |-> 25, elevatedFearMin |-> 6, elevatedGreed |-> 75, elevatedGreedMin |-> 7,
   minAlgo |-> 3, stretchedLong |-> 120, stretchedShort |-> -20]

Candle(open, close) ==
  [open |-> open, close |-> close,
   high |-> Larger(open, close), low |-> Smaller(open, close)]

\* A trend, an overshoot downwards, a pullback under a rising trend, and a
\* spike upwards without averages.
Trending ==
  [pctB |-> 70, vol |-> 120, rsi |-> 5500, ema |-> <<103, 102, 100>>, histogram |-> 1,
   candles |-> <<Candle(97, 98), Candle(98, 98), Candle(98, 100)>>, atrHistory |-> <<90, 95>>,
   bollinger |-> [lower |-> 95, upper |-> 100]]
Oversold ==
  [pctB |-> -10, vol |-> 100, rsi |-> 2900, ema |-> <<97, 99, 101>>, histogram |-> -1,
   candles |-> <<Candle(104, 103), Candle(103, 102), Candle(102, 100)>>,
   atrHistory |-> <<60, 150, 300, 400>>, bollinger |-> [lower |-> 100, upper |-> 108]]
Pulling ==
  [pctB |-> 40, vol |-> None, rsi |-> 4500, ema |-> <<99, 100, 101>>, histogram |-> None,
   candles |-> <<Candle(103, 102), Candle(102, 103), Candle(103, 100)>>, atrHistory |-> <<>>,
   bollinger |-> [lower |-> 98, upper |-> 104]]
Spiking ==
  [pctB |-> 125, vol |-> 300, rsi |-> 6800, ema |-> None, histogram |-> 2,
   candles |-> <<Candle(94, 92), Candle(92, 91), Candle(91, 100)>>, atrHistory |-> <<90>>,
   bollinger |-> [lower |-> 90, upper |-> 98]]

MCCandles ==
  {[atr |-> 1, z |-> 0, trend |-> "LONG", view |-> Trending],
   [atr |-> 4, z |-> 15, trend |-> "SHORT", view |-> Oversold],
   [atr |-> 4, z |-> 25, trend |-> "NEUTRAL", view |-> Spiking],
   [atr |-> 1, z |-> -12, trend |-> "SHORT", view |-> Pulling]}

Flow(funding, oi, divergence) == [funding |-> funding, oi |-> oi, divergence |-> divergence]
MCMarkets ==
  {[price |-> 100, flow |-> Flow(-5, 1, "LONG"), fgi |-> 50],
   [price |-> 99,  flow |-> Flow(21, 1, "SHORT"), fgi |-> 80],
   [price |-> 100, flow |-> Flow(0, -1, None), fgi |-> 5]}

Account(balance, available, drawdown, margin) ==
  [balance |-> balance, available |-> available, drawdown |-> drawdown, margin |-> margin]
Holds(count, own) == [count |-> count, own |-> own]
MCStores ==
  {[account |-> Account(100, 100, 0, 0), held |-> Holds(0, FALSE)],
   [account |-> Account(60, 60, 2, 20), held |-> Holds(1, FALSE)],
   [account |-> Account(100, 10, 5, 60), held |-> Holds(1, TRUE)]}

Support(p)    == [type |-> "SUPPORT", price |-> p]
Resistance(p) == [type |-> "RESISTANCE", price |-> p]
Analysis(direction, score, levels) ==
  [valid |-> TRUE, direction |-> direction, score |-> score, levels |-> levels]
MCAnalyses ==
  {Analysis("LONG", 7, <<Support(98), Resistance(107), Support(96)>>),
   Analysis("LONG", 9, <<Support(98)>>),
   Analysis("SHORT", 8, <<Resistance(102), Support(80)>>)}

Chosen(side, tactic, target, entryLevel, stopLevel, stopAtr, confidence) ==
  [structure |-> [side |-> side, tactic |-> tactic, target |-> target,
                  entryLevel |-> entryLevel, stopLevel |-> stopLevel, stopAtr |-> stopAtr],
   confidence |-> confidence]
MCChoices ==
  {Chosen("LONG", "IMMEDIATE", "STRUCTURAL", 0, 1, 0, 70),
   Chosen("LONG", "IMMEDIATE", "ATR_2X", 0, 0, 300, 70),
   Chosen("LONG", "PULLBACK_TO_LEVEL", "ATR_2X", 1, 3, 0, 60),
   Chosen("SHORT", "IMMEDIATE", "ATR_3X", 0, 1, 0, 80),
   Chosen("SHORT", "IMMEDIATE", "ATR_3X", 0, 0, 150, 70),
   Chosen("SHORT", "IMMEDIATE", "STRUCTURAL", 0, 0, 188, 70)}
=============================================================================
