------------------------------ MODULE FilterChain ------------------------------
(***************************************************************************)
(* What a symbol passes on its way to a decision, apart from the language  *)
(* models: the confluence score (spine/filters/confluence.py) and the      *)
(* Analyst's gate on it, the gates before the Trader is asked, and the     *)
(* filter chain that a LONG or SHORT decision meets before it is queued    *)
(* (spine/filters/chain.py).                                               *)
(*                                                                         *)
(* A view is what the indicators say of a candle (see ScoutFilter), with   *)
(* its Bollinger bands; an order flow is None or a funding z-score in      *)
(* tenths, the sign of the open interest's change and the side a           *)
(* divergence favours, if any.  The multipliers the chain collects are     *)
(* left out: its caller reads the verdict only.  A rule with bounds of its *)
(* own takes the configuration f as a parameter.                           *)
(***************************************************************************)
EXTENDS ScoutFilter, RiskRules

CONSTANT Filters \* FilterConfigSchema, the tiers' funding bounds, the router's

FilterConfig ==
  [crowdedLong : [Tiers -> Int], crowdedShort : [Tiers -> Int],
   minBody : Nat, spikeBody : Nat, movementBypass : 0..11,
   fear : 0..100, greed : 0..100, fearBypass : 0..11,
   elevatedFear : 0..100, elevatedFearMin : 0..11,
   elevatedGreed : 0..100, elevatedGreedMin : 0..11,
   minAlgo : 0..8, stretchedLong : Int, stretchedShort : Int]

ASSUME FilterAssumption == Filters \in FilterConfig

\* What is known of funding, open interest and their divergence.
OrderFlows == [funding : Int, oi : Int, divergence : Sides \cup {None}]

\* None is not a reading.
ASSUME NoneAssumption == None \notin Int \cup Averages \cup Bands \cup OrderFlows \cup Sides

Opposite(side) == IF side = "LONG" THEN "SHORT" ELSE "LONG"

-----------------------------------------------------------------------------
(* ConfluenceCalculator.                                                   *)

Aligned(side, v) ==
  /\ v.ema # None
  /\ IF side = "LONG" THEN v.ema[1] > v.ema[2] /\ v.ema[2] > v.ema[3]
                      ELSE v.ema[1] < v.ema[2] /\ v.ema[2] < v.ema[3]

\* Mutant: the band of a SHORT with the trend is a LONG's band against it.
RsiBandCopied(side, aligned) ==
  IF side = "LONG" THEN IF aligned THEN 5000..7000 ELSE 3000..4000
                   ELSE IF aligned THEN 3000..4000 ELSE 6000..7000

\* With the trend the RSI may run, against it it must come from an extreme.
RsiBand(side, aligned) ==
  IF side = "LONG" THEN IF aligned THEN 5000..7000 ELSE 3000..4000
                   ELSE IF aligned THEN 3000..5000 ELSE 6000..7000

AtBollinger(side, v) ==
  LET close == Latest(v.candles).close IN
  /\ v.bollinger # None
  /\ IF side = "LONG"
     THEN close <= v.bollinger.lower \/ (Aligned(side, v) /\ close >= v.bollinger.upper)
     ELSE close >= v.bollinger.upper \/ (Aligned(side, v) /\ close <= v.bollinger.lower)

FlowSignals(side, flow) ==
  IF flow = None THEN {}
  ELSE {s \in {"funding_favorable", "oi_supports_direction", "oi_funding_divergence"} :
          CASE s = "funding_favorable" ->
                 IF side = "LONG" THEN flow.funding <= 0 ELSE flow.funding >= 0
            [] s = "oi_supports_direction" ->
                 IF side = "LONG" THEN flow.oi > 0 ELSE flow.oi < 0
            [] s = "oi_funding_divergence" -> flow.divergence = side}

\* A spike in volume is not counted as volume above average too.
Signals(side, v, flow) ==
  FlowSignals(side, flow) \cup
  {s \in {"ema_alignment", "rsi_favorable", "price_at_bollinger", "volume"} :
     CASE s = "ema_alignment"      -> Aligned(side, v)
       [] s = "rsi_favorable"      -> v.rsi # None /\ v.rsi \in RsiBand(side, Aligned(side, v))
       [] s = "price_at_bollinger" -> AtBollinger(side, v)
       [] s = "volume"             -> v.vol # None /\ v.vol > 100}

Score(side, v, flow) == Cardinality(Signals(side, v, flow))

\* The best of both sides, which the Analyst is not asked below.
BestScore(v, flow) == Larger(Score("LONG", v, flow), Score("SHORT", v, flow))

-----------------------------------------------------------------------------
(* FearGreedGateFilter and the Analyst's gate.                             *)

FearGreedAllows(f, fgi) == fgi # None => f.fear < fgi /\ fgi < f.greed

\* get_confluence_override: a side that runs with the crowd needs more.
ConfluenceOverride(f, direction, fgi) ==
  IF fgi = None THEN 0
  ELSE IF direction = "LONG" /\ f.fear < fgi /\ fgi <= f.elevatedFear
       THEN f.elevatedFearMin
  ELSE IF direction = "SHORT" /\ f.elevatedGreed <= fgi /\ fgi < f.greed
       THEN f.elevatedGreedMin
  ELSE 0

\* confluence_enter_min_for_regime
EnterMin == [NORMAL |-> 6, HIGH |-> 7, EXTREME |-> 8, LOW |-> 7]

\* _apply_confluence_gate: an override tightens, a trend against adds one.
Gate(f, regime, direction, fgi, htf) ==
  Larger(EnterMin[regime], ConfluenceOverride(f, direction, fgi))
  + IF direction \in Sides /\ htf \in Sides /\ htf # direction THEN 1 ELSE 0

\* pre_trader_breakout_check
Overextended(f, pattern, direction, v) ==
  /\ pattern = "BREAKOUT" /\ v.pctB # None
  /\ IF direction = "SHORT" THEN v.pctB < f.stretchedShort
                            ELSE v.pctB > f.stretchedLong

-----------------------------------------------------------------------------
(* The filters of the chain.                                               *)

FundingAllows(f, side, flow, tier) ==
  flow # None =>
    IF side = "LONG" THEN flow.funding <= f.crowdedLong[tier]
                     ELSE flow.funding >= f.crowdedShort[tier]

Body(v) == Latest(v.candles).close - Latest(v.candles).open

MovementAllows(f, v, atr) == atr = 0 \/ Magnitude(Body(v)) * 100 >= f.minBody * atr

\* A trade in the direction of the candle chases it.
Chasing(side, v) == IF side = "LONG" THEN Body(v) > 0 ELSE Body(v) <= 0

SpikeAllows(f, side, v, atr) ==
  \/ atr = 0
  \/ Magnitude(Body(v)) * 100 <= f.spikeBody * atr
  \/ ~ Chasing(side, v)

\* Two of the filters give way to a high score of the Analyst.
ChainAllows(f, side, v, atr, flow, fgi, held, regime, tier, score) ==
  /\ FearGreedAllows(f, fgi) \/ score >= f.fearBypass
  /\ TierMultiplier(regime, tier) > 0
  /\ FundingAllows(f, side, flow, tier)
  /\ MovementAllows(f, v, atr) \/ score >= f.movementBypass
  /\ SpikeAllows(f, side, v, atr)
  /\ ExposureRefusals(held) = {}

-----------------------------------------------------------------------------
(* The market seen upside down, and a configuration whose bounds are       *)
(* turned over with it: a bound of a LONG becomes one of a SHORT.          *)

MirrorCandle(c) == [c EXCEPT !.open = 0 - @, !.close = 0 - @,
                             !.high = 0 - c.low, !.low = 0 - c.high]
MirrorView(v) ==
  [v EXCEPT !.ema = IF @ = None THEN None ELSE [i \in 1..3 |-> 0 - @[i]],
            !.rsi = IF @ = None THEN None ELSE 10000 - @,
            !.pctB = IF @ = None THEN None ELSE 100 - @,
            !.candles = [i \in DOMAIN @ |-> MirrorCandle(@[i])],
            !.bollinger = IF @ = None THEN None
                          ELSE [lower |-> 0 - @.upper, upper |-> 0 - @.lower]]
MirrorFlow(flow) ==
  IF flow = None THEN None
  ELSE [funding |-> 0 - flow.funding, oi |-> 0 - flow.oi,
        divergence |-> IF flow.divergence = None THEN None ELSE Opposite(flow.divergence)]
MirrorFgi(fgi) == IF fgi = None THEN None ELSE 100 - fgi
MirrorFilters(f) ==
  [f EXCEPT !.fear = 100 - f.greed, !.greed = 100 - f.fear,
            !.elevatedFear = 100 - f.elevatedGreed, !.elevatedGreed = 100 - f.elevatedFear,
            !.elevatedFearMin = f.elevatedGreedMin, !.elevatedGreedMin = f.elevatedFearMin,
            !.stretchedLong = 100 - f.stretchedShort, !.stretchedShort = 100 - f.stretchedLong,
            !.crowdedLong = [tier \in Tiers |-> 0 - f.crowdedShort[tier]],
            !.crowdedShort = [tier \in Tiers |-> 0 - f.crowdedLong[tier]]]

\* A side and its opposite in the mirrored market, with the bounds turned over,
\* score alike, are allowed alike and meet the same gates.
MirroredAlike(side, pattern, v, atr, flow, fgi, held, regime, tier, score) ==
  LET w == MirrorView(v)
      f == Filters
      g == MirrorFilters(f)
  IN
  /\ Score(side, v, flow) = Score(Opposite(side), w, MirrorFlow(flow))
  /\ Overextended(f, pattern, side, v) <=> Overextended(g, pattern, Opposite(side), w)
  /\ Gate(f, regime, side, fgi, side)
       = Gate(g, regime, Opposite(side), MirrorFgi(fgi), Opposite(side))
  /\ ChainAllows(f, side, v, atr, flow, fgi, held, regime, tier, score)
       <=> ChainAllows(g, Opposite(side), w, atr, MirrorFlow(flow), MirrorFgi(fgi),
                       held, regime, tier, score)
=============================================================================
