------------------------------- MODULE PreTrade -------------------------------
(***************************************************************************)
(* One symbol on its way from a closed candle to an order: the scout, the  *)
(* Analyst and the Trader (brain/agent), the geometry of the trade, the    *)
(* filter chain, the decision queue and what the execution engine asks     *)
(* before it places the order.  The calculations are the operators of      *)
(* ScoutFilter, TradeGeometry, RiskRules and FilterChain; this module says *)
(* which data each of them is given.                                       *)
(*                                                                         *)
(* A review reads market data, account and positions at several moments:   *)
(* at the start of the cycle (review), when the Analyst has answered       *)
(* (deps), after the awaits that follow (price and z of deps), and again   *)
(* in the engine.  Between any two of them the market, the store and the   *)
(* candle may change; how often is bounded by MaxShifts and MaxBars.       *)
(* Cooldowns, suspensions and the Trader's circuit are in ReasoningLoop,   *)
(* the order's further life in ExecutionEngine.                            *)
(***************************************************************************)
EXTENDS FilterChain

CONSTANTS
  ProviderTh,  \* regime thresholds the reasoning side detects with
  EngineTh,    \* and those of the engine's detector
  SymbolTier,  \* the symbol's tier
  DepsLeverage,\* the leverage the geometry is given
  Candles,     \* candles there may be: [atr, z, trend, view]
  Markets,     \* [price, flow, fgi]
  Stores,      \* [account, held]
  Analyses,    \* what an Analyst may answer: [valid, direction, score, levels]
  Choices,     \* what a Trader may choose: [structure, confidence]
  MaxBars, MaxShifts, MaxAge

ASSUME PreTradeAssumption ==
  /\ ProviderTh \in Thresholds /\ EngineTh \in Thresholds
  /\ SymbolTier \in Tier /\ DepsLeverage \in Nat \ {0}
  /\ \A c \in Candles : c.atr \in Nat /\ c.z \in Int /\ c.view \in Views
  /\ \A m \in Markets : /\ m.price \in Nat \ {0} /\ m.fgi \in Int \cup {None}
                         /\ m.flow \in OrderFlows \cup {None}
  /\ \A s \in Stores : s.account.balance \in Nat /\ s.account.available \in Nat
  /\ \A a \in Analyses : a.levels \in Seq(Level) /\ a.score \in 0..11
  /\ \A c \in Choices : c.structure \in Structure
  /\ MaxBars \in Nat \ {0} /\ MaxShifts \in Nat /\ MaxAge \in Nat

VARIABLES
  bar,      \* the last candle of the cache: number, data, complete or not
  market,   \* price, order flow, fear and greed index
  store,    \* the account and position records
  shifts,   \* changes of market and store so far
  stage,    \* where the review of the symbol is
  review,   \* what the cycle read first: candle, pattern, regime, positions
  analysed, \* the Analyst's memo: the last candle it judged, and how
  deps,     \* what the Trader is given
  memo,     \* the Trader's memo: candle, analysis, geometry or None for a WAIT
  geometry, \* of the decision being filtered, with its confidence
  queue,    \* the decision waiting for the engine
  age,      \* of that decision, in ticks
  exec,     \* the decision in the engine and what was refused of it
  order     \* what came of it

marketVars == <<bar, market, store, shifts>>
memoVars   == <<analysed, memo>>
reviewVars == <<review, deps, geometry>>
engineVars == <<exec, order>>
vars == <<marketVars, stage, memoVars, reviewVars, queue, age, engineVars>>

Stages == {"idle", "asking", "loading", "deciding", "filtering", "sent"}
Checks == {"drawdown", "exposure", "margin", "size"}

TypeOK ==
  /\ bar.n \in 1..MaxBars /\ bar.data \in Candles /\ bar.complete \in BOOLEAN
  /\ market \in Markets /\ store \in Stores /\ shifts \in 0..MaxShifts
  /\ stage \in Stages
  /\ stage \in {"loading", "deciding", "filtering"} =>
       deps # None /\ deps.n \in 1..MaxBars /\ deps.atr \in Nat /\ deps.analysis \in Analyses
  /\ stage = "filtering" => geometry.geometry.ok
  /\ queue # None => queue.entry \in Nat \ {0} /\ queue.stop \in Nat /\ queue.target \in Nat
  /\ age \in -1..MaxAge
  /\ exec # None => exec.check \in Checks
  /\ order.status \in {"none", "SUBMITTED", "REJECTED", "EXPIRED"}

\* What the Trader is given of a candle, a market and an answer.
DepsType ==
  [n : Nat \ {0}, complete : BOOLEAN, atr : Nat, z : Int, view : {c.view : c \in Candles},
   flow : {m.flow : m \in Markets}, price : Nat \ {0}, analysis : Analyses]

ASSUME NoDepsAssumption == None \notin DepsType

Undecided == [status |-> "none"]

\* The first candle may be the open one of the history that was loaded.
Init ==
  /\ bar \in [n : {1}, data : Candles, complete : BOOLEAN]
  /\ market \in Markets /\ store \in Stores /\ shifts = 0
  /\ stage = "idle" /\ review = None /\ deps = None /\ geometry = None
  /\ analysed = None /\ memo = None
  /\ queue = None /\ age = 0 /\ exec = None /\ order = Undecided

-----------------------------------------------------------------------------
(* The world.                                                              *)

\* _on_kline of a closed candle: a new last candle, with its indicators; or
\* the one that was loaded open, now complete under the same close time.
BarCloses ==
  /\ \E data \in Candles :
       \/ /\ bar.n < MaxBars
          /\ bar' = [n |-> bar.n + 1, data |-> data, complete |-> TRUE]
       \/ ~ bar.complete /\ bar' = [bar EXCEPT !.data = data, !.complete = TRUE]
  /\ UNCHANGED <<market, store, shifts, stage, memoVars, reviewVars, queue, age, engineVars>>

MarketMoves ==
  /\ shifts < MaxShifts /\ shifts' = shifts + 1
  /\ market' \in Markets \ {market}
  /\ UNCHANGED <<bar, store, stage, memoVars, reviewVars, queue, age, engineVars>>

\* The other loops write account and positions.
StoreChanges ==
  /\ shifts < MaxShifts /\ shifts' = shifts + 1
  /\ store' \in Stores \ {store}
  /\ UNCHANGED <<bar, market, stage, memoVars, reviewVars, queue, age, engineVars>>

\* Time passes for a decision in the queue; a clock set back gives it an age
\* below zero.
Tick ==
  /\ queue # None
  /\ age' \in {-1, age + 1} /\ age' <= MaxAge
  /\ UNCHANGED <<marketVars, stage, memoVars, reviewVars, queue, engineVars>>

-----------------------------------------------------------------------------
(* The review.                                                             *)

\* The Analyst's verdict goes on to the Trader.
Escalates(a, regime, trend) ==
  a.valid /\ a.score >= Gate(Filters, regime, a.direction, market.fgi, trend)

\* get_trader, up to its first await.
Snapshot(a) ==
  [n |-> bar.n, complete |-> bar.complete, atr |-> bar.data.atr, z |-> 0,
   view |-> bar.data.view, flow |-> market.flow, price |-> market.price, analysis |-> a]

\* Mutant: the Trader is called with what was read last time.
JudgeOnly(a, regime, trend) ==
  stage' = (IF Escalates(a, regime, trend) THEN "loading" ELSE "idle") /\ UNCHANGED deps

Judge(a, regime, trend) ==
  IF Escalates(a, regime, trend)
  THEN stage' = "loading" /\ deps' = Snapshot(a)
  ELSE stage' = "idle" /\ deps' = None

\* The scout's verdict, the score the Analyst is skipped below, and its memo
\* of this candle.  A symbol with a position is not reviewed.
Scan ==
  LET data    == bar.data
      regime  == RegimeOf(data.z, ProviderTh)
      scoutAtr == IF data.atr = 0 THEN None ELSE data.atr
  IN
  /\ stage = "idle" /\ queue = None /\ exec = None /\ order = Undecided
  /\ ~ store.held.own
  /\ Interesting(regime, SymbolTier, scoutAtr, market.price, data.view)
  /\ BestScore(data.view, market.flow) >= Filters.minAlgo
  /\ review' = [n |-> bar.n, regime |-> regime, held |-> store.held, trend |-> data.trend,
                pattern |-> PatternOf(regime, SymbolTier, data.view)]
  /\ IF analysed # None /\ analysed.n = bar.n
     THEN Judge(analysed.answer, regime, data.trend)
     ELSE stage' = "asking" /\ UNCHANGED deps
  /\ UNCHANGED <<marketVars, memoVars, geometry, queue, age, engineVars>>

\* The answer is remembered under the candle that was read before the await.
AnalystAnswers(a) ==
  /\ stage = "asking"
  /\ analysed' = [n |-> review.n, answer |-> a]
  /\ Judge(a, review.regime, review.trend)
  /\ UNCHANGED <<marketVars, review, memo, geometry, queue, age, engineVars>>

\* An agent that fails or times out, an account that is not there, an open
\* circuit: nothing is remembered.
Abandon ==
  /\ stage \in {"asking", "loading", "deciding"}
  /\ stage' = "idle" /\ deps' = None
  /\ UNCHANGED <<marketVars, memoVars, review, geometry, queue, age, engineVars>>

\* The inputs of the geometry.
InputsOf(d) ==
  [price |-> d.price, atr |-> d.atr, levels |-> d.analysis.levels, leverage |-> DepsLeverage]

\* Mutant: keyed by the candle of the moment.
KeyNow == bar.n

\* The key of the Trader's memo: the last candle of the snapshot.
KeyOf == deps.n

Remember(d, answer) == memo' = [n |-> KeyOf, analysis |-> d.analysis, geometry |-> answer]

Remembered(d) == memo # None /\ memo.n = d.n /\ memo.analysis = d.analysis

Vetoed(d) ==
  d.analysis.direction # "NEUTRAL" /\ ~ Viable(d.analysis.direction, InputsOf(d))

\* The rest of get_trader: price and ATR history are read after the awaits, so
\* the history may have gained a candle the snapshot does not have.  Then the
\* memo, and the gates before the Trader.
LoadTrader ==
  /\ stage = "loading"
  /\ \E z \in IF deps.n = bar.n /\ deps.complete = bar.complete
              THEN {bar.data.z} ELSE {c.z : c \in Candles} :
       LET d == [deps EXCEPT !.price = market.price, !.z = z] IN
       /\ deps' = d
       /\ CASE Remembered(d) ->
                 /\ stage' = IF memo.geometry = None THEN "idle" ELSE "filtering"
                 /\ geometry' = IF memo.geometry = None THEN geometry ELSE memo.geometry
                 /\ UNCHANGED memo
            [] ~ Remembered(d) /\ (Overextended(Filters, review.pattern, d.analysis.direction, d.view)
                                   \/ Vetoed(d)) ->
                 stage' = "idle" /\ Remember(d, None) /\ UNCHANGED geometry
            [] OTHER -> stage' = "deciding" /\ UNCHANGED <<geometry, memo>>
  /\ UNCHANGED <<marketVars, review, analysed, queue, age, engineVars>>

TraderWaits ==
  /\ stage = "deciding" /\ stage' = "idle" /\ Remember(deps, None)
  /\ UNCHANGED <<marketVars, reviewVars, analysed, queue, age, engineVars>>

\* _finalize_trader_decision: a structure that does not exist is forgotten, one
\* the market does not allow is remembered as a WAIT.
TraderChooses(c) ==
  LET g == Compute(c.structure, InputsOf(deps)) IN
  /\ stage = "deciding"
  /\ IF g.ok
     THEN LET kept == [geometry |-> g, confidence |-> c.confidence, atr |-> deps.atr] IN
          stage' = "filtering" /\ geometry' = kept /\ Remember(deps, kept)
     ELSE /\ stage' = "idle" /\ UNCHANGED geometry
          /\ IF g.code = "INVALID_STRUCTURE" THEN UNCHANGED memo ELSE Remember(deps, None)
  /\ UNCHANGED <<marketVars, review, deps, analysed, queue, age, engineVars>>

\* The decision message: prices of the geometry, ATR and history of the deps,
\* regime of the cycle.
Decision ==
  LET g == geometry.geometry IN
  [side |-> g.side, entry |-> g.entry, stop |-> g.stop, target |-> g.target,
   confidence |-> geometry.confidence, computedAt |-> geometry.atr,
   atr |-> deps.atr, z |-> deps.z, regime |-> review.regime]

\* The chain sees the deps and the positions the cycle began with.
Filter ==
  /\ stage = "filtering"
  /\ IF ChainAllows(Filters, geometry.geometry.side, deps.view, deps.atr, deps.flow, market.fgi,
                    review.held, RegimeOf(deps.z, EngineTh), SymbolTier, deps.analysis.score)
     THEN stage' = "sent" /\ queue' = Decision /\ age' = 0
     ELSE stage' = "idle" /\ UNCHANGED <<queue, age>>
  /\ UNCHANGED <<marketVars, memoVars, reviewVars, engineVars>>

-----------------------------------------------------------------------------
(* The engine.                                                             *)

\* Drift of the regime and age: both judged by what the decision carries.
Take ==
  LET d == queue
      regime == Stricter(d.regime, RegimeOf(d.z, EngineTh))
  IN
  /\ queue # None /\ queue' = None
  /\ IF Stale(age, regime)
     THEN order' = [status |-> "EXPIRED", d |-> d] /\ UNCHANGED exec
     ELSE exec' = [d |-> d, check |-> "drawdown", refusals |-> {}] /\ UNCHANGED order
  /\ UNCHANGED <<marketVars, stage, memoVars, reviewVars, age>>

Go(check, next, refusals) ==
  /\ exec # None /\ exec.check = check
  /\ exec' = [exec EXCEPT !.check = next, !.refusals = @ \cup refusals]
  /\ UNCHANGED <<marketVars, stage, memoVars, reviewVars, queue, age, order>>

\* The awaits of validate_trade: the checks that read nothing are made with the
\* one they stand next to.
CheckDrawdown == Go("drawdown", "exposure", DrawdownRefusals(store.account))

CheckExposure ==
  Go("exposure", "margin",
     ExposureRefusals(store.held) \cup RegimeRefusals(RegimeOf(exec.d.z, EngineTh), SymbolTier)
     \cup StopRefusals(exec.d) \cup RewardRefusals(exec.d)
     \cup LiquidationRefusals(exec.d, EngineLeverage))

CheckMargin ==
  Go("margin", "size",
     MarginRefusals(store.account) \cup ConfidenceRefusals(exec.d, SymbolTier))

\* A check that cannot read its state refuses.
CheckFails ==
  /\ exec # None /\ exec.check \in {"drawdown", "exposure", "margin"}
  /\ exec' = [exec EXCEPT !.check = "size", !.refusals = @ \cup {"unreadable"}]
  /\ UNCHANGED <<marketVars, stage, memoVars, reviewVars, queue, age, order>>

Rejected(d, why) == [status |-> "REJECTED", d |-> d, why |-> why, account |-> store.account]

\* The account is read once more for the size; a size of zero is a refusal.
Size ==
  LET d      == exec.d
      regime == RegimeOf(d.z, EngineTh)
      lots   == Sized(store.account, d, SymbolTier, regime)
  IN
  /\ exec # None /\ exec.check = "size" /\ exec' = None
  /\ order' = IF exec.refusals # {} THEN Rejected(d, exec.refusals)
              ELSE IF UnderFloor(lots, d) THEN Rejected(d, {"floor"})
              ELSE IF lots <= 0 THEN Rejected(d, {"zero"})
              ELSE [status |-> "SUBMITTED", d |-> d, lots |-> lots, account |-> store.account]
  /\ UNCHANGED <<marketVars, stage, memoVars, reviewVars, queue, age>>

\* No account record when the size is computed: a size of zero.
SizeFails ==
  /\ exec # None /\ exec.check = "size" /\ exec' = None
  /\ order' = Rejected(exec.d, {"zero"})
  /\ UNCHANGED <<marketVars, stage, memoVars, reviewVars, queue, age>>

\* The cooldown after a decision has run out: the next review.
NextReview ==
  /\ order # Undecided /\ order' = Undecided /\ stage' = "idle"
  /\ bar.n > review.n
  /\ UNCHANGED <<marketVars, memoVars, reviewVars, queue, age, exec>>

Next ==
  \/ BarCloses \/ MarketMoves \/ StoreChanges \/ Tick
  \/ Scan
  \/ \E a \in Analyses : AnalystAnswers(a)
  \/ Abandon
  \/ LoadTrader
  \/ TraderWaits
  \/ \E c \in Choices : TraderChooses(c)
  \/ Filter
  \/ Take
  \/ CheckDrawdown \/ CheckExposure \/ CheckMargin \/ CheckFails
  \/ Size \/ SizeFails
  \/ NextReview

Spec == Init /\ [][Next]_vars

-----------------------------------------------------------------------------
(* Properties.                                                             *)

\* What the geometry promises the engine holds it to: a decision in the queue
\* or in the engine is never refused for its stop or its target, though both
\* were computed before other checks, from other objects and by other code.
\* Only a geometry of a candle that was still open may fail.
GeometryStands ==
  \A d \in {queue} \cup (IF exec = None THEN {} ELSE {exec.d}) :
    d # None /\ d.computedAt = d.atr => StopRefusals(d) = {} /\ RewardRefusals(d) = {}

\* A decision carries the ATR its geometry was computed with, whether the
\* geometry is fresh or remembered, except where the first candle was loaded
\* open and completed under the same close time.
GeometryOfItsCandle ==
  queue # None /\ queue.computedAt # queue.atr => deps.n = 1

\* When the viability check spares the Trader's call, no entry at the market on
\* the Analyst's side would have had a geometry.
VetoIsFinal ==
  stage = "loading" =>
    LET d == [deps EXCEPT !.price = market.price] IN
    Vetoed(d) =>
      \A c \in Choices :
        /\ c.structure.side = d.analysis.direction
        /\ c.structure.tactic = "IMMEDIATE"
        => ~ Compute(c.structure, InputsOf(d)).ok

\* An order is within the tier's exposure and the margin there is, not under
\* the notional floor, and above the risk budget of its regime at most when it
\* is no larger than the floor.
OrderIsAffordable ==
  order.status = "SUBMITTED" =>
    LET notional == order.lots * order.d.entry
        tier     == TierConfig[SymbolTier]
        budget   == order.account.balance * tier.risk * Lot
                    * SizeMultiplier(RegimeOf(order.d.z, EngineTh))
    IN /\ 100 * notional <= order.account.balance * tier.exposure * Lot
       /\ notional <= order.account.available * EngineLeverage * Lot
       /\ notional >= NotionalFloor * Lot
       /\ order.lots * order.d.stop <= budget \/ notional <= NotionalFloor * Lot

\* The last two are about a candle and a market, whatever was remembered of
\* them: they are evaluated before the first review.
Unreviewed == stage = "idle" /\ review = None

\* More volume never makes the scout lose interest in a candle.
VolumeMonotone ==
  LET v == bar.data.view
      scoutAtr == IF bar.data.atr = 0 THEN None ELSE bar.data.atr
  IN Unreviewed /\ v.vol # None =>
       \A regime \in Regimes, tier \in Tiers :
         Interesting(regime, tier, scoutAtr, market.price, v) =>
           \A more \in {50, 150, 200, 400} :
             v.vol <= more =>
               Interesting(regime, tier, scoutAtr, market.price, [v EXCEPT !.vol = more])

\* The rules treat a LONG as they treat a SHORT in the market upside down, once
\* the configured bounds are turned over too: if one side is favoured, it is by
\* the configuration and not by the code (confluence.py, the gates before the
\* Trader, chain.py).
SidesMirrored ==
  Unreviewed =>
  \A side \in Sides, score \in 6..9, pattern \in {"BREAKOUT", "REVERSAL"} :
    MirroredAlike(side, pattern, bar.data.view, bar.data.atr, market.flow, market.fgi,
                  store.held, RegimeOf(bar.data.z, EngineTh), SymbolTier, score)
=============================================================================
