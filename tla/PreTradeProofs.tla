---------------------------- MODULE PreTradeProofs ----------------------------
(***************************************************************************)
(* Proofs about TradeGeometry, ScoutFilter, FilterChain and PreTrade, for  *)
(* every configuration, every set of levels and every answer of the        *)
(* agents: a geometry that computes keeps the calculator's promises, the   *)
(* viability check vetoes nothing that would have computed, and what the   *)
(* engine submits is affordable; more volume never costs the scout's       *)
(* interest, and a SHORT is judged as the LONG in the market upside down,  *)
(* by the configured bounds turned over.                                   *)
(***************************************************************************)
EXTENDS PreTrade, TLAPS

-----------------------------------------------------------------------------
(* Arithmetic.                                                             *)

\* Units, distances and sizes are products of natural numbers.
LEMMA ProductNat ==
  ASSUME NEW x \in Nat, NEW y \in Nat
  PROVE  x * y \in Nat
  OBVIOUS

\* A product of positive numbers is positive.
LEMMA ProductPositive ==
  ASSUME NEW x \in Nat \ {0}, NEW y \in Nat \ {0}
  PROVE  x * y \in Nat \ {0}
  OBVIOUS

\* Both sides of a comparison may be multiplied.
LEMMA ProductMonotone ==
  ASSUME NEW x \in Int, NEW y \in Int, NEW z \in Nat, x <= y
  PROVE  x * z <= y * z /\ z * x <= z * y
  OBVIOUS

\* What cutting down to the lot guarantees.
LEMMA QuotientBound ==
  ASSUME NEW a \in Nat, NEW b \in Nat \ {0}, NEW l \in Int, l <= a \div b
  PROVE  l * b <= a
  <1>1. (a \div b) * b <= a /\ a \div b \in Int
    OBVIOUS
  <1>2. l * b <= (a \div b) * b
    BY <1>1, ProductMonotone
  <1>3. QED  BY <1>1, <1>2

-----------------------------------------------------------------------------
(* The distances of the geometry.                                          *)

\* A multiple of the ATR is a distance, and none only if one of them is zero.
LEMMA AtrStopType ==
  ASSUME NEW mult \in Nat, NEW atr \in Nat
  PROVE  /\ AtrStop(mult, atr) \in Nat
         /\ mult # 0 /\ atr # 0 => AtrStop(mult, atr) > 0
  <1>1. mult * atr \in Nat
    BY ProductNat
  <1>2. mult # 0 /\ atr # 0 => mult * atr > 0
    BY ProductPositive
  <1>3. QED  BY <1>1, <1>2 DEF AtrStop

\* The floor of a stop is the larger of its two parts.
LEMMA MinStopType ==
  ASSUME NEW ref \in Nat, NEW atr \in Nat
  PROVE  /\ MinStopDistance(ref, atr) \in Nat
         /\ AtrStop(MinSlAtr, atr) <= MinStopDistance(ref, atr)
         /\ MinSlPct * ref <= MinStopDistance(ref, atr)
  <1>1. MinSlPct * ref \in Nat
    BY ProductNat, GeometryAssumption
  <1>2. AtrStop(MinSlAtr, atr) \in Nat
    BY AtrStopType, GeometryAssumption
  <1>3. QED  BY <1>1, <1>2 DEF MinStopDistance, Larger

\* The parts of a geometry that computed, and the checks it passed.
LEMMA ComputeParts ==
  ASSUME NEW s \in Structure, NEW in \in Inputs, Compute(s, in).ok
  PROVE  LET entry == EntryPrice(s, in)
             stop  == StopDistance(s, in, entry)
             g     == Compute(s, in)
         IN /\ in.atr # 0
            /\ s.tactic # "IMMEDIATE" => EntryLevelUsable(s, in)
            /\ StopUsable(s, in, entry)
            /\ ~ (stop > MaxStopDistance(in.atr))
            /\ ~ ExceedsLiquidationBudget(stop, entry, in.leverage)
            /\ g.target \in TargetDistance(s, in, entry, stop)
            /\ g.side = s.side /\ g.entry = entry /\ g.stop = stop
  BY Zenon DEF Compute, Rejection

\* A level has a price.
LEMMA LevelPrice ==
  ASSUME NEW in \in Inputs, NEW i \in DOMAIN in.levels
  PROVE  in.levels[i].price \in Nat \ {0}
  <1>1. in.levels \in Seq(Level)
    BY DEF Inputs
  <1>2. in.levels[i] \in Level
    BY <1>1
  <1>3. QED  BY <1>2 DEF Level

\* The entry is at the market or at a level, which have a price.
LEMMA EntryPriceType ==
  ASSUME NEW s \in Structure, NEW in \in Inputs,
         s.tactic # "IMMEDIATE" => EntryLevelUsable(s, in)
  PROVE  EntryPrice(s, in) \in Nat \ {0}
  <1>1. CASE s.tactic = "IMMEDIATE"
    BY <1>1 DEF EntryPrice, Inputs
  <1>2. CASE s.tactic # "IMMEDIATE"
    BY <1>2, LevelPrice DEF EntryPrice, EntryLevelUsable
  <1>3. QED  BY <1>1, <1>2

\* The distance to a stop that may be asked for.
LEMMA AskedStopType ==
  ASSUME NEW s \in Structure, NEW in \in Inputs, NEW entry \in Nat,
         StopUsable(s, in, entry)
  PROVE  AskedStop(s, in, entry) \in Nat
  <1>1. \A mult \in Nat : AtrStop(mult, in.atr) \in Nat
    BY AtrStopType DEF Inputs
  <1>2. CASE s.stopLevel # Absent
    <2>1. in.levels[s.stopLevel].price \in Nat
      BY <1>2, LevelPrice DEF StopUsable
    <2>2. StopUnits(Gap(entry, in.levels[s.stopLevel].price)) \in Nat
      BY <2>1 DEF StopUnits, Gap
    <2>3. AtrStop(SlBuffer, in.atr) \in Nat
      BY <1>1, GeometryAssumption
    <2>4. QED  BY <1>2, <2>2, <2>3 DEF AskedStop
  <1>3. CASE s.stopLevel = Absent
    <2>1. AtrStop(s.stopAtr, in.atr) \in Nat
      BY <1>1 DEF Structure
    <2>2. QED  BY <1>3, <2>1 DEF AskedStop
  <1>4. QED  BY <1>2, <1>3

\* The stop is at least the floor.
LEMMA StopDistanceType ==
  ASSUME NEW s \in Structure, NEW in \in Inputs, NEW entry \in Nat,
         StopUsable(s, in, entry)
  PROVE  /\ StopDistance(s, in, entry) \in Nat
         /\ StopDistance(s, in, entry) >= MinStopDistance(entry, in.atr)
  <1>1. MinStopDistance(entry, in.atr) \in Nat
    BY MinStopType DEF Inputs
  <1>2. QED  BY <1>1, AskedStopType DEF StopDistance, Larger

\* A target in multiples of the ATR is a distance.
LEMMA TargetAtrType ==
  ASSUME NEW mult \in Nat, NEW atr \in Nat
  PROVE  TargetAtr(mult, atr) \in Nat
  BY ProductNat DEF TargetAtr, TargetUnits

\* A target is a distance, at least the one the risk requires, and one that
\* Reach knows of when the entry is at the market.
LEMMA TargetDistanceSound ==
  ASSUME NEW s \in Structure, NEW in \in Inputs, NEW entry \in Nat, NEW stop \in Nat,
         NEW target \in TargetDistance(s, in, entry, stop)
  PROVE  /\ target \in Nat
         /\ target >= RequiredTarget(stop)
         /\ \/ target \in ProfitDistances(s.side, entry, in.levels)
            \/ target <= TargetAtr(MaxTpAtr, in.atr)
  <1>1. RequiredTarget(stop) \in Nat
    BY ProductNat, GeometryAssumption DEF RequiredTarget
  <1>2. \A d \in ProfitDistances(s.side, entry, in.levels) : d \in Nat
    <2>1. \A i \in DOMAIN in.levels : in.levels[i].price \in Nat
      BY LevelPrice
    <2>2. QED  BY <2>1 DEF ProfitDistances, TargetUnits, Gap
  <1>3. \A k \in {2, 3} : TargetAtr(k, in.atr) \in Nat /\ TargetAtr(k, in.atr) <= TargetAtr(MaxTpAtr, in.atr)
    <2>1. \A k \in {2, 3} : k * in.atr \in Nat /\ k * in.atr <= MaxTpAtr * in.atr /\ MaxTpAtr * in.atr \in Nat
      BY ProductNat, ProductMonotone, GeometryAssumption DEF Inputs
    <2>2. QED  BY <2>1 DEF TargetAtr, TargetUnits
  <1>4. CASE StyleTarget(s, in, entry, stop) # {} /\ s.target = "STRUCTURAL"
    BY <1>1, <1>2, <1>4 DEF TargetDistance, StyleTarget, Nearest, Qualifying
  <1>5. CASE StyleTarget(s, in, entry, stop) # {} /\ s.target # "STRUCTURAL"
    BY <1>1, <1>3, <1>5 DEF TargetDistance, StyleTarget
  <1>6. CASE StyleTarget(s, in, entry, stop) = {}
    BY <1>1, <1>6 DEF TargetDistance
  <1>7. QED  BY <1>4, <1>5, <1>6

\* The types and bounds of a geometry, as the decision will carry them.
Bounded(g, atr) ==
  /\ g.entry \in Nat \ {0} /\ g.stop \in Nat \ {0} /\ g.target \in Nat
  /\ AtrStop(MinSlAtr, atr) <= g.stop /\ g.stop <= AtrStop(MaxSlAtr, atr)
  /\ MinSlPct * g.entry <= g.stop
  /\ MinRR * g.stop <= g.target

\* What computed is bounded by the configuration and the ATR.
LEMMA ComputeBounded ==
  ASSUME NEW s \in Structure, NEW in \in Inputs, Compute(s, in).ok
  PROVE  /\ in.atr \in Nat \ {0}
         /\ Bounded(Compute(s, in), in.atr)
         /\ ~ ExceedsLiquidationBudget(Compute(s, in).stop, Compute(s, in).entry, in.leverage)
  <1> DEFINE g == Compute(s, in)
             entry == EntryPrice(s, in)
             stop == StopDistance(s, in, entry)
  <1>1. /\ in.atr \in Nat \ {0}
        /\ s.tactic # "IMMEDIATE" => EntryLevelUsable(s, in)
        /\ StopUsable(s, in, entry)
        /\ ~ (stop > MaxStopDistance(in.atr))
        /\ ~ ExceedsLiquidationBudget(stop, entry, in.leverage)
        /\ g.target \in TargetDistance(s, in, entry, stop)
        /\ g.entry = entry /\ g.stop = stop
    BY ComputeParts DEF Inputs
  <1>2. entry \in Nat \ {0}
    BY <1>1, EntryPriceType
  <1>3. stop \in Nat /\ stop >= MinStopDistance(entry, in.atr)
    BY <1>1, <1>2, StopDistanceType
  <1>4. /\ MinStopDistance(entry, in.atr) \in Nat
        /\ AtrStop(MinSlAtr, in.atr) <= MinStopDistance(entry, in.atr)
        /\ MinSlPct * entry <= MinStopDistance(entry, in.atr)
    BY <1>1, <1>2, MinStopType
  <1>5. /\ AtrStop(MinSlAtr, in.atr) \in Nat /\ AtrStop(MinSlAtr, in.atr) > 0
        /\ AtrStop(MaxSlAtr, in.atr) \in Nat
    BY <1>1, AtrStopType, GeometryAssumption
  <1>6. MinSlPct * entry \in Nat
    BY <1>2, ProductNat, GeometryAssumption
  <1>7. stop \in Nat \ {0} /\ AtrStop(MinSlAtr, in.atr) <= stop /\ MinSlPct * entry <= stop
    BY <1>3, <1>4, <1>5, <1>6
  <1>8. stop <= AtrStop(MaxSlAtr, in.atr)
    BY <1>1, <1>3, <1>5 DEF MaxStopDistance
  <1>9. g.target \in Nat /\ g.target >= MinRR * stop
    BY <1>1, <1>2, <1>3, TargetDistanceSound DEF RequiredTarget
  <1>10. MinRR * stop \in Nat
    BY <1>3, ProductNat, GeometryAssumption
  <1> HIDE DEF g, entry, stop
  <1>11. Bounded(g, in.atr)
    BY <1>1, <1>2, <1>7, <1>8, <1>9, <1>10 DEF Bounded
  <1>12. QED  BY <1>1, <1>11 DEF g, entry, stop

\* compute keeps the promise of its docstring: whatever the Trader chooses and
\* the Analyst names as levels, a geometry has its stop within the configured
\* bounds and the liquidation budget, and a target worth its risk.
THEOREM GeometrySound ==
  ASSUME NEW s \in Structure, NEW in \in Inputs, Compute(s, in).ok
  PROVE  Sound(Compute(s, in), in)
  <1>1. MinRR * Compute(s, in).stop \in Nat
    BY ComputeBounded, ProductNat, GeometryAssumption DEF Bounded
  <1>2. QED  BY <1>1, ComputeBounded DEF Sound, Bounded

\* estimate vetoes no entry at the market that would have computed.
THEOREM EstimateSound ==
  ASSUME NEW s \in Structure, NEW in \in Inputs,
         s.tactic = "IMMEDIATE", Compute(s, in).ok
  PROVE  Viable(s.side, in)
  <1> DEFINE stop  == StopDistance(s, in, in.price)
             floor == MinStopDistance(in.price, in.atr)
             target == Compute(s, in).target
  <1>1. /\ in.atr \in Nat \ {0} /\ in.price \in Nat \ {0} /\ in.leverage \in Nat \ {0}
        /\ StopUsable(s, in, in.price)
        /\ ~ (stop > MaxStopDistance(in.atr))
        /\ ~ ExceedsLiquidationBudget(stop, in.price, in.leverage)
        /\ target \in TargetDistance(s, in, in.price, stop)
    BY ComputeParts DEF Inputs, EntryPrice
  <1>2. stop \in Nat /\ floor \in Nat /\ floor <= stop
    <2>1. stop \in Nat /\ stop >= floor
      BY <1>1, StopDistanceType
    <2>2. floor \in Nat
      BY <1>1, MinStopType
    <2>3. QED  BY <2>1, <2>2
  <1>3. /\ target \in Nat /\ target >= RequiredTarget(stop)
        /\ \/ target \in ProfitDistances(s.side, in.price, in.levels)
           \/ target <= TargetAtr(MaxTpAtr, in.atr)
    BY <1>1, <1>2, TargetDistanceSound
  <1> HIDE DEF stop, floor, target
  <1>4. floor <= MaxStopDistance(in.atr)
    <2>1. MaxStopDistance(in.atr) \in Nat
      BY <1>1, AtrStopType, GeometryAssumption DEF MaxStopDistance
    <2>2. QED  BY <1>1, <1>2, <2>1
  <1>5. ~ ExceedsLiquidationBudget(floor, in.price, in.leverage)
    <2>1. floor * in.leverage <= stop * in.leverage
      BY <1>1, <1>2, ProductMonotone
    <2>2. /\ floor * in.leverage \in Int /\ stop * in.leverage \in Int
          /\ (100 * in.price) * (100 - LiqBuffer) \in Int
      BY <1>1, <1>2, GeometryAssumption
    <2>3. QED  BY <1>1, <2>1, <2>2 DEF ExceedsLiquidationBudget
  <1>6. RequiredTarget(floor) <= RequiredTarget(stop) /\ RequiredTarget(stop) \in Int
        /\ RequiredTarget(floor) \in Int
    BY <1>2, ProductMonotone, GeometryAssumption DEF RequiredTarget
  <1>7. TargetAtr(MaxTpAtr, in.atr) \in Nat
    BY <1>1, TargetAtrType, GeometryAssumption
  <1>8. \E best \in Reach(s.side, in) : best >= RequiredTarget(floor)
    BY <1>3, <1>6, <1>7 DEF Reach
  <1>9. QED  BY <1>1, <1>4, <1>5, <1>8 DEF Viable, floor

-----------------------------------------------------------------------------
(* The inductive invariant.                                                *)

Loaded == stage \in {"loading", "deciding", "filtering"}

\* A remembered geometry is bounded by the ATR it was computed with.
Kept(k) == k.atr \in Nat \ {0} /\ Bounded(k.geometry, k.atr)

\* And so is a decision made of it.
Made(d) == d.atr \in Nat /\ d.computedAt \in Nat \ {0} /\ Bounded(d, d.computedAt)

PTypes ==
  /\ bar \in [n : Nat \ {0}, data : Candles, complete : BOOLEAN]
  /\ market \in Markets /\ store \in Stores
  /\ analysed # None => analysed.answer \in Analyses
  /\ Loaded => deps \in DepsType

\* At most one of queue, exec and order is in use, and only behind a review.
OneAtATime ==
  /\ queue # None => stage = "sent" /\ exec = None /\ order = Undecided
  /\ exec # None => stage = "sent" /\ order = Undecided
  /\ order # Undecided => stage = "sent"

GeometriesKept ==
  /\ memo # None /\ memo.geometry # None => Kept(memo.geometry)
  /\ stage = "filtering" => Kept(geometry)
  /\ queue # None => Made(queue)
  /\ exec # None => exec = [d |-> exec.d, check |-> exec.check, refusals |-> exec.refusals]
                    /\ Made(exec.d)

\* From the second candle on, the number of a candle stands for its ATR.
OneAtrPerCandle ==
  /\ bar.n > 1 => bar.complete
  /\ Loaded => deps.n <= bar.n /\ (deps.n = bar.n /\ deps.n > 1 => deps.atr = bar.data.atr)
  /\ memo # None /\ memo.geometry # None =>
       /\ memo.n \in Nat /\ memo.n <= bar.n
       /\ memo.n = bar.n /\ memo.n > 1 => memo.geometry.atr = bar.data.atr
       /\ Loaded /\ memo.n = deps.n /\ memo.n > 1 => memo.geometry.atr = deps.atr
  /\ stage = "filtering" /\ geometry.atr # deps.atr => deps.n = 1
  /\ queue # None /\ queue.computedAt # queue.atr => deps.n = 1

PInv == PTypes /\ OneAtATime /\ GeometriesKept /\ OneAtrPerCandle

\* What the calculator is given is what its schema describes.
LEMMA InputsType ==
  ASSUME NEW d \in DepsType
  PROVE  InputsOf(d) \in Inputs
  BY PreTradeAssumption DEF DepsType, InputsOf, Inputs

\* The Trader is given data of the last candle.
LEMMA SnapshotType ==
  ASSUME PTypes, NEW a \in Analyses
  PROVE  /\ Snapshot(a) \in DepsType
         /\ Snapshot(a).n = bar.n /\ Snapshot(a).atr = bar.data.atr
  BY PreTradeAssumption DEF PTypes, Snapshot, DepsType

\* Nothing was reviewed yet.
LEMMA InitPInv == Init => PInv
  BY PreTradeAssumption
  DEF Init, PInv, PTypes, Loaded, OneAtATime, GeometriesKept, OneAtrPerCandle, Undecided

\* A review that goes on goes on with a snapshot.
LEMMA JudgePInv ==
  ASSUME PInv, NEW a \in Analyses, NEW regime, NEW trend, Judge(a, regime, trend),
         stage \in {"idle", "asking"}, queue = None, exec = None, order = Undecided,
         UNCHANGED <<marketVars, memo, geometry, queue, exec, order>>,
         analysed' # None => analysed'.answer \in Analyses
  PROVE  PInv'
  <1> USE DEF PInv, PTypes, OneAtATime, GeometriesKept, OneAtrPerCandle, Loaded, marketVars
  <1>1. CASE Escalates(a, regime, trend)
    <2>1. deps' = Snapshot(a) /\ stage' = "loading"
      BY <1>1 DEF Judge
    <2>2. deps' \in DepsType /\ deps'.n = bar.n /\ deps'.atr = bar.data.atr
      BY <2>1, SnapshotType
    <2>3. QED  BY <2>1, <2>2
  <1>2. CASE ~ Escalates(a, regime, trend)
    BY <1>2 DEF Judge
  <1>3. QED  BY <1>1, <1>2

\* Every stage hands on data of one candle, or of the first.
LEMMA StepPInv == PInv /\ [Next]_vars => PInv'
  <1> SUFFICES ASSUME PInv, [Next]_vars  PROVE PInv'
    OBVIOUS
  <1> USE DEF PInv, PTypes, OneAtATime, GeometriesKept, OneAtrPerCandle, Loaded,
              marketVars, memoVars, reviewVars, engineVars
  <1>1. CASE BarCloses
    <2>1. /\ bar' \in [n : Nat \ {0}, data : Candles, complete : BOOLEAN]
          /\ bar'.complete
          /\ bar'.n = bar.n + 1 \/ (bar'.n = bar.n /\ bar.n = 1)
      <3>1. CASE bar.n < MaxBars /\ \E data \in Candles :
                   bar' = [n |-> bar.n + 1, data |-> data, complete |-> TRUE]
        BY <3>1
      <3>2. CASE ~ bar.complete /\ \E data \in Candles :
                   bar' = [bar EXCEPT !.data = data, !.complete = TRUE]
        <4>1. bar.n = 1
          BY <3>2
        <4>2. QED  BY <3>2, <4>1
      <3>3. QED  BY <1>1, <3>1, <3>2 DEF BarCloses
    <2>2. UNCHANGED <<market, store, stage, analysed, memo, deps, geometry, queue, exec, order>>
      BY <1>1 DEF BarCloses
    <2>3. Loaded => deps.n \in Nat
      BY DEF DepsType
    <2>4. PTypes' /\ OneAtATime' /\ GeometriesKept'
      BY <2>1, <2>2
    <2>5. OneAtrPerCandle'
      BY <2>1, <2>2, <2>3
    <2>6. QED  BY <2>4, <2>5
  <1>2. CASE MarketMoves \/ StoreChanges \/ Tick
    BY <1>2 DEF MarketMoves, StoreChanges, Tick
  <1>3. CASE Scan
    <2>1. /\ stage = "idle" /\ queue = None /\ exec = None /\ order = Undecided
          /\ UNCHANGED <<marketVars, memoVars, geometry, queue, exec, order>>
      BY <1>3 DEF Scan
    <2>2. CASE analysed # None /\ analysed.n = bar.n
      <3>1. Judge(analysed.answer, RegimeOf(bar.data.z, ProviderTh), bar.data.trend)
        BY <1>3, <2>2 DEF Scan
      <3>2. QED  BY <2>1, <2>2, <3>1, JudgePInv
    <2>3. CASE ~ (analysed # None /\ analysed.n = bar.n)
      BY <1>3, <2>1, <2>3 DEF Scan
    <2>4. QED  BY <2>2, <2>3
  <1>4. ASSUME NEW a \in Analyses, AnalystAnswers(a)  PROVE PInv'
    <2>1. /\ stage = "asking" /\ queue = None /\ exec = None /\ order = Undecided
          /\ UNCHANGED <<marketVars, memo, geometry, queue, exec, order>>
          /\ analysed'.answer = a
          /\ Judge(a, review.regime, review.trend)
      BY <1>4 DEF AnalystAnswers
    <2>2. QED  BY <2>1, JudgePInv
  <1>5. CASE Abandon
    BY <1>5 DEF Abandon
  <1>6. CASE LoadTrader
    <2>1. PICK z \in Int : deps' = [deps EXCEPT !.price = market.price, !.z = z]
      BY <1>6, PreTradeAssumption, ZenonT(30) DEF LoadTrader
    <2>2. /\ deps' \in DepsType
          /\ deps'.n = deps.n /\ deps'.atr = deps.atr /\ deps'.analysis = deps.analysis
          /\ deps.n \in Nat \ {0} /\ deps.atr \in Nat
      BY <1>6, <2>1, PreTradeAssumption DEF LoadTrader, DepsType
    <2>3. /\ stage = "loading" /\ queue = None /\ exec = None /\ order = Undecided
          /\ UNCHANGED <<bar, market, store, analysed, queue, exec, order>>
      BY <1>6 DEF LoadTrader
    <2>4. \/ /\ memo # None /\ memo.n = deps.n /\ memo.geometry # None /\ memo' = memo
             /\ stage' = "filtering" /\ geometry' = memo.geometry
          \/ stage' = "idle" /\ geometry' = geometry /\ memo' = memo
          \/ stage' = "idle" /\ geometry' = geometry /\ memo'.geometry = None
          \/ stage' = "deciding" /\ geometry' = geometry /\ memo' = memo
      BY <1>6, <2>2 DEF LoadTrader, Remembered, Remember
    <2>5. PTypes' /\ OneAtATime'
      BY <2>2, <2>3, <2>4
    <2>6. GeometriesKept'
      BY <2>3, <2>4
    <2>7. OneAtrPerCandle'
      BY <2>2, <2>3, <2>4
    <2>8. QED  BY <2>5, <2>6, <2>7
  <1>7. CASE TraderWaits
    BY <1>7 DEF TraderWaits, Remember, KeyOf, DepsType
  <1>8. ASSUME NEW c \in Choices, TraderChooses(c)  PROVE PInv'
    <2> DEFINE g    == Compute(c.structure, InputsOf(deps))
               kept == [geometry |-> g, confidence |-> c.confidence, atr |-> deps.atr]
    <2>1. /\ stage = "deciding" /\ queue = None /\ exec = None /\ order = Undecided
          /\ UNCHANGED <<bar, market, store, analysed, deps, queue, exec, order>>
          /\ deps \in DepsType
      BY <1>8 DEF TraderChooses
    <2>2. \/ g.ok /\ stage' = "filtering" /\ geometry' = kept
             /\ memo' = [n |-> deps.n, analysis |-> deps.analysis, geometry |-> kept]
          \/ stage' = "idle" /\ geometry' = geometry /\ memo' = memo
          \/ stage' = "idle" /\ geometry' = geometry /\ memo'.geometry = None
      BY <1>8 DEF TraderChooses, Remember, KeyOf
    <2>3. g.ok => Kept(kept)
      <3>1. c.structure \in Structure /\ InputsOf(deps) \in Inputs /\ InputsOf(deps).atr = deps.atr
        BY <2>1, InputsType, PreTradeAssumption DEF InputsOf
      <3>2. g.ok => deps.atr \in Nat \ {0} /\ Bounded(g, deps.atr)
        BY <3>1, ComputeBounded
      <3>3. QED  BY <3>2 DEF Kept
    <2>4. deps.n \in Nat
      BY <2>1 DEF DepsType
    <2>5. kept.atr = deps.atr
      OBVIOUS
    <2> HIDE DEF kept, g
    <2>6. CASE g.ok /\ stage' = "filtering" /\ geometry' = kept
               /\ memo' = [n |-> deps.n, analysis |-> deps.analysis, geometry |-> kept]
      BY <2>1, <2>3, <2>4, <2>5, <2>6
    <2>7. CASE stage' = "idle" /\ geometry' = geometry /\ (memo' = memo \/ memo'.geometry = None)
      BY <2>1, <2>7
    <2>8. QED  BY <2>2, <2>6, <2>7
  <1>9. CASE Filter
    BY <1>9 DEF Filter, Decision, DepsType, Made, Kept, Bounded
  <1>10. CASE Take
    BY <1>10 DEF Take
  <1>11. ASSUME NEW check, NEW next, NEW refusals, Go(check, next, refusals)  PROVE PInv'
    BY <1>11 DEF Go
  <1>12. CASE CheckDrawdown \/ CheckExposure \/ CheckMargin
    BY <1>11, <1>12 DEF CheckDrawdown, CheckExposure, CheckMargin
  <1>13. CASE CheckFails
    BY <1>13 DEF CheckFails
  <1>14. CASE Size \/ SizeFails
    BY <1>14 DEF Size, SizeFails
  <1>15. CASE NextReview
    BY <1>15 DEF NextReview
  <1>16. CASE UNCHANGED vars
    BY <1>16 DEF vars
  <1>17. QED
    BY <1>1, <1>2, <1>3, <1>4, <1>5, <1>6, <1>7, <1>8, <1>9, <1>10, <1>12, <1>13,
       <1>14, <1>15, <1>16 DEF Next

\* PInv holds of every behaviour.
THEOREM PInvInvariant == Spec => []PInv
  BY InitPInv, StepPInv, PTL DEF Spec

-----------------------------------------------------------------------------
(* The properties.                                                         *)

\* The validator, which knows nothing of the geometry, never refuses a decision
\* for its stop or its target.
THEOREM GeometryAgreesWithValidator == Spec => []GeometryStands
  <1>1. ASSUME PInv, NEW d, Made(d), d.computedAt = d.atr
        PROVE  StopRefusals(d) = {} /\ RewardRefusals(d) = {}
    <2>1. /\ AtrStop(MinSlAtr, d.atr) \in Nat /\ AtrStop(MaxSlAtr, d.atr) \in Nat
          /\ d.stop \in Nat \ {0} /\ d.target \in Nat /\ d.entry \in Nat
      BY <1>1, AtrStopType, GeometryAssumption DEF Made, Bounded
    <2>2. MinSlPct * d.entry \in Nat /\ MinRR * d.stop \in Nat
      BY <2>1, ProductNat, GeometryAssumption
    <2>3. ~ (d.stop < AtrStop(MinSlAtr, d.atr)) /\ ~ (d.stop < MinSlPct * d.entry)
          /\ ~ (d.stop > AtrStop(MaxSlAtr, d.atr)) /\ ~ (d.target < MinRR * d.stop)
      BY <1>1, <2>1, <2>2 DEF Made, Bounded
    <2>4. QED  BY <2>1, <2>3 DEF StopRefusals, RewardRefusals, Refused
  <1>2. PInv => GeometryStands
    BY <1>1 DEF PInv, GeometriesKept, GeometryStands
  <1>3. QED  BY <1>2, PInvInvariant, PTL

\* A decision is filtered, aged and validated with the ATR its geometry was
\* computed with, remembered or not.
THEOREM GeometryKeyed == Spec => []GeometryOfItsCandle
  <1>1. PInv => GeometryOfItsCandle
    BY DEF PInv, OneAtrPerCandle, GeometryOfItsCandle
  <1>2. QED  BY <1>1, PInvInvariant, PTL

\* Sparing the Trader's call loses no entry at the market.
THEOREM ViabilityFinal == Spec => []VetoIsFinal
  <1>1. PInv => VetoIsFinal
    <2> SUFFICES ASSUME PInv, stage = "loading"
                 PROVE  VetoIsFinal
      BY DEF VetoIsFinal
    <2> DEFINE d == [deps EXCEPT !.price = market.price]
    <2>1. d \in DepsType
      BY PreTradeAssumption DEF PInv, PTypes, Loaded, DepsType
    <2>2. InputsOf(d) \in Inputs
      BY <2>1, InputsType
    <2>3. ASSUME NEW c \in Choices, Vetoed(d), c.structure.side = d.analysis.direction,
                 c.structure.tactic = "IMMEDIATE"
          PROVE  ~ Compute(c.structure, InputsOf(d)).ok
      BY <2>2, <2>3, EstimateSound, PreTradeAssumption DEF Vetoed
    <2> HIDE DEF d
    <2>4. QED  BY <2>3 DEF VetoIsFinal, d
  <1>2. QED  BY <1>1, PInvInvariant, PTL

-----------------------------------------------------------------------------
(* The size.                                                               *)

\* Of a decision that was made of a geometry, each clamp of the sizer is a
\* number of lots.
LEMMA LotsType ==
  ASSUME NEW account \in {s.account : s \in Stores}, NEW d, Made(d), NEW regime
  PROVE  /\ account.balance \in Nat /\ account.available \in Nat
         /\ account.balance * TierConfig[SymbolTier].risk * SizeMultiplier(regime) * Lot \in Nat
         /\ account.balance * TierConfig[SymbolTier].exposure * Lot \in Nat
         /\ account.available * EngineLeverage * Lot \in Nat
         /\ NotionalFloor * Lot \in Nat
         /\ RiskLots(account, d, SymbolTier, regime) \in Int
         /\ FloorLots(d) \in Int
         /\ CapLots(account, d, SymbolTier) \in Int
         /\ MarginLots(account, d) \in Int
         /\ Sized(account, d, SymbolTier, regime) \in Int
  <1>1. account.balance \in Nat /\ account.available \in Nat
    BY PreTradeAssumption
  <1>2. /\ TierConfig[SymbolTier].risk \in Nat /\ TierConfig[SymbolTier].exposure \in Nat
        /\ Lot \in Nat \ {0} /\ EngineLeverage \in Nat /\ NotionalFloor \in Nat
    BY RiskAssumption, PreTradeAssumption
  <1>3. SizeMultiplier(regime) \in Nat
    BY DEF SizeMultiplier
  <1>4. account.balance * TierConfig[SymbolTier].risk * SizeMultiplier(regime) * Lot \in Nat
    <2>1. account.balance * TierConfig[SymbolTier].risk \in Nat
      BY <1>1, <1>2, ProductNat
    <2>2. account.balance * TierConfig[SymbolTier].risk * SizeMultiplier(regime) \in Nat
      BY <2>1, <1>3, ProductNat
    <2>3. QED  BY <2>2, <1>2, ProductNat
  <1>5. account.balance * TierConfig[SymbolTier].exposure * Lot \in Nat
    <2>1. account.balance * TierConfig[SymbolTier].exposure \in Nat
      BY <1>1, <1>2, ProductNat
    <2>2. QED  BY <2>1, <1>2, ProductNat
  <1>6. account.available * EngineLeverage * Lot \in Nat
    <2>1. account.available * EngineLeverage \in Nat
      BY <1>1, <1>2, ProductNat
    <2>2. QED  BY <2>1, <1>2, ProductNat
  <1>7. NotionalFloor * Lot \in Nat
    BY <1>2, ProductNat
  <1>8. d.entry \in Nat \ {0} /\ d.stop \in Nat \ {0} /\ 100 * d.entry \in Nat \ {0}
    BY DEF Made, Bounded
  <1>9. \A a \in Nat, b \in Nat \ {0} : a \div b \in Int
    OBVIOUS
  <1>10. /\ RiskLots(account, d, SymbolTier, regime) \in Int /\ FloorLots(d) \in Int
         /\ CapLots(account, d, SymbolTier) \in Int /\ MarginLots(account, d) \in Int
    BY <1>4, <1>5, <1>6, <1>7, <1>8, <1>9 DEF RiskLots, FloorLots, CapLots, MarginLots
  <1>11. Sized(account, d, SymbolTier, regime) \in Int
    BY <1>10 DEF Sized, Larger, Smaller
  <1>12. QED  BY <1>1, <1>4, <1>5, <1>6, <1>7, <1>10, <1>11

\* A size the sizer gives respects each clamp.
LEMMA SizedBounds ==
  ASSUME NEW account \in {s.account : s \in Stores}, NEW d, Made(d), NEW regime,
         Sized(account, d, SymbolTier, regime) > 0
  PROVE  LET lots == Sized(account, d, SymbolTier, regime) IN
         /\ lots <= CapLots(account, d, SymbolTier)
         /\ lots <= MarginLots(account, d)
         /\ lots <= RiskLots(account, d, SymbolTier, regime) \/ lots <= FloorLots(d)
  BY LotsType DEF Sized, Larger, Smaller

\* What Size submits.
LEMMA SizeAffordable ==
  ASSUME PInv, Size, order'.status = "SUBMITTED"
  PROVE  OrderIsAffordable'
  <1> DEFINE d       == exec.d
             regime  == RegimeOf(d.z, EngineTh)
             account == store.account
             lots    == Sized(account, d, SymbolTier, regime)
             tier    == TierConfig[SymbolTier]
  <1>1. Made(d) /\ account \in {s.account : s \in Stores}
    BY DEF Size, PInv, PTypes, GeometriesKept
  <1>2. /\ order' = [status |-> "SUBMITTED", d |-> d, lots |-> lots, account |-> account]
        /\ ~ UnderFloor(lots, d) /\ ~ (lots <= 0)
    BY DEF Size, Rejected
  <1>3. lots \in Int /\ lots > 0
    <2>1. lots \in Int
      BY <1>1, LotsType
    <2> HIDE DEF lots
    <2>2. QED  BY <1>2, <2>1
  <1>4. /\ lots <= CapLots(account, d, SymbolTier)
        /\ lots <= MarginLots(account, d)
        /\ lots <= RiskLots(account, d, SymbolTier, regime) \/ lots <= FloorLots(d)
    BY <1>1, <1>3, SizedBounds
  <1>5. d.entry \in Nat \ {0} /\ d.stop \in Nat \ {0} /\ 100 * d.entry \in Nat \ {0}
    BY <1>1 DEF Made, Bounded
  <1> HIDE DEF lots
  <1>6. 100 * (lots * d.entry) <= account.balance * tier.exposure * Lot
    <2>1. lots * (100 * d.entry) <= account.balance * tier.exposure * Lot
      BY <1>1, <1>3, <1>4, <1>5, LotsType, QuotientBound DEF CapLots
    <2>2. lots * (100 * d.entry) = 100 * (lots * d.entry)
      BY <1>3, <1>5
    <2>3. QED  BY <2>1, <2>2
  <1>7. lots * d.entry <= account.available * EngineLeverage * Lot
    BY <1>1, <1>3, <1>4, <1>5, LotsType, QuotientBound DEF MarginLots
  <1>8. lots * d.entry >= NotionalFloor * Lot
    <2>1. NotionalFloor * Lot \in Int
      BY RiskAssumption
    <2>2. lots * d.entry \in Int
      BY <1>3, <1>5
    <2>3. QED  BY <1>2, <1>3, <2>1, <2>2 DEF UnderFloor
  <1>9. \/ lots * d.stop <= account.balance * tier.risk * SizeMultiplier(regime) * Lot
        \/ lots * d.entry <= NotionalFloor * Lot
    <2>1. CASE lots <= RiskLots(account, d, SymbolTier, regime)
      BY <1>1, <1>3, <1>5, <2>1, LotsType, QuotientBound DEF RiskLots
    <2>2. CASE lots <= FloorLots(d)
      BY <1>1, <1>3, <1>5, <2>2, LotsType, QuotientBound DEF FloorLots
    <2>3. QED  BY <1>4, <2>1, <2>2
  <1>10. account.balance * tier.risk * SizeMultiplier(regime) * Lot
         = account.balance * tier.risk * Lot * SizeMultiplier(regime)
    <2>1. SizeMultiplier(regime) \in Int
      BY DEF SizeMultiplier
    <2>2. account.balance \in Int /\ tier.risk \in Int /\ Lot \in Int
      BY <1>1, LotsType, RiskAssumption, PreTradeAssumption
    <2>3. QED  BY <2>1, <2>2
  <1>11. QED
    BY <1>2, <1>6, <1>7, <1>8, <1>9, <1>10 DEF OrderIsAffordable

\* Whatever account and positions change between the checks, an order keeps to
\* the tier's exposure, the margin and the floor of the account it was sized by:
\* only Size submits, and what it submits is affordable.
THEOREM OrdersAffordable == Spec => []OrderIsAffordable
  <1>1. Init => OrderIsAffordable
    BY DEF Init, OrderIsAffordable, Undecided
  <1>2. PInv /\ OrderIsAffordable /\ [Next]_vars => OrderIsAffordable'
    <2> SUFFICES ASSUME PInv, OrderIsAffordable, [Next]_vars  PROVE OrderIsAffordable'
      OBVIOUS
    <2>1. CASE UNCHANGED order
      BY <2>1 DEF OrderIsAffordable
    <2>2. CASE order'.status # "SUBMITTED"
      BY <2>2 DEF OrderIsAffordable
    <2>3. CASE Size
      BY <2>2, <2>3, SizeAffordable
    <2>4. SizeFails \/ NextReview \/ Take => order' = order \/ order'.status # "SUBMITTED"
      BY DEF SizeFails, NextReview, Take, Rejected, Undecided
    <2>5. Size \/ SizeFails \/ NextReview \/ Take \/ UNCHANGED order
      BY DEF Next, BarCloses, MarketMoves, StoreChanges, Tick, Scan, AnalystAnswers, Abandon,
             LoadTrader, TraderWaits, TraderChooses, Filter, CheckDrawdown, CheckExposure,
             CheckMargin, CheckFails, Go, engineVars, vars
    <2>6. QED  BY <2>1, <2>2, <2>3, <2>4, <2>5
  <1>3. QED  BY <1>1, <1>2, PInvInvariant, PTL DEF Spec
-----------------------------------------------------------------------------
(* Types: the bounds of the counters, the stages, and a geometry that is   *)
(* remembered or filtered is one that computed.                            *)

TCounters == bar.n <= MaxBars /\ shifts \in 0..MaxShifts /\ age \in -1..MaxAge

TStages ==
  /\ stage \in Stages
  /\ exec # None => exec.check \in Checks
  /\ order.status \in {"none", "SUBMITTED", "REJECTED", "EXPIRED"}

Computed ==
  /\ memo # None /\ memo.geometry # None => memo.geometry.geometry.ok
  /\ stage = "filtering" => geometry.geometry.ok

TInv == TCounters /\ TStages /\ Computed

\* The counters start at their lower bounds.
LEMMA InitTInv == Init => TInv
  BY PreTradeAssumption
  DEF Init, TInv, TCounters, TStages, Computed, Stages, Undecided

\* Every stage keeps the bounds, and hands on geometries that computed.
LEMMA StepTInv == PInv /\ TInv /\ [Next]_vars => TInv'
  <1> SUFFICES ASSUME PInv, TInv, [Next]_vars  PROVE TInv'
    OBVIOUS
  <1> USE DEF TInv, Stages, Checks, marketVars, memoVars, reviewVars, engineVars
  <1>0. bar.n \in Nat /\ (exec # None => exec = [d |-> exec.d, check |-> exec.check,
                                                 refusals |-> exec.refusals])
    BY DEF PInv, PTypes, GeometriesKept
  <1>1. CASE BarCloses
    <2>1. bar'.n <= MaxBars
      <3>1. CASE bar.n < MaxBars /\ \E data \in Candles :
                   bar' = [n |-> bar.n + 1, data |-> data, complete |-> TRUE]
        BY <1>0, <3>1, PreTradeAssumption
      <3>2. CASE \E data \in Candles : bar' = [bar EXCEPT !.data = data, !.complete = TRUE]
        BY <3>2 DEF TCounters, PInv, PTypes
      <3>3. QED  BY <1>1, <3>1, <3>2 DEF BarCloses
    <2>2. UNCHANGED <<shifts, stage, memo, geometry, age, exec, order>>
      BY <1>1 DEF BarCloses
    <2>3. QED  BY <2>1, <2>2 DEF TCounters, TStages, Computed
  <1>2. CASE MarketMoves \/ StoreChanges
    <2>1. shifts' \in 0..MaxShifts
      BY <1>2, PreTradeAssumption DEF MarketMoves, StoreChanges, TCounters
    <2>2. UNCHANGED <<bar, stage, memo, geometry, age, exec, order>>
      BY <1>2 DEF MarketMoves, StoreChanges
    <2>3. QED  BY <2>1, <2>2 DEF TCounters, TStages, Computed
  <1>3. CASE Tick
    <2>1. age' \in -1..MaxAge
      BY <1>3, PreTradeAssumption DEF Tick, TCounters
    <2>2. UNCHANGED <<bar, shifts, stage, memo, geometry, exec, order>>
      BY <1>3 DEF Tick
    <2>3. QED  BY <2>1, <2>2 DEF TCounters, TStages, Computed
  <1>4. ASSUME NEW a, NEW regime, NEW trend, Judge(a, regime, trend),
               UNCHANGED <<bar, shifts, memo, geometry, age, exec, order>>
        PROVE  TInv'
    BY <1>4 DEF Judge, TCounters, TStages, Computed
  <1>5. CASE Scan
    <2>1. UNCHANGED <<bar, shifts, memo, geometry, age, exec, order>>
      BY <1>5 DEF Scan
    <2>2. CASE analysed # None /\ analysed.n = bar.n
      BY <1>4, <1>5, <2>1, <2>2 DEF Scan
    <2>3. CASE ~ (analysed # None /\ analysed.n = bar.n)
      BY <1>5, <2>1, <2>3 DEF Scan, TCounters, TStages, Computed
    <2>4. QED  BY <2>2, <2>3
  <1>6. ASSUME NEW a \in Analyses, AnalystAnswers(a)  PROVE TInv'
    BY <1>4, <1>6 DEF AnalystAnswers
  <1>7. CASE Abandon
    BY <1>7 DEF Abandon, TCounters, TStages, Computed
  <1>8. CASE LoadTrader
    <2>1. \/ /\ memo # None /\ memo.geometry # None /\ memo' = memo
             /\ stage' = "filtering" /\ geometry' = memo.geometry
          \/ stage' = "idle" /\ geometry' = geometry /\ memo' = memo
          \/ stage' = "idle" /\ geometry' = geometry /\ memo'.geometry = None
          \/ stage' = "deciding" /\ geometry' = geometry /\ memo' = memo
      BY <1>8 DEF LoadTrader, Remembered, Remember
    <2>2. UNCHANGED <<bar, shifts, age, exec, order>>
      BY <1>8 DEF LoadTrader
    <2>3. QED  BY <2>1, <2>2 DEF TCounters, TStages, Computed
  <1>9. CASE TraderWaits
    BY <1>9 DEF TraderWaits, Remember, TCounters, TStages, Computed
  <1>10. ASSUME NEW c \in Choices, TraderChooses(c)  PROVE TInv'
    <2> DEFINE g    == Compute(c.structure, InputsOf(deps))
               kept == [geometry |-> g, confidence |-> c.confidence, atr |-> deps.atr]
    <2>1. \/ g.ok /\ stage' = "filtering" /\ geometry' = kept /\ memo'.geometry = kept
          \/ stage' = "idle" /\ geometry' = geometry /\ memo' = memo
          \/ stage' = "idle" /\ geometry' = geometry /\ memo'.geometry = None
      BY <1>10 DEF TraderChooses, Remember
    <2>2. kept.geometry = g
      OBVIOUS
    <2>3. UNCHANGED <<bar, shifts, age, exec, order>>
      BY <1>10 DEF TraderChooses
    <2> HIDE DEF kept, g
    <2>4. QED  BY <2>1, <2>2, <2>3 DEF TCounters, TStages, Computed
  <1>11. CASE Filter
    BY <1>11, PreTradeAssumption DEF Filter, TCounters, TStages, Computed
  <1>12. CASE Take
    BY <1>12 DEF Take, TCounters, TStages, Computed
  <1>13. ASSUME NEW check, NEW next \in Checks, NEW refusals, Go(check, next, refusals)
         PROVE  TInv'
    BY <1>0, <1>13 DEF Go, TCounters, TStages, Computed
  <1>14. CASE CheckDrawdown \/ CheckExposure \/ CheckMargin
    BY <1>13, <1>14 DEF CheckDrawdown, CheckExposure, CheckMargin
  <1>15. CASE CheckFails
    BY <1>0, <1>15 DEF CheckFails, TCounters, TStages, Computed
  <1>16. CASE Size \/ SizeFails
    BY <1>16 DEF Size, SizeFails, Rejected, TCounters, TStages, Computed
  <1>17. CASE NextReview
    BY <1>17 DEF NextReview, Undecided, TCounters, TStages, Computed
  <1>18. CASE UNCHANGED vars
    BY <1>18 DEF vars, TCounters, TStages, Computed
  <1>19. QED
    BY <1>1, <1>2, <1>3, <1>5, <1>6, <1>7, <1>8, <1>9, <1>10, <1>11, <1>12, <1>14,
       <1>15, <1>16, <1>17, <1>18 DEF Next

\* Every variable of the review, the queue and the engine has its type; what is
\* filtered, fresh or remembered, is a geometry and never a rejection.
THEOREM PreTypeCorrect == Spec => []TypeOK
  <1>1. PInv /\ TInv => TypeOK
    <2> SUFFICES ASSUME PInv, TInv  PROVE TypeOK
      OBVIOUS
    <2>1. bar.n \in 1..MaxBars /\ bar.data \in Candles /\ bar.complete \in BOOLEAN
      BY PreTradeAssumption DEF PInv, PTypes, TInv, TCounters
    <2>2. Loaded => /\ deps # None /\ deps.n \in 1..MaxBars /\ deps.atr \in Nat
                    /\ deps.analysis \in Analyses
      BY <2>1, NoDepsAssumption, PreTradeAssumption DEF PInv, PTypes, OneAtrPerCandle, DepsType
    <2>3. queue # None => queue.entry \in Nat \ {0} /\ queue.stop \in Nat /\ queue.target \in Nat
      BY DEF PInv, GeometriesKept, Made, Bounded
    <2>4. QED
      BY <2>1, <2>2, <2>3
      DEF TypeOK, Loaded, PInv, PTypes, TInv, TCounters, TStages, Computed
  <1>2. Spec => []TInv
    BY InitTInv, StepTInv, PInvInvariant, PTL DEF Spec
  <1>3. QED  BY <1>1, <1>2, PInvInvariant, PTL
-----------------------------------------------------------------------------
(* More volume.                                                            *)

\* Of the criteria some ask for a volume of at least so much, none for less.
LEMMA FiresOnMore ==
  ASSUME NEW v \in Views, v.vol # None, NEW more \in Nat, v.vol <= more,
         NEW pattern \in Pattern, Fires(pattern, v)
  PROVE  Fires(pattern, [v EXCEPT !.vol = more])
  <1> DEFINE w == [v EXCEPT !.vol = more]
  <1>1. /\ w.pctB = v.pctB /\ w.rsi = v.rsi /\ w.ema = v.ema /\ w.histogram = v.histogram
        /\ w.candles = v.candles /\ w.vol = more
    BY DEF Views
  <1>2. more # None
    BY NoneAssumption
  <1>3. v.vol \in Nat
    BY DEF Views
  <1> HIDE DEF w
  <1>4. \A bound \in Nat : v.vol >= bound => w.vol >= bound
    BY <1>1, <1>3
  <1>5. Breakout(v) => Breakout(w)
    BY <1>1, <1>2, <1>4, ScoutAssumption DEF Breakout, ScoutConfig
  <1>6. TrendContinuation(v) => TrendContinuation(w)
    BY <1>1, <1>2, <1>4, ScoutAssumption DEF TrendContinuation, ScoutConfig
  <1>7. Reversal(v) => Reversal(w)
    BY <1>1, Zenon DEF Reversal
  <1>8. VolumeSpike(v) => VolumeSpike(w)
    BY <1>1, <1>2, <1>4, ScoutAssumption DEF VolumeSpike, ScoutConfig
  <1>9. MomentumShift(v) => MomentumShift(w)
    BY <1>1, Zenon DEF MomentumShift
  <1>10. TrendPullback(v) => TrendPullback(w)
    BY <1>1 DEF TrendPullback
  <1>11. Fires(pattern, w)
    <2>1. pattern \in {"BREAKOUT", "TREND_CONTINUATION", "REVERSAL", "VOLUME_SPIKE",
                       "MOMENTUM_SHIFT", "TREND_PULLBACK"}
      BY DEF Pattern, Patterns
    <2>2. QED
      BY <1>5, <1>6, <1>7, <1>8, <1>9, <1>10, <2>1 DEF Fires
  <1>12. QED  BY <1>11 DEF w

\* So the gates pass and the matches only grow.
LEMMA InterestingOnMore ==
  ASSUME NEW v \in Views, v.vol # None, NEW more \in Nat, v.vol <= more,
         NEW regime, NEW tier, NEW atr, NEW price,
         Interesting(regime, tier, atr, price, v)
  PROVE  Interesting(regime, tier, atr, price, [v EXCEPT !.vol = more])
  <1> DEFINE w == [v EXCEPT !.vol = more]
  <1>1. w.atrHistory = v.atrHistory /\ w.vol = more /\ v.vol \in Nat
    BY DEF Views
  <1>2. \A i \in DOMAIN Patterns : Fires(Patterns[i], v) => Fires(Patterns[i], w)
    BY FiresOnMore DEF Pattern
  <1> HIDE DEF w
  <1>3. VolumePasses(w.vol)
    BY <1>1, ScoutAssumption DEF Interesting, VolumePasses, ScoutConfig
  <1>4. Matches(regime, tier, v) \subseteq Matches(regime, tier, w)
    BY <1>2, Zenon DEF Matches
  <1>5. Interesting(regime, tier, atr, price, w)
    BY <1>1, <1>3, <1>4 DEF Interesting
  <1>6. QED  BY <1>5 DEF w

\* The scout's gates and criteria never turn against a candle for trading more:
\* a symbol it lets through it would let through with any higher volume.
THEOREM VolumeMonotoneHolds == Spec => []VolumeMonotone
  <1>1. PInv => VolumeMonotone
    <2> SUFFICES ASSUME PInv  PROVE VolumeMonotone
      OBVIOUS
    <2>1. bar.data.view \in Views
      BY PreTradeAssumption DEF PInv, PTypes
    <2>2. \A more \in {50, 150, 200, 400} : more \in Nat
      OBVIOUS
    <2>3. QED  BY <2>1, <2>2, InterestingOnMore DEF VolumeMonotone
  <1>2. QED  BY <1>1, PInvInvariant, PTL

-----------------------------------------------------------------------------
(* The market upside down.                                                 *)

\* The bounds of a configuration turned over.
LEMMA MirrorFiltersParts ==
  LET g == MirrorFilters(Filters) IN
  /\ g.fear = 100 - Filters.greed /\ g.greed = 100 - Filters.fear
  /\ g.elevatedFear = 100 - Filters.elevatedGreed
  /\ g.elevatedGreed = 100 - Filters.elevatedFear
  /\ g.elevatedFearMin = Filters.elevatedGreedMin
  /\ g.elevatedGreedMin = Filters.elevatedFearMin
  /\ g.stretchedLong = 100 - Filters.stretchedShort
  /\ g.stretchedShort = 100 - Filters.stretchedLong
  /\ \A tier \in Tiers : /\ g.crowdedLong[tier] = 0 - Filters.crowdedShort[tier]
                          /\ g.crowdedShort[tier] = 0 - Filters.crowdedLong[tier]
  /\ g.minBody = Filters.minBody /\ g.spikeBody = Filters.spikeBody
  /\ g.fearBypass = Filters.fearBypass /\ g.movementBypass = Filters.movementBypass
  BY FilterAssumption DEF MirrorFilters, FilterConfig

\* The configured bounds are numbers.
LEMMA FiltersType ==
  /\ Filters.fear \in Int /\ Filters.greed \in Int
  /\ Filters.elevatedFear \in Int /\ Filters.elevatedGreed \in Int
  /\ Filters.stretchedLong \in Int /\ Filters.stretchedShort \in Int
  /\ \A tier \in Tiers : Filters.crowdedLong[tier] \in Int /\ Filters.crowdedShort[tier] \in Int
  BY FilterAssumption DEF FilterConfig

\* What the rules read of a mirrored view.
LEMMA MirrorViewParts ==
  ASSUME NEW v \in Views
  PROVE  LET w == MirrorView(v) IN
         /\ w.vol = v.vol
         /\ IF v.pctB = None THEN w.pctB = None
            ELSE w.pctB = 100 - v.pctB /\ w.pctB # None /\ v.pctB \in Int
         /\ IF v.rsi = None THEN w.rsi = None
            ELSE w.rsi = 10000 - v.rsi /\ w.rsi # None /\ v.rsi \in Int
         /\ IF v.ema = None THEN w.ema = None
            ELSE /\ w.ema # None /\ v.ema \in Averages
                 /\ \A i \in 1..3 : w.ema[i] = 0 - v.ema[i]
         /\ IF v.bollinger = None THEN w.bollinger = None
            ELSE /\ w.bollinger # None /\ v.bollinger \in Bands
                 /\ w.bollinger.lower = 0 - v.bollinger.upper
                 /\ w.bollinger.upper = 0 - v.bollinger.lower
  <1> DEFINE w == MirrorView(v)
  <1>1. /\ w.vol = v.vol
        /\ w.pctB = IF v.pctB = None THEN None ELSE 100 - v.pctB
        /\ w.rsi = IF v.rsi = None THEN None ELSE 10000 - v.rsi
        /\ w.ema = IF v.ema = None THEN None ELSE [i \in 1..3 |-> 0 - v.ema[i]]
        /\ w.bollinger = IF v.bollinger = None THEN None
                         ELSE [lower |-> 0 - v.bollinger.upper, upper |-> 0 - v.bollinger.lower]
    BY DEF MirrorView, Views
  <1> HIDE DEF w
  <1>2. v.pctB # None => w.pctB = 100 - v.pctB /\ w.pctB # None /\ v.pctB \in Int
    BY <1>1, NoneAssumption DEF Views
  <1>3. v.rsi # None => w.rsi = 10000 - v.rsi /\ w.rsi # None /\ v.rsi \in Int
    BY <1>1, NoneAssumption DEF Views
  <1>4. v.ema # None => /\ w.ema # None /\ v.ema \in Averages
                        /\ \A i \in 1..3 : w.ema[i] = 0 - v.ema[i]
    <2> SUFFICES ASSUME v.ema # None
                 PROVE  /\ w.ema # None /\ v.ema \in Averages
                        /\ \A i \in 1..3 : w.ema[i] = 0 - v.ema[i]
      OBVIOUS
    <2>1. v.ema \in Averages
      BY DEF Views
    <2>2. w.ema = [i \in 1..3 |-> 0 - v.ema[i]]
      BY <1>1
    <2>3. w.ema \in Averages
      BY <2>1, <2>2 DEF Averages
    <2>4. QED  BY <2>1, <2>2, <2>3, NoneAssumption
  <1>5. v.bollinger # None => /\ w.bollinger # None /\ v.bollinger \in Bands
                              /\ w.bollinger.lower = 0 - v.bollinger.upper
                              /\ w.bollinger.upper = 0 - v.bollinger.lower
    <2> SUFFICES ASSUME v.bollinger # None
                 PROVE  /\ w.bollinger # None /\ v.bollinger \in Bands
                        /\ w.bollinger.lower = 0 - v.bollinger.upper
                        /\ w.bollinger.upper = 0 - v.bollinger.lower
      OBVIOUS
    <2>1. v.bollinger \in Bands
      BY DEF Views
    <2>2. w.bollinger = [lower |-> 0 - v.bollinger.upper, upper |-> 0 - v.bollinger.lower]
      BY <1>1
    <2>3. w.bollinger \in Bands
      BY <2>1, <2>2 DEF Bands
    <2>4. QED  BY <2>1, <2>2, <2>3, NoneAssumption
  <1>6. QED  BY <1>1, <1>2, <1>3, <1>4, <1>5 DEF w

\* A mirrored candle is a candle.
LEMMA MirrorCandleType ==
  ASSUME NEW c \in CandleData
  PROVE  MirrorCandle(c) \in CandleData
  <1>1. c.open \in Int /\ c.close \in Int /\ c.high \in Int /\ c.low \in Int
    BY DEF CandleData
  <1>2. /\ 0 - c.open \in Int /\ 0 - c.close \in Int
        /\ 0 - c.high \in Int /\ 0 - c.low \in Int
    BY <1>1
  <1>3. \A e \in CandleData, x \in Int :
           /\ [e EXCEPT !.open = x] \in CandleData /\ [e EXCEPT !.close = x] \in CandleData
           /\ [e EXCEPT !.high = x] \in CandleData /\ [e EXCEPT !.low = x] \in CandleData
    BY DEF CandleData
  <1>4. [c EXCEPT !.open = 0 - c.open, !.close = 0 - c.close] \in CandleData
    BY <1>2, <1>3
  <1>5. [c EXCEPT !.open = 0 - c.open, !.close = 0 - c.close,
                  !.high = 0 - c.low, !.low = 0 - c.high] \in CandleData
    BY <1>2, <1>3, <1>4
  <1>6. QED  BY <1>5 DEF MirrorCandle

\* The latest candle of the mirrored view is the mirrored latest candle.
LEMMA MirrorLatest ==
  ASSUME NEW v \in Views
  PROVE  LET a == Latest(v.candles)
             b == Latest(MirrorView(v).candles)
         IN /\ a.close \in Int /\ b.close = 0 - a.close
            /\ Body(v) \in Int /\ Body(MirrorView(v)) = 0 - Body(v)
  <1> DEFINE n == Len(v.candles)
             mirrored == [i \in 1..n |-> MirrorCandle(v.candles[i])]
  <1>1. v.candles \in Seq(CandleData) /\ n \in Nat \ {0} /\ DOMAIN v.candles = 1..n
    BY DEF Views
  <1>2. v.candles[n] \in CandleData
    BY <1>1
  <1>3. MirrorView(v).candles = mirrored
    BY <1>1 DEF MirrorView, Views
  <1>4. \A i \in 1..n : mirrored[i] \in CandleData
    <2> TAKE i \in 1..n
    <2>1. v.candles[i] \in CandleData
      BY <1>1
    <2>2. MirrorCandle(v.candles[i]) \in CandleData
      BY <2>1, MirrorCandleType
    <2>3. QED  BY <2>2
  <1>5. mirrored \in Seq(CandleData) /\ Len(mirrored) = n
    <2>1. mirrored \in [1..n -> CandleData]
      BY <1>4
    <2>2. n \in Nat
      BY <1>1
    <2> HIDE DEF mirrored, n
    <2>3. QED  BY <2>1, <2>2
  <1>6. Latest(MirrorView(v).candles) = MirrorCandle(v.candles[n])
    BY <1>1, <1>3, <1>5 DEF Latest
  <1> DEFINE a == v.candles[n]
  <1>7. /\ MirrorCandle(a).close = 0 - a.close /\ MirrorCandle(a).open = 0 - a.open
        /\ a.close \in Int /\ a.open \in Int
    BY <1>2 DEF MirrorCandle, CandleData
  <1>8. Latest(v.candles) = a
    BY DEF Latest
  <1> HIDE DEF a, mirrored, n
  <1>9. QED  BY <1>6, <1>7, <1>8 DEF Body, a

\* What the rules read of a mirrored order flow.
LEMMA MirrorFlowParts ==
  ASSUME NEW flow \in OrderFlows
  PROVE  LET f == MirrorFlow(flow) IN
         /\ flow # None /\ f # None /\ flow.funding \in Int /\ flow.oi \in Int
         /\ f.funding = 0 - flow.funding /\ f.oi = 0 - flow.oi
         /\ \A side \in Sides : flow.divergence = side <=> f.divergence = Opposite(side)
  <1>1. flow # None
    BY NoneAssumption
  <1> DEFINE opposed == IF flow.divergence = None THEN None ELSE Opposite(flow.divergence)
  <1>2. MirrorFlow(flow) = [funding |-> 0 - flow.funding, oi |-> 0 - flow.oi,
                            divergence |-> opposed]
    BY <1>1 DEF MirrorFlow
  <1>3. /\ flow.funding \in Int /\ flow.oi \in Int
        /\ flow.divergence \in Sides \cup {None}
    BY DEF OrderFlows
  <1>4. opposed \in Sides \cup {None}
    BY <1>3 DEF Opposite, Sides
  <1>5. \A side \in Sides : flow.divergence = side <=> opposed = Opposite(side)
    BY <1>3, NoneAssumption DEF Opposite, Sides
  <1> HIDE DEF opposed
  <1>6. MirrorFlow(flow) \in OrderFlows
    BY <1>2, <1>3, <1>4 DEF OrderFlows
  <1>7. QED  BY <1>1, <1>2, <1>3, <1>5, <1>6, NoneAssumption
\* Averages that rise in one market fall in the other.
LEMMA AlignedMirrored ==
  ASSUME NEW v \in Views, NEW side \in Sides
  PROVE  Aligned(side, v) <=> Aligned(Opposite(side), MirrorView(v))
  <1> DEFINE w == MirrorView(v)
  <1>1. CASE v.ema = None
    BY <1>1, MirrorViewParts DEF Aligned
  <1>2. CASE v.ema # None
    <2>1. /\ w.ema # None
          /\ w.ema[1] = 0 - v.ema[1] /\ w.ema[2] = 0 - v.ema[2] /\ w.ema[3] = 0 - v.ema[3]
          /\ v.ema[1] \in Int /\ v.ema[2] \in Int /\ v.ema[3] \in Int
      BY <1>2, MirrorViewParts DEF Averages
    <2> HIDE DEF w
    <2>2. Aligned(side, v) <=> Aligned(Opposite(side), w)
      BY <1>2, <2>1 DEF Aligned, Opposite, Sides
    <2>3. QED  BY <2>2 DEF w
  <1>3. QED  BY <1>1, <1>2

\* The bands of a SHORT are those of a LONG from the other end.
LEMMA RsiBandMirrored ==
  ASSUME NEW side, NEW other, side = "LONG" <=> other # "LONG",
         NEW aligned \in BOOLEAN, NEW rsi \in Int
  PROVE  rsi \in RsiBand(side, aligned) <=> 10000 - rsi \in RsiBand(other, aligned)
  <1>1. CASE side = "LONG" /\ aligned
    BY <1>1 DEF RsiBand
  <1>2. CASE side = "LONG" /\ ~ aligned
    BY <1>2 DEF RsiBand
  <1>3. CASE side # "LONG" /\ aligned
    <2>1. RsiBand(side, aligned) = 3000..5000 /\ RsiBand(other, aligned) = 5000..7000
      BY <1>3 DEF RsiBand
    <2>2. QED  BY <2>1
  <1>4. CASE side # "LONG" /\ ~ aligned
    BY <1>4, SMTT(30) DEF RsiBand
  <1>5. QED  BY <1>1, <1>2, <1>3, <1>4

\* The score counts for a LONG what it counts for a SHORT in the market upside
\* down, whatever the configuration: ConfluenceCalculator favours no side.
THEOREM ScoreMirrored ==
  ASSUME NEW v \in Views, NEW flow \in OrderFlows \cup {None}, NEW side \in Sides
  PROVE  Score(side, v, flow) = Score(Opposite(side), MirrorView(v), MirrorFlow(flow))
  <1> DEFINE w     == MirrorView(v)
             other == Opposite(side)
             long  == Aligned(side, v)
  <1>1. other \in Sides /\ (side = "LONG" <=> other # "LONG") /\ long \in BOOLEAN
    BY DEF Opposite, Sides, Aligned
  <1>2. long = Aligned(other, w)
    BY AlignedMirrored DEF Aligned
  <1>3. (v.rsi # None /\ v.rsi \in RsiBand(side, long))
        <=> (w.rsi # None /\ w.rsi \in RsiBand(other, long))
    <2>1. CASE v.rsi = None
      BY <2>1, MirrorViewParts
    <2>2. CASE v.rsi # None
      <3>1. w.rsi = 10000 - v.rsi /\ w.rsi # None /\ v.rsi \in Int
        BY <2>2, MirrorViewParts
      <3> HIDE DEF w, other, long
      <3>2. v.rsi \in RsiBand(side, long) <=> w.rsi \in RsiBand(other, long)
        BY <1>1, <3>1, RsiBandMirrored
      <3>3. QED  BY <2>2, <3>1, <3>2
    <2>3. QED  BY <2>1, <2>2
  <1>4. AtBollinger(side, v) <=> AtBollinger(other, w)
    <2>1. CASE v.bollinger = None
      BY <2>1, MirrorViewParts DEF AtBollinger
    <2>2. CASE v.bollinger # None
      <3>1. /\ w.bollinger # None
            /\ w.bollinger.lower = 0 - v.bollinger.upper
            /\ w.bollinger.upper = 0 - v.bollinger.lower
            /\ v.bollinger.lower \in Int /\ v.bollinger.upper \in Int
        BY <2>2, MirrorViewParts DEF Bands
      <3>2. /\ Latest(v.candles).close \in Int
            /\ Latest(w.candles).close = 0 - Latest(v.candles).close
        BY MirrorLatest
      <3>3. long <=> Aligned(other, w)
        BY <1>2
      <3> DEFINE a == Latest(v.candles).close
                 b == Latest(w.candles).close
                 lo == v.bollinger.lower
                 hi == v.bollinger.upper
      <3>4. (b >= w.bollinger.upper <=> a <= lo) /\ (b <= w.bollinger.lower <=> a >= hi)
        BY <3>1, <3>2
      <3> HIDE DEF a, b, lo, hi, w, other, long
      <3>5. CASE side = "LONG"
        <4>1. AtBollinger(side, v) <=> (a <= lo \/ (long /\ a >= hi))
          BY <2>2, <3>5 DEF AtBollinger, a, lo, hi, long
        <4>2. AtBollinger(other, w) <=> (b >= w.bollinger.upper \/ (long /\ b <= w.bollinger.lower))
          BY <1>1, <3>1, <3>3, <3>5 DEF AtBollinger, b
        <4>3. QED  BY <3>4, <4>1, <4>2
      <3>6. CASE side # "LONG"
        <4>1. AtBollinger(side, v) <=> (a >= hi \/ (long /\ a <= lo))
          BY <2>2, <3>6 DEF AtBollinger, a, lo, hi, long
        <4>2. AtBollinger(other, w) <=> (b <= w.bollinger.lower \/ (long /\ b >= w.bollinger.upper))
          BY <1>1, <3>1, <3>3, <3>6 DEF AtBollinger, b
        <4>3. QED  BY <3>4, <4>1, <4>2
      <3>7. QED  BY <3>5, <3>6
    <2>3. QED  BY <2>1, <2>2
  <1>5. (v.vol # None /\ v.vol > 100) <=> (w.vol # None /\ w.vol > 100)
    BY MirrorViewParts
  <1>6. FlowSignals(side, flow) = FlowSignals(other, MirrorFlow(flow))
    <2>1. CASE flow = None
      BY <2>1 DEF FlowSignals, MirrorFlow
    <2>2. CASE flow # None
      <3> DEFINE f == MirrorFlow(flow)
      <3>1. /\ f # None /\ flow.funding \in Int /\ flow.oi \in Int
            /\ f.funding = 0 - flow.funding /\ f.oi = 0 - flow.oi
            /\ flow.divergence = side <=> f.divergence = other
        BY <2>2, MirrorFlowParts
      <3> HIDE DEF f, other
      <3>2. (IF side = "LONG" THEN flow.funding <= 0 ELSE flow.funding >= 0)
            <=> (IF other = "LONG" THEN f.funding <= 0 ELSE f.funding >= 0)
        BY <1>1, <3>1
      <3>3. (IF side = "LONG" THEN flow.oi > 0 ELSE flow.oi < 0)
            <=> (IF other = "LONG" THEN f.oi > 0 ELSE f.oi < 0)
        BY <1>1, <3>1
      <3>4. FlowSignals(side, flow) = FlowSignals(other, f)
        BY <2>2, <3>1, <3>2, <3>3 DEF FlowSignals
      <3>5. QED  BY <3>4 DEF f
    <2>3. QED  BY <2>1, <2>2
  <1>7. Signals(side, v, flow) = Signals(other, w, MirrorFlow(flow))
    <2>1. (v.rsi # None /\ v.rsi \in RsiBand(side, Aligned(side, v)))
          <=> (w.rsi # None /\ w.rsi \in RsiBand(other, Aligned(other, w)))
      BY <1>2, <1>3
    <2>2. Aligned(side, v) <=> Aligned(other, w)
      BY <1>2
    <2> HIDE DEF w, other, long
    <2>3. QED  BY <1>4, <1>5, <1>6, <2>1, <2>2 DEF Signals
  <1>8. QED  BY <1>7 DEF Score

\* The stretch a breakout is refused at, of either side.
LEMMA OverextendedMirrored ==
  ASSUME NEW v \in Views, NEW side \in Sides, NEW pattern
  PROVE  Overextended(Filters, pattern, side, v)
         <=> Overextended(MirrorFilters(Filters), pattern, Opposite(side), MirrorView(v))
  <1> DEFINE w == MirrorView(v)
             g == MirrorFilters(Filters)
  <1>1. CASE v.pctB = None
    BY <1>1, MirrorViewParts DEF Overextended
  <1>2. CASE v.pctB # None
    <2>1. w.pctB = 100 - v.pctB /\ w.pctB # None /\ v.pctB \in Int
      BY <1>2, MirrorViewParts
    <2>2. /\ g.stretchedShort = 100 - Filters.stretchedLong
          /\ g.stretchedLong = 100 - Filters.stretchedShort
          /\ Filters.stretchedLong \in Int /\ Filters.stretchedShort \in Int
      BY MirrorFiltersParts, FiltersType
    <2> HIDE DEF w, g
    <2>3. Overextended(Filters, pattern, side, v) <=> Overextended(g, pattern, Opposite(side), w)
      BY <1>2, <2>1, <2>2 DEF Overextended, Opposite, Sides
    <2>4. QED  BY <2>3 DEF w, g
  <1>3. QED  BY <1>1, <1>2

\* The Analyst's gate: what fear asks of a LONG, greed asks of a SHORT.
LEMMA GateMirrored ==
  ASSUME NEW side \in Sides, NEW fgi \in Int \cup {None}, NEW regime
  PROVE  Gate(Filters, regime, side, fgi, side)
         = Gate(MirrorFilters(Filters), regime, Opposite(side), MirrorFgi(fgi), Opposite(side))
  <1> DEFINE g == MirrorFilters(Filters)
  <1>1. ConfluenceOverride(Filters, side, fgi)
        = ConfluenceOverride(g, Opposite(side), MirrorFgi(fgi))
    <2>1. CASE fgi = None
      BY <2>1 DEF ConfluenceOverride, MirrorFgi
    <2>2. CASE fgi # None
      <3>1. fgi \in Int /\ MirrorFgi(fgi) = 100 - fgi /\ MirrorFgi(fgi) # None
        BY <2>2, NoneAssumption DEF MirrorFgi
      <3>2. /\ g.greed = 100 - Filters.fear /\ g.fear = 100 - Filters.greed
            /\ g.elevatedGreed = 100 - Filters.elevatedFear
            /\ g.elevatedFear = 100 - Filters.elevatedGreed
            /\ g.elevatedGreedMin = Filters.elevatedFearMin
            /\ g.elevatedFearMin = Filters.elevatedGreedMin
        BY MirrorFiltersParts
      <3> HIDE DEF g
      <3>3. QED
        BY <2>2, <3>1, <3>2, FiltersType DEF ConfluenceOverride, Opposite, Sides
    <2>3. QED  BY <2>1, <2>2
  <1>2. QED  BY <1>1 DEF Gate

\* The filters that see a side, and those that see only how far the candle went.
LEMMA ChainMirrored ==
  ASSUME NEW v \in Views, NEW side \in Sides, NEW flow \in OrderFlows \cup {None},
         NEW fgi \in Int \cup {None}, NEW atr \in Nat, NEW held, NEW regime,
         NEW tier \in Tiers, NEW score
  PROVE  ChainAllows(Filters, side, v, atr, flow, fgi, held, regime, tier, score)
         <=> ChainAllows(MirrorFilters(Filters), Opposite(side), MirrorView(v), atr,
                         MirrorFlow(flow), MirrorFgi(fgi), held, regime, tier, score)
  <1> DEFINE w     == MirrorView(v)
             other == Opposite(side)
             g     == MirrorFilters(Filters)
  <1>1. FearGreedAllows(Filters, fgi) <=> FearGreedAllows(g, MirrorFgi(fgi))
    <2>1. CASE fgi = None
      BY <2>1 DEF FearGreedAllows, MirrorFgi
    <2>2. CASE fgi # None
      <3>1. fgi \in Int /\ MirrorFgi(fgi) = 100 - fgi /\ MirrorFgi(fgi) # None
        BY <2>2, NoneAssumption DEF MirrorFgi
      <3>2. g.greed = 100 - Filters.fear /\ g.fear = 100 - Filters.greed
        BY MirrorFiltersParts
      <3> HIDE DEF g
      <3>3. QED  BY <2>2, <3>1, <3>2, FiltersType DEF FearGreedAllows
    <2>3. QED  BY <2>1, <2>2
  <1>2. FundingAllows(Filters, side, flow, tier) <=> FundingAllows(g, other, MirrorFlow(flow), tier)
    <2>1. CASE flow = None
      BY <2>1 DEF FundingAllows, MirrorFlow
    <2>2. CASE flow # None
      <3> DEFINE f == MirrorFlow(flow)
      <3>1. f # None /\ flow.funding \in Int /\ f.funding = 0 - flow.funding
        BY <2>2, MirrorFlowParts
      <3>2. /\ g.crowdedShort[tier] = 0 - Filters.crowdedLong[tier]
            /\ g.crowdedLong[tier] = 0 - Filters.crowdedShort[tier]
            /\ Filters.crowdedLong[tier] \in Int /\ Filters.crowdedShort[tier] \in Int
        BY MirrorFiltersParts, FiltersType
      <3> HIDE DEF f, g
      <3>3. FundingAllows(Filters, side, flow, tier) <=> FundingAllows(g, other, f, tier)
        BY <2>2, <3>1, <3>2 DEF FundingAllows, Opposite, Sides
      <3>4. QED  BY <3>3 DEF f
    <2>3. QED  BY <2>1, <2>2
  <1>3. Body(v) \in Int /\ Body(w) = 0 - Body(v)
    BY MirrorLatest
  <1>4. Magnitude(Body(w)) = Magnitude(Body(v)) /\ Magnitude(Body(v)) \in Nat
    <2> HIDE DEF w
    <2>1. QED  BY <1>3 DEF Magnitude
  <1>5. /\ g.minBody = Filters.minBody /\ g.spikeBody = Filters.spikeBody
        /\ g.fearBypass = Filters.fearBypass /\ g.movementBypass = Filters.movementBypass
    BY MirrorFiltersParts
  <1> HIDE DEF g
  <1>6. MovementAllows(Filters, v, atr) <=> MovementAllows(g, w, atr)
    <2> HIDE DEF w
    <2>1. QED  BY <1>4, <1>5, Zenon DEF MovementAllows
  <1>7. SpikeAllows(Filters, side, v, atr) <=> SpikeAllows(g, other, w, atr)
    <2> HIDE DEF w
    <2>1. CASE Body(v) = 0
      <3>1. Magnitude(Body(v)) = 0 /\ Magnitude(Body(w)) = 0
        BY <1>4, <2>1 DEF Magnitude
      <3>2. 0 <= Filters.spikeBody * atr
        BY ProductNat, FilterAssumption DEF FilterConfig
      <3>3. QED  BY <1>5, <3>1, <3>2 DEF SpikeAllows
    <2>2. CASE Body(v) # 0
      <3>1. Chasing(side, v) <=> Chasing(other, w)
        BY <1>3, <2>2 DEF Chasing, Opposite, Sides
      <3>2. QED  BY <1>4, <1>5, <3>1, Zenon DEF SpikeAllows
    <2>3. QED  BY <2>1, <2>2
  <1> HIDE DEF w, other
  <1>8. ChainAllows(Filters, side, v, atr, flow, fgi, held, regime, tier, score)
        <=> ChainAllows(g, other, w, atr, MirrorFlow(flow), MirrorFgi(fgi), held, regime, tier, score)
    BY <1>1, <1>2, <1>5, <1>6, <1>7, Zenon DEF ChainAllows
  <1>9. QED  BY <1>8 DEF w, other, g

\* Whatever the configuration, no rule before an order favours a side of its own
\* accord: every verdict on a LONG is, with the bounds turned over, the verdict
\* on a SHORT in the market upside down.
THEOREM SidesMirroredHolds == Spec => []SidesMirrored
  <1>1. PInv => SidesMirrored
    <2> SUFFICES ASSUME PInv, NEW side \in Sides, NEW score, NEW pattern
                 PROVE  MirroredAlike(side, pattern, bar.data.view, bar.data.atr, market.flow,
                                      market.fgi, store.held, RegimeOf(bar.data.z, EngineTh),
                                      SymbolTier, score)
      BY DEF SidesMirrored
    <2>1. /\ bar.data.view \in Views /\ bar.data.atr \in Nat
          /\ market.flow \in OrderFlows \cup {None} /\ market.fgi \in Int \cup {None}
          /\ SymbolTier \in Tiers
      BY PreTradeAssumption DEF PInv, PTypes, Tier, Tiers
    <2>2. QED
      BY <2>1, ScoreMirrored, OverextendedMirrored, GateMirrored, ChainMirrored, Zenon
      DEF MirroredAlike
  <1>2. QED  BY <1>1, PInvInvariant, PTL
=============================================================================
