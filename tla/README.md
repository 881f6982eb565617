# Formal models of kavzi_trader

kavzi_trader is an autonomous USDT-M futures trader: language-model agents
produce decisions, an execution engine turns them into orders and protective
orders on Binance, a position loop manages what is open, and Redis holds the
state that survives a restart. This directory holds TLA+ models of its parts,
the TLC runs that check them on small instances, and TLAPS proofs of the
properties that matter most for every value of the constants.

Paths below are relative to the repository, in `kavzi_trader/`.

## 1. The system

### Inventory

| Component | State it keeps | Operations | Interacts with |
|---|---|---|---|
| Execution loop and engine (`orchestrator/loops/execution.py`, `spine/execution/`) | none across cycles but the sweep clock; everything else is in the local variables of one `await` chain | `execute` a decision, `process_pending_entries` (sweep), `_close_position`, bracket placement, emergency close | pops decisions from a Redis list, calls the exchange, writes every store |
| Reconciliation (`spine/state/reconciliation.py`) | none | `reconcile`: balance, order import/removal, re-placement of missing legs | exchange, stores, and the engine's placement code through a protocol |
| State stores (`spine/state/*_store.py`, `redis_client.py`, `manager.py`) | Redis hashes of positions, open orders, pending entries, account | save, delete, lookups by symbol or position, retries | every loop |
| Position loop, evaluators, action executor (`orchestrator/loops/position.py`, `spine/position/`) | positions (through the store) | evaluate; move stop, partial exit, full exit | exchange and stores, concurrently with the execution loop |
| Risk (`spine/risk/`) | symbol tiers, leverage-bracket cache | exposure, drawdown, regime, sizing, liquidation price | engine (`execute`), filter chain |
| Filters, geometry (`spine/filters/`, `spine/execution/geometry.py`) | none | pre-trade gates, stop/target geometry | reasoning loop, trader pipeline |
| Reasoning loop and symbol state (`orchestrator/loops/reasoning.py`, `symbol_state.py`) | cooldowns, streaks, suspension, regime per symbol | one cycle per symbol per candle | router, stores, pushes decisions to the queue |
| Agents (`brain/agent/`) | breaker, dedup memory, analyst semaphore | scout, analyst, trader pipelines | language models (external) |
| External sentiment (`external/`) | per-source breaker, cache | warm-up, cycle, synthesise | HTTP sources (external) |
| Market data (`api/binance/websocket/`, `orchestrator/providers/`) | stream registry, candle window, order flow | connect, receive, reconnect, update cache | feeds the reasoning loop |
| Orchestrator (`orchestrator/orchestrator.py`) | running tasks | start, supervise, restart, shut down | all loops |
| Paper exchange (`paper/exchange.py`) | balance, margin, orders | the exchange interface in memory | replaces the exchange in paper mode |
| Events, reports (`events/`, `reporting/`) | streams, a versioned report | append, project, record | written by engine and loops |
| Indicators, prompts, CLI, config, REST client, history download | - | arithmetic, text, I/O | - |

### What is hard in it

* **Interleaving.** All loops are coroutines of one process: between any two
  awaits of the engine another loop, or the exchange, may act. A limit may fill
  between the poll that saw it resting and the cancel of its expiry.
* **Partial failure.** Every order is one call to the exchange and one or two
  to Redis, each of which may fail, or take effect and fail to answer. The code
  catches most failures one call at a time and goes on.
* **Crash and restart.** Nothing makes "order placed" and "order stored"
  atomic. A restart has to find out from Redis and the exchange what was
  under way; it runs once, at start-up, and its result is not looked at.
* **Ordering.** A bracket is a stop-loss and then a take-profit; a close is an
  exit, then cancels, then a removal.
* **Stale data.** A review reads the market, the account and the candle at four
  moments between its start and the order, and remembers answers in between;
  any of these may have changed by the next.
* **Liveness.** Resting pullback limits are looked at only by a periodic sweep;
  a failing source is asked again only when its breaker lets it be.

### What makes the parts correct

* Engine and reconciliation: a stored position has a live stop-loss, or was
  exited, or is being dealt with; no leg is doubled or left behind; a resting
  limit is under the sweep, and past its expiry is withdrawn or filled, unless it
  was filled in part; a target never stands without a stop.
* Position loop: the stop it believes in is the one on the exchange; it only
  tightens; quantities match the exchange; a full exit leaves no order behind.
* Risk and filters: what one stage concluded from its data still holds in the
  next, which reads other data; sizes stay within caps however they are clamped.
* Reasoning and agents: a suspended or cooling symbol is skipped and comes
  back; the breaker closes again.
* Sentiment: a failing source is left alone for as long as it is owed, asked
  again, and given up only after a whole row of failures.
* Market data: candles stay in order, each once and in its final form, and none
  is missing that reached a receive loop.
* Paper exchange: balance and margin are conserved.

## 2. The modules

| Module | What it models |
|---|---|
| `TradeState` | the exchange (orders, fills, exposure; external) and the Redis records of positions, orders and pending entries; remote calls that succeed, fail or are lost |
| `ExecutionEngine` | the execution loop, the engine, and start-up reconciliation; extends `TradeState` |
| `TradeLifecycle`, `ExecutionRefinement` | what the engine promises of a decision, and the refinement mapping under which it does |
| `PositionLoop` | the position loop, its action executor, and a CLOSE of the execution loop running beside it |
| `ReasoningLoop` | the reasoning loop, the per-symbol state, the agent router with its deduplicator and breaker |
| `TradeGeometry`, `ScoutFilter`, `RiskRules`, `FilterChain` | the pure algorithms: stop and target geometry, the scout, regimes and risk checks with the sizer, confluence and the filter chain |
| `PreTrade` | one symbol from a closed candle to an order, and which data each of these algorithms is given; extends all four |
| `ExternalSentiment`, `MarketFeed` | the sentiment loop with its breakers and cache; a symbol's candles from the socket to the window |
| `Feeds` | the two brought up by the orchestrator, in its order |
| `PaperExchange` | the paper exchange under concurrent callers, and the account store it reports to |
| `MCExecutionEngine`, `MCReasoningLoop`, `MCPreTrade`, `MCFeeds`, `MCPaperExchange` | small instances for TLC (that of `PositionLoop` is in its configuration) |
| `ExecutionEngineProofs`, `ExecutionRefinementProofs`, `ExecutionBracketProofs`, `PositionLoopProofs`, `ReasoningLoopProofs`, `PreTradeProofs`, `FeedsProofs`, `PaperExchangeProofs` | theorems, checked by TLAPS |
| `ExecutionClaims`, `PositionClaims`, `ReasoningClaims`, `PreTradeClaims` | statements of the repository that the code does not keep |

In every module an action is what one coroutine does between two awaits; other
coroutines, the exchange, a failure or a restart may come in between. A
definition marked "Mutant" is the preceding or following one with a plausible
bug; no specification uses it, and each shows that a property notices the bug.

### TradeState and ExecutionEngine

A decision, the entry order it leads to, the pending-entry record of a pullback
and the position it opens share one id in the code (`decision_id` is the
position id), so all four are indexed by decision. A protective order is
`<<position, kind, slot>>`; `Slots` bounds how many of one kind a position may
get. `net[s]` is the open exposure of a symbol in units; decisions on one symbol
share a direction, so reduce-only orders only lower it.

| Variable | Code |
|---|---|
| `entry`, `leg`, `net` | what the exchange knows: order statuses and open exposure (external) |
| `saved` | position store |
| `pending`, `due` | pending-entry store; entries with `now_ms >= expires_at_ms` |
| `entryRec`, `linked`, `imported` | order store: entries, legs with `linked_position_id`, legs imported without |
| `queue` | the Redis list of decisions |
| `pc`, `cur`, `fresh`, `src`, `tpToo`, `batch`, `work` | where the loop's coroutine stands and its local variables: the position in hand, the order just placed (in a close, the one just cancelled, whose record goes in a step of its own), the caller of the placement code (`execute`, the sweep or the reconciler), whether a take-profit follows, and what is left of the list being walked |
| `faults` | failing calls and crashes so far, at most `MaxFaults` |
| `exited` | history: positions the loop closed at market, or found with nothing left to reduce |

An action is what happens between two awaits that touch shared state. A call
(`Call(r)`) is `ok`, `failed` (no effect, an exception) or `lost` (takes effect,
then an exception); the last two cost one fault. Between actions the exchange
may fill an entry in one or two parts, trigger a leg, or expire a leg that has
nothing to reduce, and the clock may pass an expiry. `Crash` is possible at
every await; what follows is reconciliation, or a part of it, and then the
loop, because `start()` ignores what `reconcile()` returns.

Abstracted: prices and quantities (units), wording, event records and reports
(their failures are caught and change nothing here), the risk checks other than
exposure (one nondeterministic `Reject`; `PreTrade` has what they compute). The
position loop does not run in this module.

`TradeLifecycle` knows two things: how far the trade of each decision is, and
the exposure of a symbol. A decision leaves the queue once; its one order rests,
is withdrawn, or buys, in two parts at most, no more than its quantity; a
stop-loss is sent only after that, a take-profit only after a stop-loss; the
exposure moves by these purchases and by reductions. `ExecutionRefinement` reads
the phase off the queue and the exchange alone (`PhaseOf`): nothing in the
loop's memory or in Redis takes part in the promise, which is why it survives
every failing call and crash. It promises nothing about a decision that a crash
loses, or an order that nobody tracks any more.

### PositionLoop

One position is enough: `asyncio.gather` gives each its own coroutine, all they
share is the exchange, and the loop keeps nothing from one cycle to the next.

| Variable | Code |
|---|---|
| `qty`, `legs` | the exchange: open exposure, protective orders with their stop level and size (external) |
| `stored`, `rec`, `linked` | Redis: whether the position is stored, its stop, quantity and `partial_exit_done`, and the orders linked to it |
| `pc`, `pos`, `act`, `level`, `work`, `fresh` | the loop's coroutine: its await, the snapshot of the record it works on, the action, the new stop, the orders left to cancel, the order just placed |
| `cpc`, `cqty`, `cwork`, `closes` | the same for a CLOSE decision (`ExecutionEngine._close_position`) |
| `sold`, `faults`, `timeouts` | history and bounds: partial exits executed, failing calls, cycles cut off by `cycle_timeout_s` |

Which action an evaluation asks for is a choice (`Move`, `PartialExit`,
`FullExit`, `NoAction`), restricted as the evaluators restrict it: a stop only
tightens and a partial exit is asked for once. The order of calls, what each
handler catches, and what is written back from a stale snapshot are kept.
`Trigger` and `Expire` are the exchange's. A slot whose order is neither live
nor linked is used again, so five slots serve any number of moves. The
client's error decorator never sees the exceptions of the coroutines it wraps,
so `ErrorsMapped` is FALSE in every run: the handler for -2011 in
`_cancel_linked_orders` is dead code, and a cancel of a dead order leaves its
record.

### ReasoningLoop

One symbol is enough: all state is keyed by symbol and the coroutines of a
cycle share no variable of it.

| Variable | Code |
|---|---|
| `cooldown`, `rejections`, `waits` | `SymbolState` per direction: analyst cooldown, consecutive rejections, WAITs since the last enqueue |
| `skips`, `interval` | the skip tracker: consecutive SKIPs, `skip_eval_interval` when suspended |
| `failures` | the Trader's consecutive validation failures; `FailThreshold` opens its circuit |
| `scoutMemo`, `analystMemo`, `tradeMemo` | the bar-close deduplicator |
| `pc`, `analyst`, `decided` | the tier the pipeline stands at, the review and the decision it carries |
| `barAge`, `sent`, `held` | history: cycles started and decisions enqueued in the latest candle, cycles held back in a row |

`NewBar` may come between any two tiers and clears what the deduplicator
remembers. What a language model answers is arbitrary, and every tier may fail
in each way its pipeline handles. The regime of a review is a choice of its
entry gate, made where the code computes the gate. The filter chain is one
outcome of `ConcludeDropped`; the review, the filters and the enqueue are one
step, since only this coroutine touches the symbol's state.

### PreTrade

| Variable | Code |
|---|---|
| `bar` | the last candle of the cache: its number (for its close time), its data, and whether it is in its final form |
| `market`, `store` | price, order flow and fear and greed index; the account and position records other loops write |
| `stage`, `review` | where the pipeline of the symbol stands, and what the cycle read first |
| `analysed`, `memo` | what the deduplicator remembers of the Analyst and of the Trader |
| `deps`, `geometry` | what the Trader is given; the geometry of the decision being filtered |
| `queue`, `age` | the decision waiting for the engine, and how long it has waited |
| `exec`, `order` | the decision in the engine with its refusals so far, and what came of it |
| `shifts` | changes of market and store so far, at most `MaxShifts` |

An action is a stage of the pipeline between two awaits; a candle may close and
the market and the store may change in between. What a language model answers
is one of `Analyses` and `Choices`. `GeometryStands` and its neighbours relate
what one stage computed to what a later one asks.

All numbers are exact integers. Prices and the ATR are ticks; a stop distance
is in ten-thousandths of a tick and a target distance in hundred-thousandths, so
that products with the configured ratios stay whole; a quotient is compared by
multiplying across, a comparison of Decimals that are not rounded in between.
The sizer's quantum is a lot, and `ROUND_DOWN` is `\div`. Left out: the size
multipliers the chain collects (no caller reads them, section 5), liquidity
sessions and correlation (they only feed that multiplier), the brackets of
maintenance margins (one rate).

### ExternalSentiment, MarketFeed and Feeds

| Variable | Code |
|---|---|
| `breaker`, `elapsed` | the `CircuitBreaker` of each source, and the time since `_opened_at` |
| `phase`, `flight`, `fresh` | the loop's coroutine, the fetches it awaits, the sources that answered in this cycle |
| `known`, `snapshot`, `degraded`, `summary` | the cache; a value is the source it came from, a summary the degraded sources it names |
| `streak`, `quiet` | history: failures of a source in a row, and the time since the last of them |
| `window`, `atrs` | the candles of the cache, each with whether it is in its final form, and the ATR history |
| `running`, `stream` | the stream manager: started, and its registered receive loop |
| `receiver`, `inbox` | every receive loop ever created, with the state of its socket, and the close it has been sent and has not handled |
| `ingest` | the ingest loop's coroutine |
| `bar`, `missed`, `faults` | the candle that is forming; history: closes that reached no receive loop or could not be read; lost connections and swallowed exceptions, at most `MaxFaults` |
| `started` | whether the orchestrator has created its loops |

One unit of time is the interval of the loop (`run_interval_s`), the least that passes between two cycles. All
breakers are asked before any source answers, since `gather` starts the fetches
in one go. One symbol is enough: symbols share neither windows nor receive
loops, and sources share only the cycle. A receive loop is less than one candle
behind. A socket is the library's: it may lose its connection, get it back, or
give up, which ends the receive loop. An ATR takes more candles than
`AtrPeriod` (14), and there is none before (`HasAtr`): a new listing, or a
symbol whose load failed, has a window and no ATR history, and the history
seeded at the load is as short as `Seeds` says. What handling a close raises is
swallowed (`live_stream_manager.py:100`): the candle is lost, or it is in the
window and its ATR is not (`Mishandle`).

`Feeds` keeps the order of `trade.py` and `TradingOrchestrator.start`: load the
candles, await a sentiment cycle, create the loops, and only then subscribe.

### PaperExchange

| Variable | Code |
|---|---|
| `balance`, `locked`, `positions`, `leverage`, `orders` | the exchange's memory |
| `step`, `request`, `target` | where each caller stands: at a ticker, or at its report |
| `account` | the account record in Redis, with the peak |
| `holder`, `waiting`, `report`, `seen` | the account store's lock with its queue, what each caller reports, the peak the holder has read |
| `highest`, `missed` | history: the highest balance stored; the latest report was not stored |

A call gives way at the ticker and at the report and is one step otherwise. A
restart loses the money and keeps the account. Amounts are integers and a
division rounds, as `Decimal` does at its precision. Market orders, and limits
filled when they are placed, are not kept after they return: nothing looks them
up again.

## 3. Runs

| Run | Instance | Question |
|---|---|---|
| `exec_no_faults` | a pullback and a market decision, a CLOSE, one symbol, entries filling in two parts, no faults | brackets are neither doubled nor left behind; pullback limits are tracked; a due limit is withdrawn or filled, or stays tracked with a part fill; a filled one ends protected |
| `exec_faults` | a pullback decision and a CLOSE, two faults | one failing, unanswered or crashed step never leaves a stored position without a stop, two never a target without one; the engine implements `TradeLifecycle`; the inductive invariant of the proofs |
| `pos` | one tightening, partial exit, a CLOSE, one failing call and one cut cycle | stop and quantity agree with the record while nothing failed; one failure never sells twice; a move never withdraws the last stop; a position no CLOSE took up leaves no live order; the exposure ends |
| `reasoning` | two directions, a review of each band, three regimes | a candle sees at most one decision; the ways of holding a symbol back do not add up; entries keep their geometry; the inductive invariant |
| `pretrade` | one symbol over two candles, three markets, three accounts; three answers of the Analyst and six choices of the Trader; one change of market or store | the geometry stands in the validator and belongs to its candle; the viability check vetoes nothing tradable; orders are affordable; the scout is monotone in volume, and the rules treat both sides alike but for the configured bounds |
| `feeds` | one source, one symbol, a window of two candles of which three close; a refused and a doubled subscription, one lost connection or swallowed exception | a source is given up after a row of failures, waits its back-off, and is asked again; the window is in order, the ATR history keeps pace with it, and it lacks only what reached nobody or could not be read |
| `paper` | one symbol, two callers, three orders, one fault, one restart | the locked balance is the margin of the positions; the account record follows the exchange; the peak is never lost |
| `claim_*` | the same instances, or smaller ones | each finds one statement of the repository violated (section 5) |

Why the bounds are enough.

* Engine: two decisions on one symbol are what it takes for the exposure of one
  position to be consumed by the legs of another; two slots of a kind are what
  one fault can use up, and the runs check deadlock, so a run out of slots would
  stop with an error; two faults are the first number at which the guarantee is
  known to be gone (a failing stop and a failing emergency close), so the
  boundary lies inside. Entries fill in two parts only in `exec_no_faults`,
  where partial fills matter to the sweep.
* Position loop: three units and a part of one tell "the part", "the rest" and
  "all" apart; one tightening gives an old and a new stop; a stop, a target,
  a replacement and one of each left behind by a fault are five orders; one
  CLOSE is all that can race a cycle, since a closed position is not opened
  again under its id. 0.8 million states.
* Reasoning: thresholds of 2 let a counter be below, at and past them; the skip
  bound (8) passes the suspension's longest interval (4) twice; three cycles in
  a candle is the most `CadenceAssumption` allows with a cooldown base of 1. The
  directions are symmetric, and so are the slots of the position loop.
* Pre-trade: candles, accounts and answers are chosen so that each gate, each
  rejection of the geometry and each clamp of the sizer meets both sides of its
  bound; one change between two stages is what makes a check stale, and the
  second candle is what a remembered answer may wrongly survive. The two
  detectors have different thresholds, and the bounds of the filters are those
  of `config/config.yaml`, as the program configures them. 1.5 million states.
* Feeds: with a threshold of 2, a base wait of 1, a cap of 3 and three probes
  the back-off is 1, 2 and 3 (capped) before the source is given up; an answer
  may come at any point of the row. A window of two over three closes fills,
  turns over, and replaces the candle that was forming; a second receive loop
  is what a refused ticker subscription leaves; one lost connection opens a gap
  and, when it gives up, a silence. With an `AtrPeriod` of 1 the first candle has
  no ATR and the second has; that only the last of few candles is seeded (the
  second case of `Seeds`) needs a longer history than TLC is given and is left
  to the proof. 1.3 million states.
* Paper: opening, adding and closing are three orders; two prices give profit
  and loss on either side; the amounts are such that every margin divides
  (`MarginsDivide`), so that rounding, which the code leaves to 28 digits, does
  not hide a wrong sum. Two callers are enough for one to hold the lock and one
  to wait for it; that only the execution loop opens positions is in `Submit`.

Fairness is used by liveness properties only.

* `ExecutionEngine.FairSpec` asks for weak fairness of `EngineStep`: the event
  loop keeps running the execution loop, whose calls have timeouts. Nothing is
  assumed of the exchange, of the clock, or of crashes.
* `PositionLoop.FairSpec` asks for weak fairness of `Cycle`, for the same
  reason, and strong fairness of `FullExit`: once `max_hold_time_hours` are over
  every evaluation of the position asks for it (`TimeExitChecker`).
* `Feeds.FairSpec` asks for weak fairness of start-up, of the cycles, of the
  fetches and the synthesis, and of the clock: the event loop runs what can run
  and each fetch answers or times out. It does not ask for a source to recover:
  `AskedAgain` says it is asked, or was given up.
* `ReasoningLoop.FairSpec` asks that candles close, the loop runs, and each tier,
  when asked over and over, now and then answers favourably. It is used only to
  refute `CircuitRecovers`: even so the circuit does not close.

## 4. Proofs

Every safety property of a passing run is a theorem too, for every value of the
constants that the assumptions of the modules admit. Two need a further
hypothesis (`MoveKeepsAStopHolds` and `LockedBacksPositionsHolds`), which is
written in the theorem and named below. Where a proof counts,
it takes the least element of a set of naturals (`Least`, from `WFMin`), since
the library's induction theorems take an operator, which the provers cannot
instantiate.

### ExecutionEngineProofs

For any sets of decisions, symbols and slots, any quantity and any number of
faults (`StateAssumption`, `EngineAssumption` only give the constants their
types):

* `Inductive`: `Spec => []IInv`;
* `TypeCorrect`: `Spec => []TypeOK`;
* `Protected`: `Spec => []OpenPositionsAreProtected`;
* `StopFirst`: `Spec => StopBeforeTarget`.

`OpenPositionsAreProtected` speaks of a loop at rest, so it is not inductive:
while a bracket is being placed the stored position has no stop. `CoverInv`
generalises it to every state: a stored position has a standing stop, was
exited, is in hand, or two faults have happened. To preserve it one has to know
what "in hand" needs, which the other parts say: the placement code works on a
decision (`CurInv`), for one caller (`SrcInv`), stores the leg it has just
placed (`FreshInv`); legs are withdrawn from exited positions only and an
emergency close is entered only with a fault behind it (`CloseInv`);
reconciliation comes after a crash and finds only live linked orders
(`ReconcileInv`); a take-profit is about to be sent only with the stop standing
(`TargetInv`, from which `StopFirst` follows). TLC checks `IInv` in
`exec_faults`.

### ExecutionRefinementProofs

* `EngineImplementsLifecycle`: `Spec => ImplementsLifecycle`, for any decisions,
  symbols, faults and crashes.

`IInv` is about protection and does not know how an entry got where it is.
`LifeInv` adds that: a queued decision was never sent, one in hand to be
protected, stored or verified has filled (kept track of from the poll or the
answer that said so, across Redis and a restart), and a stop was sent before a
target. `InitRefines` and `StepRefines` are the two halves; a step is quiet
(`QuietStep`), or one of the few that touch the queue or the exchange, each with
a lemma of its own.

### ExecutionBracketProofs

For any decisions, symbols and slots, as long as nothing has failed:

* `OneBracketHolds`: `Spec => []OneBracket`;
* `NoOrphanLegsHolds`: `Spec => []NoOrphanLegs`;
* `PullbackTrackedHolds`: `Spec => []PullbackTracked`.

The invariant is `CleanInv` while `faults = 0` (`CleanHolds`), on top of `IInv`
and `LifeInv`. It follows one trade: what the placement code has in hand has no
leg yet but the ones it has placed (`BareInv`); neither has a pending entry,
unless the sweep works on it (`PendingInv`), so no second bracket is placed
(`OnceInv`); a resting pullback limit is pending or about to be registered
(`TrackInv`); a resting leg is linked, or is the one about to be (`LinkInv`),
and its position is stored (`SavedInv`), so that a close finds every leg it has
to withdraw.

### PositionLoopProofs

For any sizes, slots, stop levels, CLOSE decisions, failing calls and cut-off
cycles:

* `LoopTypeCorrect`: `Spec => []TypeOK`;
* `PartialExitOnceHolds`: `Spec => []PartialExitOnce`;
* `StopMatchesRecordHolds`, `RecordCoversExposureHolds`;
* `MoveKeepsAStopHolds`: `2 * Part < Size` implies `Spec => MoveKeepsAStop`;
* `NothingLeftBehindHolds`: `Spec => []NothingLeftBehind`.

`LoopInv` holds whatever fails: only the loop writes the record, so its snapshot
is the record up to the flag it stores itself (`SnapInv`), and what is recorded,
ordered or sold is the opening size or what a partial exit leaves (`SizeInv`).
The rest is relative to it. `OnceInv` leaves room for one fault between the sale
and the flag. `CleanInv` says, at each await of a cycle, where the stop for the
recorded level is while nothing has failed. `NoCloseInv` adds that a full exit
withdraws everything there is, as long as no CLOSE was taken up.

`2 * Part < Size` says that a part is less than what it leaves
(`partial_exit_size` is 0.3 in `spine/state/schemas.py`, 0.25 in
`config/config.yaml`). Without it the theorem is false, and TLC says how with
`Part = 2`, `Size = 3`: an order or a CLOSE that sells what the record says
after a partial exit then leaves no less than the record says. `NothingLeftBehind`
excepts a position that a CLOSE has taken up: with it beside the cycle the
divergence of section 5 is possible, a closed position being written back, and
orders placed after it has listed those to withdraw stay behind.

### ReasoningLoopProofs

For any reviews, gates and thresholds:

* `RInvInvariant`: `Spec => []RInv`, and its parts `TypeInvariant`,
  `SuspensionApart`, `GeometryPresent`;
* `OneDecision`: `Spec => []OneDecisionPerBar`;
* `HeldBackHolds`: `Spec => []HeldBackBounded`.

A remembered decision is handed out again on every cycle of its candle, and only
the cooldown of `3 * AnalystCooldown` cycles keeps it from being enqueued twice.
"At most one" does not say why; `SentThenCooling` does: once a decision was
enqueued no pipeline is under way, and `cooldown[d] + barAge` is at least
`3 * AnalystCooldown` for each direction, which every further cycle preserves
(one cycle older, one cycle cooler). So with at most that many cycles in a
candle, what remains of it is held back. `CadenceAssumption` states this
condition; it holds for the configured interval of 120 s on 15-minute candles
(8 cycles, 9 to cool down), and does not for the default in
`orchestrator/config.py` (60 s: 15 cycles). `RunsUncooled` is needed for
`SuspensionApart`: a suspension starts only from a running pipeline.

`HeldBackBounded` says that the two ways of holding a symbol back do not add up.
`HInv` bounds each: the cycles held back so far and what is left of the longest
cooldown never exceed `MaxCooldown`; in a suspension they are at most
`(skips - 1) % interval`, since every multiple of the interval is let through.

### PreTradeProofs

For every configuration, every set of levels, every market and every answer:

* `GeometrySound`: a geometry the calculator returns keeps its bounds, the
  liquidation budget and the minimum reward to risk;
* `EstimateSound`: where `estimate` finds nothing viable, `compute` finds
  nothing for an entry at the market on that side;
* `PInvInvariant`: `Spec => []PInv`, the invariant behind the next three: what
  is remembered, filtered, queued or in the engine is a sound geometry, computed
  with the ATR of the candle it names, or of the first one;
* `GeometryAgreesWithValidator`: `Spec => []GeometryStands`;
* `GeometryKeyed`: `Spec => []GeometryOfItsCandle`;
* `ViabilityFinal`: `Spec => []VetoIsFinal`;
* `OrdersAffordable`: `Spec => []OrderIsAffordable`, from `SizedBounds`: each
  clamp of the sizer bounds all that come after it but the floor;
* `PreTypeCorrect`: `Spec => []TypeOK`;
* `VolumeMonotoneHolds`: `Spec => []VolumeMonotone`;
* `ScoreMirrored`: the confluence score of a side is that of the other side in
  the market upside down, for any view and order flow;
* `SidesMirroredHolds`: `Spec => []SidesMirrored`. The rules read no configured
  bound on a side on which they should not: what they say of a LONG is what they
  say of a SHORT in the market upside down under the configuration with its
  bounds mirrored (`MirrorFilters`), whatever those bounds are.

The configuration is only assumed to be one the schemas accept, the shipped one
included, which is not its own mirror image (section 5). A view and an order
flow are assumed to be what the indicator and order-flow schemas describe, where
`None` is a reading that is missing. The arithmetic
is non-linear, which the solver does badly: products are bounded one at a time
(`ProductMonotone`) and quotients only by what cutting down to a lot guarantees
(`QuotientBound`).

### FeedsProofs

* `GivenUpAfterStreak`: `Spec => []BreakerFollowsStreak`, for any sources and any
  configuration of their breakers. The property is inductive with its types
  (`BInv`): a fetch is in flight only through a breaker that is not open, so
  every failure counts once, towards the threshold or as a failed probe;
* `ProbesSpacedHolds`: `Spec => ProbesSpaced`. `PaceInv` ties the wait of a
  breaker to the number of its failed probes and its clock to the time since the
  last failure; `BackOffDoubles` is the recursion of `BackOff`, doubling up to
  the cap;
* `WindowInOrderHolds` and `NothingElseMissingHolds`, for any window, number of
  receive loops, refused subscriptions and lost connections. `FInv` says why a
  second receive loop does no harm: what any loop has still to hand over is the
  candle before the forming one, and while it has, the window holds nothing of
  the forming one (`InboxInv`); it never holds anything later (`BarInv`;
  `UnloadedInv` before the history is loaded). That the ATR history ends where
  the window ends is asked only once the window is long enough for an ATR, and
  while nothing was swallowed and no connection lost;
* `FeedsTypeCorrect`: `Spec => []TypeOK`.

### PaperExchangeProofs

* `PeakHighest`: `Spec => []PeakIsHighest`, for any number of callers, failures
  and restarts. The invariant is `PInv`: only the holder of the lock stands
  between reading and writing the account, and the peak it has read is still
  the stored one;
* `AccountCurrentHolds`: `Spec => []AccountCurrent`. Callers queue for the lock
  with the balance they saw; the last of the queue, or the holder if nobody
  waits, carries that of the moment (`LatestInv`); nobody is queued twice or
  holds the lock without reporting (`LockInv`), so the last report to be stored
  is the latest;
* `PaperTypeCorrect`: `Spec => []TypeOK`. Orders are numbered without gaps, and
  a call is about one that exists;
* `LockedFollowsMargins`: a step that moves what is locked moves the margin of
  one symbol by as much, less the remainder a close leaves, or is a restart;
* `LockedNeverShort`: over finitely many symbols the locked balance is never
  less than the sum of the margins;
* `LockedBacksPositionsHolds`: where every close divides (`[][ClosesDivide]_vars`),
  it is that sum, `Spec` implying `[]LockedBacksPositions`.

The sum is a fold over the symbols. `FoldIsTotal` shows it to be a recursive
function of the set of symbols left, whose order depends on that set alone, so
that two sums compare term by term (`TotalMoves`).

### What is only model-checked

Liveness, which is beyond the prover, as is `ENABLED`: `DueIsSettled` and
`FilledPullbackIsProtected` (`exec_no_faults`), `NotHeldForever`
(`pos`) and `AskedAgain` (`feeds`). That no run stops in a deadlock is
also only seen on the instances. The counterexamples of the `claim_*` runs are
TLC's.

## 5. Where the code departs from what it says

| Run | What it shows |
|---|---|
| `claim_fill_races_expiry` | `_expire_pending_entry` removes the record whether or not the cancel succeeded: a limit that fills while its expiry is cancelled ends with an untracked, unprotected position |
| `claim_no_duplicates` | after a crash between placing and storing a leg, reconciliation imports it without its position and places a second one |
| `claim_flat_position` | a position whose stop triggered on the exchange is never removed: each full exit is refused, and reconciliation, to which it is "left", removes no positions |
| `claim_extreme_trades` | a TIER_1 decision in an EXTREME regime passes the scout, the agents, the filter chain and every check of the validator, all of which say it trades at a reduced size, and the sizer, which takes its multiplier from another table, gives it none |
| `claim_breaker_recovers` | an open Trader circuit answers before the Trader is asked, so the successful decision that would close it cannot come |

Met while modelling, without a run of their own.

Execution, positions, paper:

* a limit whose registration was lost is imported by reconciliation as an open
  order and never swept (`engine.py:422`, `reconciliation.py:181-198`);
* the sweep leaves a limit that was filled in part alone, due or not, for the
  exchange to fill or to "be handled by the reconciler on the next pass"
  (`engine.py:482-486`). The reconciler runs at start-up only and imports such a
  limit as an open order: until the rest fills, what was bought has no stop, and
  the limit does not expire. `DueIsSettled` therefore excepts it;
* a resting pullback limit does not count as exposure, so a second entry on its
  symbol passes the exposure check (`risk/exposure.py:39`);
* a stop that could not be placed is recorded as moved, and no later cycle moves
  it there (`loops/position.py:172`), against "it will re-trigger once the new
  SL is live" (`spine/position/manager.py:126`);
* a position cycle that began before a CLOSE writes the closed position back
  (`loops/position.py:175`). Such a CLOSE reaches the engine only from a queue
  filled before the position opened, or when the fetch of the open positions
  failed, as the reasoning loop skips symbols it knows to be held;
* the paper exchange fills a marketable limit at the price of a second ticker
  (`exchange.py:182`), reports an order it has just filled as cancelled
  (`exchange.py:532`), reserves no margin for a resting limit
  (`exchange.py:299`), and never triggers a protective order.

From the candle to the order:

* a review stopped by the gate of a HIGH regime gets its cooldown from the
  NORMAL gate (`reasoning.py:347-358`), against the docstring of
  `_apply_analyst_cooldown`, whose "score <= 3" is also not
  `CONFLUENCE_REJECT_MAX`;
* a size lifted to the notional floor is cut down to the quantum afterwards
  (`position_sizer.py:101`), may fall below the floor by that, and is then
  refused by the validator (`validator.py:220-228`): the bump that
  `risk/config.py:27-31` describes does not help there;
* the multipliers the filter chain computes are read by nobody, and its funding
  multiplier is not even multiplied in; `should_close_all` is set at the second
  drawdown threshold and read by nobody;
* in a LOW regime the scout lets a TIER_1 symbol through to agents whose decision
  cannot be executed;
* reasoning side and engine detect the regime with different thresholds
  (`trade.py:282` and `369`), and the drift check compares data of one moment
  only;
* the shipped configuration is looser on a LONG in fear than on a SHORT in greed:
  `config.yaml:406` and `413` lower the bar of fear to 5 and what elevated fear
  asks to 6, and leave those of greed at 90 and 7, although
  `filters/config.py:127` calls one "Mirror of the elevated-fear bar". The
  difference lies in the configuration alone: the rules are symmetric in it
  (`SidesMirrored`);
* `estimate` is no bound for a PULLBACK, or for the side the Analyst did not
  name, which its docstring does not say; the fear and greed gate "blocks all
  trades" but for a bypass; the soft volume gate never changes a verdict;
* a remembered decision hands out its geometry with its old price under a new
  `created_at` (`trader_pipeline.py:202`), and `created_at` is taken after the
  language model has answered, so that its staleness leaves out that wait. The
  last candle loaded may still be open; what is remembered under its close time
  is found again after it has closed with another ATR.

Feeds:

* a source that was given up is never asked again, so that `record_success`
  undoing the latch (`test_circuit_breaker.py:148`, "A successful probe after
  latching resets the breaker to CLOSED") is not reached. Its last value stays
  in the snapshot for ever, which `cache.py:17` ("Data is replaced every cycle -
  no TTL needed") does not expect, and the fear and greed gate reads it without
  asking its age; a summary made from old values is stamped as new;
* a candle that closes between the load and the subscription (a sentiment cycle
  is awaited in between, `orchestrator.py:82-85`), or while a socket is away, is
  never fetched: it stays half-formed, or is missing, and the window has a gap;
* below 15 candles the ATR history is empty beside a window that is not
  (`market_data_cache.py:127`, `214`, `volatility.py:46`), and the chain takes
  the regime for NORMAL (`chain.py:122`);
* the loaded half-formed candle and its final form both count in the ATR
  history;
* `is_connected` says that the manager was started (`client.py:268-274`), so
  the ingest loop never leaves `start`, nothing notices a receive loop that
  ended (`stream_manager.py:178`), and the branch that stops the client is not
  reached;
* a ticker subscription that is refused sends the ingest loop through `start`
  again, and the candles get a second receive loop beside the first. That does
  no harm to the window (`WindowInOrder`), but the ATR history counts each close
  twice.

## 6. What is left

To be modelled:

1. Engine and position loop over one `TradeState`. `PositionLoop` has a CLOSE of
   the engine beside the cycle and `ExecutionEngine` has the exchange triggering
   legs, so what is missing is an entry that fills while its position is
   evaluated, and reconciliation of what a position cycle left half done.
2. `RedisClient`: a retried write may come after a later write of another
   caller, and `_reconnect` closes the connection under other callers' commands;
   `brpop` and `lpush` are not retried. `Call` in `TradeState` has the outcome
   for one caller: done, not done, or done without an answer.
3. The trade report's version counter and the event streams.
4. `close_all`-like operations if a caller of `should_close_all` appears, and
   `shutdown` if the command line calls it: it would race the supervisor, which
   restarts what ends but not what is cancelled.

To be proved: for the reasoning loop, the position loop and the feeds, abstract
specifications as `TradeLifecycle` is one for the engine, and that they are
implemented; how long the guarantees of `ExecutionBracketProofs` survive a first
fault, which is now all or nothing (`faults = 0`); whatever the parts above state
when they are modelled.

Not to be modelled: indicators (arithmetic delegated to pandas), prompts and
context (text), message parsing (that it may raise is in `Mishandle`), REST client and history download (I/O; the REST
client's error mapping is `ErrorsMapped`), command line, configuration, logging,
metrics. Order flow and prices are replaced wholesale and read as a choice. Of
the websocket client the multiplexed and user-data streams are not used by the
trading program, and unsubscribing and stopping are not reached by it. The
supervisor of the orchestrator has nothing to do: every loop catches what a
cycle raises.
