----------------------------- MODULE ReasoningLoop -----------------------------
(***************************************************************************)
(* The reasoning loop (orchestrator/loops/reasoning.py), the per-symbol    *)
(* state it keeps (symbol_state.py) and the agent router it asks           *)
(* (brain/agent: the Scout, Analyst and Trader pipelines, the              *)
(* bar-close deduplicator and the Trader's circuit breaker), for one       *)
(* symbol.  asyncio.gather handles the symbols of a cycle apart, and all   *)
(* of this state is keyed by symbol.                                       *)
(*                                                                         *)
(* What an LLM says is arbitrary.  A candle may close between any two      *)
(* tiers; the deduplicator then forgets what it remembers of the old one.  *)
(***************************************************************************)
EXTENDS Integers

CONSTANTS
  Directions,       \* LONG and SHORT
  Neutral,          \* the Analyst's direction when it has none
  Reviews,          \* what an Analyst can answer
  Gates,            \* the entry gates of the volatility regimes
  NormalGate,       \* the one of the NORMAL regime
  RejectMax,        \* CONFLUENCE_REJECT_MAX
  LowBand,          \* cooldown_low_confluence_threshold
  AnalystCooldown,  \* analyst_cooldown_cycles
  MaxMultiplier,    \* max_rejection_multiplier
  BorderlineCycles, \* borderline_cooldown_cycles
  SkipThreshold,    \* skip_suspension_threshold
  MaxInterval,      \* max_skip_eval_interval
  WaitThreshold,    \* wait_cooldown_threshold
  WaitBase,         \* wait_cooldown_base_cycles
  WaitMax,          \* wait_max_cooldown_cycles
  FailThreshold,    \* validation failures that open the Trader's circuit
  BarCycles,        \* cycles that can start while one candle is the latest
  MaxSkips,         \* bound on consecutive SKIPs
  None              \* nothing

\* A candle lasts 15 minutes and a cycle at least reasoning_interval_s = 120
\* seconds, so 8 cycles start in it; the cooldown after a trade is 9.
ASSUME CadenceAssumption ==
  /\ AnalystCooldown \in Nat \ {0} /\ BarCycles \in Nat
  /\ BarCycles <= 3 * AnalystCooldown

ASSUME ReasoningAssumption ==
  /\ Directions # {} /\ Neutral \notin Directions
  /\ Reviews \subseteq [valid : BOOLEAN, direction : Directions \cup {Neutral}, score : Nat]
  /\ None \notin Reviews
  /\ Gates \subseteq Nat /\ NormalGate \in Gates
  /\ \A g \in Gates : RejectMax < g
  /\ RejectMax \in Nat /\ LowBand \in Nat
  /\ MaxMultiplier \in Nat \ {0} /\ BorderlineCycles \in Nat
  /\ SkipThreshold \in Nat \ {0} /\ MaxInterval \in Nat \ {0}
  /\ WaitThreshold \in Nat \ {0} /\ WaitBase \in Nat \ {0} /\ WaitMax \in Nat \ {0}
  /\ FailThreshold \in Nat \ {0} /\ MaxSkips \in Nat

VARIABLES
  cooldown,    \* cycles left per direction
  rejections,  \* consecutive Analyst rejections per direction
  waits,       \* Trader WAITs per direction since the last enqueue
  skips,       \* consecutive Scout SKIPs and suspended cycles
  interval,    \* skip_eval_interval; 0 when not suspended
  failures,    \* consecutive Trader validation failures
  scoutMemo,   \* deduplicator: the Scout's verdict on the latest candle
  analystMemo, \* deduplicator: the Analyst's review of it
  tradeMemo,   \* deduplicator: the Trader's decision on that review
  pc,          \* the tier the pipeline stands at
  analyst,     \* the review it carries
  decided,     \* the Trader's decision it carries
  barAge,      \* history: cycles started in the latest candle
  sent,        \* history: decisions enqueued in the latest candle
  held         \* history: cycles in a row that were held back

trackerVars == <<cooldown, rejections, waits, skips, interval>>
memoVars    == <<scoutMemo, analystMemo, tradeMemo>>
flightVars  == <<pc, analyst, decided>>
vars == <<trackerVars, failures, memoVars, flightVars, barAge, sent, held>>

Decision == [action : {"enter", "close", "wait"}, geometry : BOOLEAN]

Least(a, b)    == IF a <= b THEN a ELSE b
Greatest(a, b) == IF a >= b THEN a ELSE b

\* Past this many WAITs the cooldown no longer grows, and counting stops.
WaitCap == WaitThreshold + WaitMax

TypeOK ==
  /\ cooldown \in [Directions -> Nat]
  /\ rejections \in [Directions -> 0..MaxMultiplier]
  /\ waits \in [Directions -> 0..WaitCap]
  /\ skips \in Nat /\ interval \in 0..MaxInterval
  /\ failures \in 0..FailThreshold
  /\ scoutMemo \in {"none", "skip", "interesting"}
  /\ analystMemo \in Reviews \cup {None}
  /\ tradeMemo \in [review : Reviews, decision : Decision] \cup {None}
  /\ pc \in {"idle", "scout", "analyst", "trader", "conclude"}
  /\ analyst \in Reviews \cup {None}
  /\ decided \in Decision \cup {None}
  /\ barAge \in 0..BarCycles /\ sent \in Nat /\ held \in Nat
  /\ pc \in {"trader", "conclude"} => analyst \in Reviews
  /\ pc = "conclude" => decided \in Decision

Init ==
  /\ cooldown = [d \in Directions |-> 0]
  /\ rejections = [d \in Directions |-> 0]
  /\ waits = [d \in Directions |-> 0]
  /\ skips = 0 /\ interval = 0 /\ failures = 0
  /\ scoutMemo = "none" /\ analystMemo = None /\ tradeMemo = None
  /\ pc = "idle" /\ analyst = None /\ decided = None
  /\ barAge = 0 /\ sent = 0 /\ held = 0

-----------------------------------------------------------------------------
(* The candles.                                                            *)

\* The next candle closes: every remembered entry is keyed by the old one.
NewBar ==
  /\ scoutMemo' = "none" /\ analystMemo' = None /\ tradeMemo' = None
  /\ barAge' = 0 /\ sent' = 0
  /\ UNCHANGED <<trackerVars, failures, flightVars, held>>

-----------------------------------------------------------------------------
(* The start of a cycle: _should_skip_symbol.                              *)

Cooled    == \A d \in Directions : cooldown[d] > 0
Suspended == interval > 0 /\ skips % interval # 0

\* Mutant: a cycle that is held back does not tick.
TickWhenFree ==
  /\ pc = "idle" /\ barAge < BarCycles
  /\ barAge' = barAge + 1
  /\ cooldown' = IF Cooled THEN cooldown
                 ELSE [d \in Directions |-> Greatest(cooldown[d] - 1, 0)]
  /\ UNCHANGED <<rejections, waits, interval, failures, memoVars, analyst, decided, sent>>

\* _tick_cooldowns, on every cycle.
Tick ==
  /\ pc = "idle" /\ barAge < BarCycles
  /\ barAge' = barAge + 1
  /\ cooldown' = [d \in Directions |-> Greatest(cooldown[d] - 1, 0)]
  /\ UNCHANGED <<rejections, waits, interval, failures, memoVars, analyst, decided, sent>>

\* Both directions are cooling down.
CoolDown ==
  /\ Tick /\ Cooled
  /\ held' = held + 1
  /\ UNCHANGED <<skips, pc>>

\* _is_suspended.
Suspend ==
  /\ Tick /\ ~Cooled /\ Suspended
  /\ skips' = skips + 1
  /\ held' = held + 1
  /\ UNCHANGED pc

\* No indicators, or the symbol has an open position.
Unavailable ==
  /\ Tick /\ ~Cooled /\ ~Suspended
  /\ held' = 0
  /\ UNCHANGED <<skips, pc>>

Start ==
  /\ Tick /\ ~Cooled /\ ~Suspended
  /\ pc' = "scout" /\ held' = 0
  /\ UNCHANGED skips

-----------------------------------------------------------------------------
(* The tiers.                                                              *)

Quiet == UNCHANGED <<barAge, held>>

\* Building a tier's dependencies raises, and the cycle of the symbol ends.
DepsRaise ==
  /\ pc \in {"scout", "analyst", "trader"}
  /\ pc' = "idle" /\ analyst' = None
  /\ UNCHANGED <<trackerVars, failures, memoVars, decided, sent>> /\ Quiet

\* Mutant: the suspension interval is not capped.
TrackSkipUncapped ==
  /\ skips' = skips + 1
  /\ interval' = IF skips' >= SkipThreshold THEN 2 * Greatest(interval, 1) ELSE interval

\* _track_skip_suspension of a SKIP.
TrackSkip ==
  /\ skips' = skips + 1
  /\ interval' = IF skips' >= SkipThreshold
                 THEN Least(2 * Greatest(interval, 1), MaxInterval)
                 ELSE interval

\* SKIP: no candles or an error (not remembered), or a verdict.
ScoutSkips ==
  /\ pc = "scout" /\ pc' = "idle"
  /\ skips < MaxSkips /\ TrackSkip
  /\ \/ scoutMemo' = scoutMemo
     \/ scoutMemo = "none" /\ scoutMemo' = "skip"
  /\ UNCHANGED <<cooldown, rejections, waits, failures, analystMemo, tradeMemo,
                 analyst, decided, sent>>
  /\ Quiet

ScoutInterested ==
  /\ pc = "scout" /\ pc' = "analyst"
  /\ scoutMemo # "skip" /\ scoutMemo' = "interesting"
  /\ UNCHANGED <<trackerVars, failures, analystMemo, tradeMemo, analyst, decided, sent>>
  /\ Quiet

\* Mutant: the SKIPs are not forgotten.
FinishSuspended ==
  /\ pc' = "idle" /\ skips' = skips /\ interval' = 0
  /\ analyst' = None /\ decided' = None
  /\ Quiet

\* The cycle ends on an INTERESTING verdict: clear_skip_suspension.
Finish ==
  /\ pc' = "idle" /\ skips' = 0 /\ interval' = 0
  /\ analyst' = None /\ decided' = None
  /\ Quiet

Dirs(a) == IF a.direction = Neutral THEN Directions ELSE {a.direction}

Rejects(a) == ~a.valid /\ a.score <= RejectMax
Passes(a, gate) == a.valid /\ a.score >= gate

\* _apply_analyst_cooldown: the rejections and the cooldowns it leaves.
RejectionsAfter(a, gate) ==
  [d \in Directions |->
     IF d \notin Dirs(a) THEN rejections[d]
     ELSE IF Rejects(a) THEN Least(rejections[d] + 1, MaxMultiplier)
     ELSE IF Passes(a, gate) THEN 0
     ELSE rejections[d]]

CooldownAfter(a, gate) ==
  [d \in Directions |->
     IF d \notin Dirs(a) THEN cooldown[d]
     ELSE IF Rejects(a)
     THEN AnalystCooldown * (IF a.score <= LowBand THEN 3 ELSE 2) * RejectionsAfter(a, gate)[d]
     ELSE IF Passes(a, gate) THEN cooldown[d]
     ELSE Greatest(cooldown[d], BorderlineCycles)]

\* The Analyst's review ends the pipeline; no Trader deps, so the gate is
\* the NORMAL one.
ReviewEnds(a) ==
  /\ Finish
  /\ rejections' = RejectionsAfter(a, NormalGate)
  /\ cooldown' = CooldownAfter(a, NormalGate)
  /\ UNCHANGED <<waits, failures, sent>>

\* No candles, or the Analyst fails: no review at all.
AnalystFails ==
  /\ pc = "analyst" /\ Finish
  /\ UNCHANGED <<cooldown, rejections, waits, failures, memoVars, sent>>

\* Confluence too low for the LLM to be asked.
AnalystNotAsked ==
  /\ pc = "analyst"
  /\ \E a \in Reviews :
       /\ Rejects(a) /\ a.score <= LowBand /\ a.direction = Neutral
       /\ ReviewEnds(a)
  /\ UNCHANGED memoVars

\* A review, remembered or new.
Review(a) ==
  /\ pc = "analyst"
  /\ analystMemo \in {None, a} /\ analystMemo' = a
  /\ UNCHANGED <<scoutMemo, tradeMemo>>

\* The regime's gate, raised by an override or a contrary higher time frame.
AnalystStops(a) == Review(a) /\ ReviewEnds(a)

AnalystPasses(a) ==
  /\ Review(a)
  /\ \E gate \in Gates : Passes(a, gate)
  /\ pc' = "trader" /\ analyst' = a
  /\ UNCHANGED <<trackerVars, failures, decided, sent>> /\ Quiet

-----------------------------------------------------------------------------
(* The Trader.                                                             *)

Decide(action, geometry) ==
  /\ pc = "trader" /\ pc' = "conclude"
  /\ decided' = [action |-> action, geometry |-> geometry]
  /\ UNCHANGED <<trackerVars, scoutMemo, analystMemo, analyst, sent>> /\ Quiet

CircuitOpen == failures >= FailThreshold
Remembered  == tradeMemo # None /\ tradeMemo.review = analyst
Asked       == ~CircuitOpen /\ ~Remembered

\* No candles, or the Trader fails in some other way: no decision.
TraderFails ==
  /\ pc = "trader"
  /\ ReviewEnds(analyst)
  /\ UNCHANGED memoVars

ShortCircuit ==
  /\ CircuitOpen /\ Decide("wait", FALSE)
  /\ UNCHANGED <<failures, tradeMemo>>

TradeRemembered ==
  /\ ~CircuitOpen /\ Remembered
  /\ Decide(tradeMemo.decision.action, tradeMemo.decision.geometry)
  /\ UNCHANGED <<failures, tradeMemo>>

\* Mutant: the geometry is left out of the entry.
RememberAction == tradeMemo' = [review |-> analyst, decision |-> [decided' EXCEPT !.geometry = FALSE]]

\* cache_trader.
Remember == tradeMemo' = [review |-> analyst, decision |-> decided']

GateRejects ==
  /\ Asked /\ Decide("wait", FALSE)
  /\ Remember /\ UNCHANGED failures

TraderTimesOut ==
  /\ Asked /\ Decide("wait", FALSE)
  /\ UNCHANGED <<failures, tradeMemo>>

\* Unparseable output, or a structure the geometry cannot use.
TraderInvalid ==
  /\ Asked /\ Decide("wait", FALSE)
  /\ failures' = failures + 1
  /\ UNCHANGED tradeMemo

\* A decision; a geometry the market rules out makes it a WAIT.
TraderDecides(action) ==
  /\ Asked /\ Decide(action, action = "enter")
  /\ Remember /\ failures' = 0

-----------------------------------------------------------------------------
(* The end of a cycle: _handle_symbol after the router.                    *)

\* _track_consecutive_waits.
WaitCooldown(count) == Least(WaitBase * (count - WaitThreshold + 1), WaitMax)

WaitsAfter(a) ==
  [d \in Directions |->
     IF d \in Dirs(a) THEN Least(waits[d] + 1, WaitCap) ELSE waits[d]]

ConcludeWait(gate) ==
  /\ pc = "conclude" /\ decided.action = "wait" /\ Finish
  /\ rejections' = RejectionsAfter(analyst, gate)
  /\ waits' = WaitsAfter(analyst)
  /\ cooldown' = [d \in Directions |->
                    IF d \in Dirs(analyst) /\ waits'[d] >= WaitThreshold
                    THEN WaitCooldown(waits'[d])
                    ELSE CooldownAfter(analyst, gate)[d]]
  /\ UNCHANGED <<failures, memoVars, sent>>

\* Not enqueued: below the gate of the Trader's regime, or, for an entry,
\* the filter chain rejects it or raises.
ConcludeDropped(gate) ==
  /\ pc = "conclude" /\ decided.action # "wait" /\ Finish
  /\ decided.action = "enter" \/ ~Passes(analyst, gate)
  /\ rejections' = RejectionsAfter(analyst, gate)
  /\ cooldown' = CooldownAfter(analyst, gate)
  /\ UNCHANGED <<waits, failures, memoVars, sent>>

\* Mutant: the cooldown is set for the direction traded.
PostTradeOneSided ==
  cooldown' = [d \in Directions |-> IF d \in Dirs(analyst) THEN 3 * AnalystCooldown ELSE cooldown[d]]

\* The cooldown after a trade, on every direction.
PostTrade == cooldown' = [d \in Directions |-> 3 * AnalystCooldown]

Unbuilt == decided.action = "enter" /\ ~decided.geometry

\* Enqueued, unless the message cannot be built or the push fails.
ConcludeEnqueue(gate) ==
  /\ pc = "conclude" /\ decided.action # "wait" /\ Finish
  /\ Passes(analyst, gate)
  /\ rejections' = RejectionsAfter(analyst, gate)
  /\ PostTrade
  /\ waits' = [d \in Directions |-> 0]
  /\ failures' = IF Unbuilt THEN failures + 1 ELSE failures
  /\ sent' \in IF Unbuilt THEN {sent} ELSE {sent, sent + 1}
  /\ UNCHANGED memoVars

-----------------------------------------------------------------------------
Cycle ==
  \/ CoolDown \/ Suspend \/ Unavailable \/ Start \/ DepsRaise
  \/ ScoutSkips \/ ScoutInterested
  \/ AnalystFails \/ AnalystNotAsked
  \/ \E a \in Reviews : AnalystStops(a) \/ AnalystPasses(a)
  \/ TraderFails \/ ShortCircuit \/ TradeRemembered \/ GateRejects
  \/ TraderTimesOut \/ TraderInvalid
  \/ \E action \in {"enter", "close", "wait"} : TraderDecides(action)
  \/ \E gate \in Gates : ConcludeWait(gate) \/ ConcludeDropped(gate) \/ ConcludeEnqueue(gate)

Next == NewBar \/ Cycle

Spec == Init /\ [][Next]_vars

\* Candles close and the loop runs; each tier, asked again and again, now and
\* then answers favourably.
FairSpec ==
  /\ Spec /\ WF_vars(NewBar) /\ WF_vars(Cycle)
  /\ SF_vars(Start) /\ SF_vars(ScoutInterested)
  /\ SF_vars(\E a \in Reviews : AnalystPasses(a))
  /\ SF_vars(\E action \in {"enter", "close", "wait"} : TraderDecides(action))

-----------------------------------------------------------------------------
(* Properties.                                                             *)

\* The Trader's decision is remembered for the whole candle, so only the
\* cooldown after a trade keeps the loop from enqueuing it again: at most one
\* decision is enqueued while a candle is the latest.
OneDecisionPerBar == sent <= 1

\* A suspended symbol is never on cooldown in every direction: the two ways
\* of holding a symbol back do not add up.
SuspensionExcludesCooldown == skips > 0 => ~Cooled

\* Cooldowns and suspensions, however they follow one another, hold a symbol
\* back for a bounded number of cycles in a row.
MaxCooldown == Greatest(AnalystCooldown * 3 * MaxMultiplier, Greatest(WaitMax, BorderlineCycles))
HeldBackBounded == held <= Greatest(MaxCooldown, MaxInterval - 1)

\* _build_decision_message: "The router computes geometry for every
\* LONG/SHORT it emits", also for one it remembered.
EntriesHaveGeometry == pc = "conclude" => ~Unbuilt

-----------------------------------------------------------------------------
(* The inductive invariant behind the first, second and fourth of them.    *)

\* Once a decision has been enqueued, every direction cools down for the rest
\* of the candle and no pipeline is under way.
SentThenCooling ==
  /\ sent \in 0..1
  /\ sent = 1 => pc = "idle" /\ \A d \in Directions : cooldown[d] + barAge >= 3 * AnalystCooldown

\* A pipeline runs only while some direction is not on cooldown.
RunsUncooled == pc # "idle" => ~Cooled

\* The remembered decisions keep their geometry.
MemoHasGeometry ==
  tradeMemo # None =>
    (tradeMemo.decision.action = "enter" => tradeMemo.decision.geometry)

RInv ==
  /\ TypeOK /\ SentThenCooling
  /\ RunsUncooled /\ SuspensionExcludesCooldown
  /\ MemoHasGeometry /\ EntriesHaveGeometry

(* The inductive invariant behind the third.                               *)

\* A pipeline begins where the holding back ends.
RunsUnheld == pc # "idle" => held = 0

\* The cycles spent on cooldown and those still to be are of one cooldown.
HeldByCooldown ==
  /\ \A d \in Directions : cooldown[d] <= MaxCooldown
  /\ Cooled => \A d \in Directions : held + cooldown[d] <= MaxCooldown
  /\ skips = 0 => held <= MaxCooldown

\* A suspended symbol is let through at every multiple of the interval.
HeldBySkips == skips > 0 /\ held > 0 => interval > 0 /\ held <= (skips - 1) % interval

HInv == RunsUnheld /\ HeldByCooldown /\ HeldBySkips
=============================================================================
