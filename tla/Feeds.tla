--------------------------------- MODULE Feeds ---------------------------------
(***************************************************************************)
(* What the reasoning loop reads, from start-up on: the candles and the    *)
(* sentiment, brought up by cli/commands/trade.py and                      *)
(* TradingOrchestrator.start in an order that matters.  The candles are    *)
(* loaded first; a sentiment cycle, with all its fetches and its language  *)
(* model, is awaited next; only then is the ingest loop created, which     *)
(* subscribes to the candles.  A candle that closes in between is missed.  *)
(*                                                                         *)
(* From there on the loops run side by side and share nothing.  None of    *)
(* them ends: each catches what a cycle raises, so that the supervision    *)
(* of the orchestrator has nothing to restart, and shutdown() is not       *)
(* called.                                                                 *)
(***************************************************************************)
EXTENDS ExternalSentiment, MarketFeed

VARIABLE
  started  \* whether the loops were created

vars == <<sourceVars, feedVars, started>>

TypeOK == SentimentTypeOK /\ FeedTypeOK /\ started \in BOOLEAN

Init == SentimentInit /\ FeedInit /\ started = FALSE

\* _start_orchestrator initialises the cache.
Load ==
  \E n \in 0..MaxCandles : \E k \in 0..Seeds(n) :
    LoadHistory(n, k) /\ UNCHANGED <<sourceVars, started>>

\* ExternalSentimentLoop.warm_up, awaited by start(), and the cycles of run().
WarmUp == phase = "new" /\ ingest = "loaded" /\ BeginCycle /\ UNCHANGED <<feedVars, started>>
Cycle  == phase = "due" /\ started /\ BeginCycle /\ UNCHANGED <<feedVars, started>>

\* The warm-up is over: TradingOrchestrator.start creates a task for each loop.
CreateLoops ==
  /\ ~started /\ phase \in {"sleeping", "due"}
  /\ started' = TRUE
  /\ phase' = "due"  \* run() begins with a cycle
  /\ UNCHANGED <<breaker, elapsed, flight, fresh, cacheVars, streak, quiet, feedVars>>

\* DataIngestLoop.run
Ingest == started /\ BeginIngest /\ UNCHANGED <<sourceVars, started>>

Sentiment == SentimentStep /\ UNCHANGED <<feedVars, started>>
Feed      == FeedStep /\ UNCHANGED <<sourceVars, started>>
Time      == Tick /\ UNCHANGED <<feedVars, started>>

Next == Load \/ WarmUp \/ Cycle \/ CreateLoops \/ Ingest \/ Sentiment \/ Feed \/ Time

Spec == Init /\ [][Next]_vars

\* The event loop runs what can run, a source answers or times out, and the
\* clock goes on.
FairSpec ==
  Spec /\ WF_vars(Load \/ WarmUp \/ CreateLoops) /\ WF_vars(Cycle) /\ WF_vars(Sentiment)
       /\ WF_vars(Time)
=============================================================================
