-------------------------- MODULE ExternalSentiment --------------------------
(***************************************************************************)
(* The sentiment loop (external/loop.py): it asks every source of market   *)
(* data at once, each behind a breaker of its own (circuit_breaker.py),    *)
(* falls back on what a source last answered, keeps the result in a cache  *)
(* (cache.py) and has it summarised.  One cycle is awaited as a warm-up    *)
(* before the loops start.                                                 *)
(*                                                                         *)
(* One unit of time passes between two cycles at least.  The fetches of a  *)
(* cycle are coroutines of their own: all breakers are asked before any    *)
(* source answers, and each records its answer when it comes.              *)
(***************************************************************************)
EXTENDS Naturals, FiniteSets

CONSTANTS
  Sources,
  FailureThreshold,  \* failure_threshold
  Cooldown,          \* cooldown_s
  MaxCooldown,       \* max_cooldown_s
  MaxReopenCount     \* max_reopen_count

ASSUME SourcesAssumption ==
  /\ FailureThreshold \in Nat \ {0} /\ MaxReopenCount \in Nat \ {0}
  /\ Cooldown \in Nat \ {0} /\ MaxCooldown \in Nat \ {0}

VARIABLES
  breaker,   \* the CircuitBreaker of each source, without _opened_at
  elapsed,   \* time since _opened_at; no breaker waits longer than Longest
  phase,     \* where the loop's coroutine stands
  flight,    \* the sources it awaits an answer of
  fresh,     \* the sources that answered in this cycle
  known,     \* _last_successful
  snapshot,  \* _snapshot: the sources with a value in it
  degraded,  \* _sources_degraded
  summary,   \* _sentiment_summary: none, or the degraded sources it names
  streak,    \* history: failures of a source in a row
  quiet      \* history: time since its last failure, once these open the breaker

cacheVars  == <<known, snapshot, degraded, summary>>
sourceVars == <<breaker, elapsed, phase, flight, fresh, cacheVars, streak, quiet>>

Phases == {"new", "fetching", "synthesizing", "sleeping", "due"}

Breaker == [state : {"CLOSED", "OPEN", "HALF_OPEN"}, failures : Nat,
            cooldown : Nat, reopened : Nat, latched : BOOLEAN]

Smaller(a, b) == IF a < b THEN a ELSE b
Longest == IF Cooldown < MaxCooldown THEN MaxCooldown ELSE Cooldown

NewBreaker == [state |-> "CLOSED", failures |-> 0, cooldown |-> Cooldown,
               reopened |-> 0, latched |-> FALSE]

SentimentTypeOK ==
  /\ breaker \in [Sources -> Breaker]
  /\ elapsed \in [Sources -> 0..Longest]
  /\ phase \in Phases
  /\ flight \subseteq Sources /\ fresh \subseteq Sources
  /\ known \subseteq Sources /\ snapshot \subseteq Sources /\ degraded \subseteq Sources
  /\ summary \subseteq SUBSET Sources /\ Cardinality(summary) <= 1
  /\ streak \in [Sources -> Nat]
  /\ quiet \in [Sources -> 0..Longest]

SentimentInit ==
  /\ breaker = [s \in Sources |-> NewBreaker]
  /\ elapsed = [s \in Sources |-> 0]
  /\ phase = "new"
  /\ flight = {} /\ fresh = {}
  /\ known = {} /\ snapshot = {} /\ degraded = {} /\ summary = {}
  /\ streak = [s \in Sources |-> 0]
  /\ quiet = [s \in Sources |-> 0]

-----------------------------------------------------------------------------
(* The breaker.                                                            *)

\* CircuitBreaker.should_allow, its answer and the breaker afterwards
Cooled(s) == breaker[s].state = "OPEN" /\ elapsed[s] >= breaker[s].cooldown
ShouldAllow(s) ==
  /\ ~breaker[s].latched
  /\ breaker[s].state = "OPEN" => Cooled(s)
Asked(s) ==
  IF ShouldAllow(s) /\ Cooled(s) THEN [breaker[s] EXCEPT !.state = "HALF_OPEN"]
                                 ELSE breaker[s]

\* Mutant: success forgets the failures but not the failed probes.
MutRecoveredKeepsReopens(b) == [NewBreaker EXCEPT !.reopened = b.reopened]

\* CircuitBreaker.record_success
Recovered(b) == NewBreaker

\* Mutant: _opened_at is set only when the circuit first opens.
MutOpensOnce(b) == b.state = "CLOSED" /\ b.failures + 1 >= FailureThreshold

\* CircuitBreaker.record_failure; whether it sets _opened_at, and the breaker
Opens(b) == b.state = "HALF_OPEN" \/ b.failures + 1 >= FailureThreshold
Failed(b) ==
  LET probe == b.state = "HALF_OPEN" IN
  [state    |-> IF probe \/ b.failures + 1 >= FailureThreshold THEN "OPEN" ELSE b.state,
   failures |-> b.failures + 1,
   cooldown |-> IF probe THEN Smaller(2 * b.cooldown, MaxCooldown) ELSE b.cooldown,
   reopened |-> IF probe THEN b.reopened + 1 ELSE b.reopened,
   latched  |-> b.latched \/ (probe /\ b.reopened + 1 >= MaxReopenCount)]

-----------------------------------------------------------------------------
(* The cycle.                                                              *)

\* Mutant: a request that is refused restarts the wait.
MutRefusalRestarts ==
  /\ phase \in {"new", "due"}
  /\ phase' = "fetching"
  /\ flight' = {s \in Sources : ShouldAllow(s)}
  /\ fresh' = {}
  /\ breaker' = [s \in Sources |-> Asked(s)]
  /\ elapsed' = [s \in Sources |-> IF ShouldAllow(s) THEN elapsed[s] ELSE 0]
  /\ UNCHANGED <<cacheVars, streak, quiet>>

\* _cycle begins: _fetch_all starts every _fetch_one, which asks its breaker.
BeginCycle ==
  /\ phase \in {"new", "due"}
  /\ phase' = "fetching"
  /\ flight' = {s \in Sources : ShouldAllow(s)}
  /\ fresh' = {}
  /\ breaker' = [s \in Sources |-> Asked(s)]
  /\ UNCHANGED <<elapsed, cacheVars, streak, quiet>>

\* _fetch_one: the source answers with data.
Answers(s) ==
  /\ s \in flight
  /\ flight' = flight \ {s}
  /\ fresh' = fresh \cup {s}
  /\ breaker' = [breaker EXCEPT ![s] = Recovered(@)]
  /\ streak' = [streak EXCEPT ![s] = 0]
  /\ quiet' = [quiet EXCEPT ![s] = 0]
  /\ UNCHANGED <<elapsed, phase, cacheVars>>

\* _fetch_one: it answers with None, or raises.
Fails(s) ==
  /\ s \in flight
  /\ flight' = flight \ {s}
  /\ breaker' = [breaker EXCEPT ![s] = Failed(@)]
  /\ elapsed' = IF Opens(breaker[s]) THEN [elapsed EXCEPT ![s] = 0] ELSE elapsed
  /\ streak' = [streak EXCEPT ![s] = @ + 1]
  /\ quiet' = [quiet EXCEPT ![s] = 0]
  /\ UNCHANGED <<phase, fresh, cacheVars>>

\* _fetch_all returns: fresh values are remembered, the others stand in for
\* what did not come.  An empty snapshot is not summarised.
Collect ==
  /\ phase = "fetching" /\ flight = {}
  /\ known' = known \cup fresh
  /\ snapshot' = known'
  /\ degraded' = known' \ fresh
  /\ phase' = IF snapshot' = {} THEN "sleeping" ELSE "synthesizing"
  /\ UNCHANGED <<breaker, elapsed, flight, fresh, summary, streak, quiet>>

\* synthesize, its attempts taken together: a summary, or None or an exception
\* and the old summary stays.
Synthesize(done) ==
  /\ phase = "synthesizing"
  /\ phase' = "sleeping"
  /\ summary' = IF done THEN {degraded} ELSE summary
  /\ UNCHANGED <<breaker, elapsed, flight, fresh, known, snapshot, degraded, streak, quiet>>

\* Time passes; a loop that sleeps is due again.
Later(t) == IF t < Longest THEN t + 1 ELSE t
Tick ==
  /\ elapsed' = [s \in Sources |->
                   IF breaker[s].state = "OPEN" THEN Later(elapsed[s]) ELSE elapsed[s]]
  /\ quiet' = [s \in Sources |->
                 IF streak[s] >= FailureThreshold THEN Later(quiet[s]) ELSE quiet[s]]
  /\ phase' = IF phase = "sleeping" THEN "due" ELSE phase
  /\ UNCHANGED <<breaker, flight, fresh, cacheVars, streak>>

\* What the loop, its sources and its language model do.
SentimentStep ==
  \/ \E s \in Sources : Answers(s) \/ Fails(s)
  \/ Collect
  \/ \E done \in BOOLEAN : Synthesize(done)

SentimentNext == BeginCycle \/ SentimentStep \/ Tick
SentimentSpec == SentimentInit /\ [][SentimentNext]_sourceVars

-----------------------------------------------------------------------------
(* Properties.                                                             *)

\* The wait a source is owed after n further failures in a row: it doubles from
\* cooldown_s, up to max_cooldown_s.
BackOff[n \in Nat] ==
  IF n = 0 THEN Cooldown ELSE Smaller(2 * BackOff[n - 1], MaxCooldown)

\* A breaker is what the failures in a row say, whatever else happened before:
\* closed below the threshold, then one probe at a time, and given up after
\* max_reopen_count failed probes, neither earlier nor later, and for good.
Follows(b, n) ==
  /\ b.failures = n
  /\ b.state = "CLOSED" <=> n < FailureThreshold
  /\ b.reopened = IF n < FailureThreshold THEN 0 ELSE n - FailureThreshold
  /\ b.latched <=> n = FailureThreshold + MaxReopenCount
  /\ b.latched => b.state = "OPEN"
  /\ n <= FailureThreshold + MaxReopenCount
BreakerFollowsStreak ==
  \A s \in Sources :
    /\ Follows(breaker[s], streak[s])
    /\ s \in flight => breaker[s].state # "OPEN"

\* A source that failed failure_threshold times in a row is left alone for its
\* back-off before it is asked again, however the cycles fall.
ProbesSpaced ==
  [][\A s \in flight' \ flight :
       streak[s] >= FailureThreshold =>
         quiet[s] >= BackOff[streak[s] - FailureThreshold]]_sourceVars

\* A source that was not given up is asked again and again.
AskedAgain == \A s \in Sources : []<>(s \in flight \/ breaker[s].latched)

=============================================================================
