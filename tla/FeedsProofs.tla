------------------------------ MODULE FeedsProofs ------------------------------
(***************************************************************************)
(* Proofs about Feeds, for any sources, breakers, window and receive       *)
(* loops: a source is given up after failure_threshold + max_reopen_count  *)
(* failures in a row, and not before, and is left alone for its back-off   *)
(* before it is asked again; the candles of the window are in order and    *)
(* lack only closes that reached no receive loop.                          *)
(*                                                                         *)
(* BreakerFollowsStreak is inductive together with its types: a fetch is   *)
(* in flight only through a breaker that is closed or half open, so that   *)
(* every failure counts once, towards the threshold or as a failed probe.  *)
(*                                                                         *)
(* PaceInv ties the wait of a breaker to its failed probes, and its clock  *)
(* to the time since the last failure.                                     *)
(*                                                                         *)
(* The order of the window is not inductive.  FInv adds that what a        *)
(* receive loop has still to hand over is the candle before the forming    *)
(* one, and that the window holds none after that while it has.            *)
(***************************************************************************)
EXTENDS Feeds, FiniteSetTheorems, TLAPS

BreakerTypes ==
  /\ breaker \in [Sources -> Breaker]
  /\ streak \in [Sources -> Nat]
  /\ flight \subseteq Sources

BInv == BreakerTypes /\ BreakerFollowsStreak

\* Every breaker starts closed, with no failure.
LEMMA InitBInv == Init => BInv
  BY SourcesAssumption
  DEF Init, SentimentInit, BInv, BreakerTypes, Breaker, NewBreaker, Follows,
      BreakerFollowsStreak

\* should_allow lets a request through a breaker that was not given up, and that
\* is no longer open; otherwise it changes nothing the streak tells.
LEMMA AskedBreaker ==
  ASSUME NEW s \in Sources, NEW n \in Nat, breaker[s] \in Breaker, Follows(breaker[s], n)
  PROVE  /\ Asked(s) \in Breaker
         /\ Follows(Asked(s), n)
         /\ ShouldAllow(s) => Asked(s).state # "OPEN"
  <1>1. CASE ShouldAllow(s) /\ Cooled(s)
    <2>1. Asked(s) = [state |-> "HALF_OPEN", failures |-> breaker[s].failures,
                      cooldown |-> breaker[s].cooldown, reopened |-> breaker[s].reopened,
                      latched |-> breaker[s].latched]
      BY <1>1 DEF Asked, Breaker
    <2>2. breaker[s].state = "OPEN" /\ ~breaker[s].latched
      BY <1>1 DEF ShouldAllow, Cooled
    <2>3. QED  BY <2>1, <2>2 DEF Breaker, Follows
  <1>2. CASE ~(ShouldAllow(s) /\ Cooled(s))
    BY <1>2 DEF Asked, ShouldAllow
  <1>3. QED  BY <1>1, <1>2

\* record_failure counts a failure once: towards the threshold, or as a probe.
LEMMA FailedBreaker ==
  ASSUME NEW b \in Breaker, NEW n \in Nat, Follows(b, n), b.state # "OPEN"
  PROVE  Failed(b) \in Breaker /\ Follows(Failed(b), n + 1)
  <1>1. Failed(b) \in Breaker
    BY SourcesAssumption DEF Failed, Breaker, Smaller
  <1>2. CASE b.state = "HALF_OPEN"
    <2>1. /\ n >= FailureThreshold /\ n < FailureThreshold + MaxReopenCount
          /\ ~b.latched /\ b.reopened = n - FailureThreshold
      BY <1>2, SourcesAssumption DEF Follows
    <2>2. /\ Failed(b).state = "OPEN" /\ Failed(b).failures = n + 1
          /\ Failed(b).reopened = b.reopened + 1
          /\ Failed(b).latched <=> b.reopened + 1 >= MaxReopenCount
      BY <1>2, <2>1 DEF Failed, Follows
    <2>3. b.reopened + 1 >= MaxReopenCount <=> n + 1 = FailureThreshold + MaxReopenCount
      BY <2>1, SourcesAssumption
    <2>4. /\ Failed(b).reopened = (n + 1) - FailureThreshold
          /\ ~(n + 1 < FailureThreshold)
          /\ n + 1 <= FailureThreshold + MaxReopenCount
      BY <2>1, <2>2, SourcesAssumption
    <2>5. QED  BY <1>1, <2>2, <2>3, <2>4 DEF Follows
  <1>3. CASE b.state = "CLOSED"
    BY <1>1, <1>3, SourcesAssumption DEF Failed, Breaker, Follows
  <1>4. QED  BY <1>1, <1>2, <1>3 DEF Breaker

\* A cycle asks every breaker.
LEMMA BeginKeeps ==
  ASSUME BInv, BeginCycle  PROVE BInv'
  <1>1. /\ flight' = {s \in Sources : ShouldAllow(s)}
        /\ breaker' = [s \in Sources |-> Asked(s)]
        /\ streak' = streak
    BY DEF BeginCycle
  <1>2. \A s \in Sources : /\ Asked(s) \in Breaker
                           /\ Follows(Asked(s), streak[s])
                           /\ ShouldAllow(s) => Asked(s).state # "OPEN"
    BY AskedBreaker DEF BInv, BreakerTypes, BreakerFollowsStreak
  <1>3. QED  BY <1>1, <1>2 DEF BInv, BreakerTypes, BreakerFollowsStreak

\* An answer closes the breaker and ends the streak.
LEMMA AnswersKeeps ==
  ASSUME BInv, NEW s \in Sources, Answers(s)  PROVE BInv'
  <1>1. NewBreaker \in Breaker /\ Follows(NewBreaker, 0) /\ NewBreaker.state # "OPEN"
    BY SourcesAssumption DEF NewBreaker, Breaker, Follows
  <1>2. QED
    BY <1>1 DEF BInv, BreakerTypes, BreakerFollowsStreak, Answers, Recovered

\* A failure counts once, in the streak and in the breaker.
LEMMA FailsKeeps ==
  ASSUME BInv, NEW s \in Sources, Fails(s)  PROVE BInv'
  <1>1. Failed(breaker[s]) \in Breaker /\ Follows(Failed(breaker[s]), streak[s] + 1)
    BY FailedBreaker DEF BInv, BreakerTypes, BreakerFollowsStreak, Fails
  <1>2. QED
    BY <1>1 DEF BInv, BreakerTypes, BreakerFollowsStreak, Fails

\* No step of the loop, the clock or the market breaks it.
LEMMA StepBInv == BInv /\ [Next]_vars => BInv'
  <1> SUFFICES ASSUME BInv, [Next]_vars  PROVE BInv'
    OBVIOUS
  <1>1. ASSUME UNCHANGED <<breaker, streak, flight>>  PROVE BInv'
    BY <1>1 DEF BInv, BreakerTypes, BreakerFollowsStreak
  <1>2. CASE WarmUp \/ Cycle
    BY <1>2, BeginKeeps DEF WarmUp, Cycle
  <1>3. CASE Sentiment
    <2>1. ASSUME NEW s \in Sources, Answers(s) \/ Fails(s)  PROVE BInv'
      BY <2>1, AnswersKeeps, FailsKeeps
    <2>2. CASE Collect
      BY <2>2, <1>1 DEF Collect
    <2>3. CASE \E done \in BOOLEAN : Synthesize(done)
      BY <2>3, <1>1 DEF Synthesize
    <2>4. QED  BY <1>3, <2>1, <2>2, <2>3 DEF Sentiment, SentimentStep
  <1>4. CASE Load \/ CreateLoops \/ Ingest \/ Feed \/ Time
    BY <1>4, <1>1 DEF Load, CreateLoops, Ingest, Feed, Time, Tick, sourceVars
  <1>5. CASE UNCHANGED vars
    BY <1>5, <1>1 DEF vars, sourceVars
  <1>6. QED  BY <1>2, <1>3, <1>4, <1>5 DEF Next

\* A source is given up exactly after failure_threshold + max_reopen_count
\* failures in a row (circuit_breaker.py).
THEOREM GivenUpAfterStreak == Spec => []BreakerFollowsStreak
  <1>1. Spec => []BInv
    BY InitBInv, StepBInv, PTL DEF Spec
  <1>2. BInv => BreakerFollowsStreak
    BY DEF BInv
  <1>3. QED  BY <1>1, <1>2, PTL
-----------------------------------------------------------------------------
(* The window.                                                             *)

\* A deque of n elements takes one more: the new one is last, the others keep
\* their order, and one of them goes only when there were n.
Taken(s, x, n, w) ==
  /\ Len(w) \in 1..n /\ w[Len(w)] = x
  /\ \/ /\ Len(w) = Len(s) + 1
        /\ \A i \in 1..Len(s) : w[i] = s[i]
     \/ /\ Len(s) = n /\ Len(w) = n
        /\ \A i \in 1..(n - 1) : w[i] = s[i + 1]

\* A window takes one more candle at its end and loses its first when it is full.
LEMMA NewestAppended ==
  ASSUME NEW S, NEW s \in Seq(S), NEW x \in S, NEW n \in Nat \ {0}, Len(s) <= n,
         NEW w, w = Newest(Append(s, x), n)
  PROVE  w \in Seq(S) /\ Taken(s, x, n, w)
  <1>1. /\ Append(s, x) \in Seq(S) /\ Len(Append(s, x)) = Len(s) + 1 /\ Len(s) \in Nat
        /\ Append(s, x)[Len(s) + 1] = x
        /\ \A i \in 1..Len(s) : Append(s, x)[i] = s[i]
    OBVIOUS
  <1>2. CASE Len(s) < n
    <2>1. ~(Len(Append(s, x)) > n)
      BY <1>1, <1>2
    <2>2. w = SubSeq(Append(s, x), 1, Len(Append(s, x)))
      BY <2>1 DEF Newest
    <2>3. /\ w \in Seq(S) /\ Len(w) = Len(s) + 1
          /\ \A i \in 1..(Len(s) + 1) : w[i] = Append(s, x)[i]
      BY <1>1, <2>2
    <2>4. QED  BY <1>1, <1>2, <2>3 DEF Taken
  <1>3. CASE Len(s) = n
    <2>1. w = SubSeq(Append(s, x), 2, n + 1)
      BY <1>1, <1>3 DEF Newest
    <2>2. /\ w \in Seq(S) /\ Len(w) = n
          /\ \A i \in 1..n : w[i] = Append(s, x)[i + 1]
      BY <1>1, <1>3, <2>1
    <2>3. QED  BY <1>1, <1>3, <2>2 DEF Taken
  <1>4. QED  BY <1>1, <1>2, <1>3

\* Nothing is there before the load.  A candle on its way is the last that
\* closed, and the window is never ahead of it: the loop hands over the last
\* candle of the window in its final form, or the next one it has not seen.
UnloadedInv ==
  ingest = "unloaded" =>
    /\ window = <<>> /\ atrs = <<>>
    /\ \A r \in Receivers : receiver[r] = "unused" /\ inbox[r] = 0
InboxInv ==
  \A r \in Receivers : inbox[r] # 0 =>
    /\ inbox[r] + 1 = bar
    /\ \A i \in 1..Len(window) : window[i].open < bar
    /\ \A i \in 1..Len(atrs) : atrs[i] < bar
BarInv ==
  /\ \A i \in 1..Len(window) : window[i].open <= bar
  /\ \A i \in 1..Len(atrs) : atrs[i] <= bar
FInv == FeedTypeOK /\ UnloadedInv /\ InboxInv /\ BarInv /\ WindowInOrder /\ NothingElseMissing

\* The window is what was loaded; no receive loop exists.
LEMMA InitFInv == Init => FInv
  <1> SUFFICES ASSUME FeedInit  PROVE FInv
    BY DEF Init
  <1>1. FeedTypeOK
    <2>1. bar \in FirstBar..LastBar /\ faults \in 0..MaxFaults /\ ingest \in Stages
      BY FeedAssumption DEF FeedInit, Stages
    <2>2. window \in Seq(Candle) /\ Len(window) <= MaxCandles
      BY FeedAssumption DEF FeedInit
    <2>3. atrs \in Seq(Nat) /\ Len(atrs) <= HistoryLength
      BY FeedAssumption DEF FeedInit
    <2>4. /\ receiver \in [Receivers -> {"unused", "live", "away", "dead"}]
          /\ inbox \in [Receivers -> {0} \cup (FirstBar..LastBar)]
      BY DEF FeedInit
    <2>5. running \in BOOLEAN /\ stream \in {0} \cup Receivers /\ missed \subseteq FirstBar..LastBar
      BY DEF FeedInit
    <2>6. QED  BY <2>1, <2>2, <2>3, <2>4, <2>5 DEF FeedTypeOK
  <1>2. UnloadedInv /\ InboxInv /\ BarInv /\ NothingElseMissing
    BY DEF FeedInit, UnloadedInv, InboxInv, BarInv, NothingElseMissing
  <1>3. WindowInOrder
    BY FeedAssumption DEF FeedInit, WindowInOrder, HasAtr
  <1>4. QED  BY <1>1, <1>2, <1>3 DEF FInv

\* The close of a candle that the window ends with, or that is newer: the window
\* stays in order, and what leaves it is older than all that is in it.
MovedOn(c, k, w) ==
  /\ w \in Seq(Candle) /\ Len(w) \in 1..MaxCandles
  /\ w[Len(w)] = k
  /\ \A i, j \in 1..Len(w) : i < j => w[i].open < w[j].open
  /\ \A i \in 1..Len(w) : w[i].open <= c
  /\ \A i \in 1..Len(window) :
       \/ window[i].open = c
       \/ \E j \in 1..Len(w) : w[j] = window[i]
       \/ Len(w) = MaxCandles /\ w[1].open > window[i].open
  /\ \A d \in Nat : PushedOut(d) => Len(w) = MaxCandles /\ w[1].open > d

\* What the window and the ATR history are after a close was handled.
LEMMA CandleTaken ==
  ASSUME window \in Seq(Candle), Len(window) <= MaxCandles,
         \A i, j \in 1..Len(window) : i < j => window[i].open < window[j].open,
         NEW c \in Nat, \A i \in 1..Len(window) : window[i].open <= c,
         NEW k \in Candle, k.open = c,
         NEW w, w = IF window # <<>> /\ window[Len(window)].open = c
                      THEN [window EXCEPT ![Len(window)] = k]
                      ELSE Newest(Append(window, k), MaxCandles)
  PROVE  MovedOn(c, k, w)
  <1>1. k.open = c /\ \A i \in 1..Len(window) : window[i].open \in Nat
    <2>1. \A x \in Candle : x.open \in Nat
      BY DEF Candle
    <2>2. \A i \in 1..Len(window) : window[i] \in Candle
      OBVIOUS
    <2>3. QED  BY <2>1, <2>2
  <1>2. /\ Len(window) \in Nat /\ Len(window) <= MaxCandles
        /\ MaxCandles \in Nat /\ MaxCandles >= 1
    BY FeedAssumption
  <1>3. CASE window # <<>> /\ window[Len(window)].open = c
    <2>1. w = [window EXCEPT ![Len(window)] = k] /\ Len(window) >= 1
      BY <1>2, <1>3
    <2>2. /\ w \in Seq(Candle) /\ Len(w) = Len(window) /\ w[Len(w)] = k
          /\ \A i \in 1..Len(w) : i # Len(w) => w[i] = window[i]
          /\ \A i \in 1..Len(w) : w[i].open = window[i].open
      BY <1>1, <1>2, <1>3, <2>1
    <2>3. \A i \in 1..Len(window) : window[i].open # c => w[i] = window[i]
      BY <1>3, <2>2
    <2>4. \A i, j \in 1..Len(w) : i < j => w[i].open < w[j].open
      BY <2>2
    <2>5. \A i \in 1..Len(w) : w[i].open <= c
      BY <2>2
    <2>6. \A i \in 1..Len(window) : window[i].open = c \/ \E j \in 1..Len(w) : w[j] = window[i]
      BY <2>2, <2>3
    <2>7. \A d \in Nat : PushedOut(d) => Len(w) = MaxCandles /\ w[1].open > d
      BY <1>2, <2>1, <2>2 DEF PushedOut
    <2>8. Len(w) \in 1..MaxCandles
      BY <1>2, <2>1, <2>2
    <2>9. QED  BY <2>2, <2>4, <2>5, <2>6, <2>7, <2>8 DEF MovedOn
  <1>4. CASE ~(window # <<>> /\ window[Len(window)].open = c)
    <2>1. w = Newest(Append(window, k), MaxCandles)
      BY <1>4
    <2>2. /\ w \in Seq(Candle) /\ Len(w) \in 1..MaxCandles
          /\ w[Len(w)] = k
          /\ \/ /\ Len(w) = Len(window) + 1
                /\ \A i \in 1..Len(window) : w[i] = window[i]
             \/ /\ Len(window) = MaxCandles /\ Len(w) = MaxCandles
                /\ \A i \in 1..(MaxCandles - 1) : w[i] = window[i + 1]
      <3>1. MaxCandles \in Nat \ {0}
        BY <1>2
      <3>2. w \in Seq(Candle) /\ Taken(window, k, MaxCandles, w)
        BY <2>1, <3>1, NewestAppended, Zenon
      <3>3. QED  BY <3>2 DEF Taken
    <2>3. \A i \in 1..Len(window) : window[i].open < c
      <3> SUFFICES ASSUME NEW i \in 1..Len(window)  PROVE window[i].open < c
        OBVIOUS
      <3>1. Len(window) >= 1 /\ window[Len(window)].open < c
        BY <1>1, <1>2, <1>4
      <3>2. QED  BY <1>1, <1>2, <3>1
    <2>4. CASE Len(w) = Len(window) + 1 /\ \A i \in 1..Len(window) : w[i] = window[i]
      <3>1. \A i, j \in 1..Len(w) : i < j => w[i].open < w[j].open
        BY <1>1, <1>2, <2>2, <2>3, <2>4
      <3>2. \A i \in 1..Len(w) : w[i].open <= c
        BY <1>1, <1>2, <2>2, <2>3, <2>4
      <3>3. \A i \in 1..Len(window) : \E j \in 1..Len(w) : w[j] = window[i]
        BY <1>2, <2>4
      <3>4. \A d \in Nat : PushedOut(d) => FALSE
        BY <1>2, <2>2, <2>4 DEF PushedOut
      <3>5. QED  BY <2>2, <3>1, <3>2, <3>3, <3>4 DEF MovedOn
    <2>5. CASE /\ Len(window) = MaxCandles /\ Len(w) = MaxCandles
               /\ \A i \in 1..(MaxCandles - 1) : w[i] = window[i + 1]
      <3>1. \A i \in 1..Len(w) : w[i].open > window[i].open /\ w[i].open <= c
        BY <1>1, <1>2, <2>2, <2>3, <2>5
      <3>2. \A i, j \in 1..Len(w) : i < j => w[i].open < w[j].open
        BY <1>1, <1>2, <2>2, <2>3, <2>5
      <3>3. \A i \in 1..Len(window) :
              (\E j \in 1..Len(w) : w[j] = window[i]) \/ w[1].open > window[i].open
        <4> SUFFICES ASSUME NEW i \in 1..Len(window)
                     PROVE  (\E j \in 1..Len(w) : w[j] = window[i]) \/ w[1].open > window[i].open
          OBVIOUS
        <4>1. CASE i = 1
          BY <1>2, <2>2, <2>5, <3>1, <4>1
        <4>2. CASE i # 1
          <5>1. i - 1 \in 1..(MaxCandles - 1) /\ i - 1 \in 1..Len(w) /\ (i - 1) + 1 = i
            BY <1>2, <2>5, <4>2
          <5>2. QED  BY <2>5, <5>1
        <4>3. QED  BY <4>1, <4>2
      <3>4. \A d \in Nat : PushedOut(d) => w[1].open > d
        BY <1>1, <1>2, <2>2, <2>5, <3>1 DEF PushedOut, Candle
      <3>5. QED  BY <2>2, <2>5, <3>1, <3>2, <3>3, <3>4 DEF MovedOn
    <2>6. QED  BY <2>2, <2>4, <2>5
  <1>5. QED  BY <1>3, <1>4

\* The ATR history takes one more entry, no older than those it has.
LEMMA AtrTaken ==
  ASSUME NEW s \in Seq(Nat), NEW n \in Nat \ {0}, Len(s) <= n, NEW c \in Nat,
         \A i, j \in 1..Len(s) : i < j => s[i] <= s[j],
         \A i \in 1..Len(s) : s[i] <= c,
         NEW w, w = Newest(Append(s, c), n)
  PROVE  /\ w \in Seq(Nat) /\ Len(w) \in 1..n /\ w[Len(w)] = c
         /\ \A i, j \in 1..Len(w) : i < j => w[i] <= w[j]
         /\ \A i \in 1..Len(w) : w[i] <= c
  <1>1. w \in Seq(Nat) /\ Taken(s, c, n, w)
    BY NewestAppended, Zenon
  <1>2. Len(s) \in Nat /\ n \in Nat /\ \A i \in 1..Len(s) : s[i] \in Nat
    OBVIOUS
  <1>3. Len(w) \in 1..n /\ w[Len(w)] = c
    BY <1>1 DEF Taken
  <1>5. ASSUME NEW i \in 1..Len(w), NEW j \in 1..Len(w), i < j
        PROVE  w[i] <= w[j]
    <2>1. CASE /\ Len(w) = Len(s) + 1
               /\ \A m \in 1..Len(s) : w[m] = s[m]
      <3>1. i \in 1..Len(s) /\ w[i] = s[i]
        BY <1>2, <1>3, <1>5, <2>1
      <3>2. CASE j = Len(w)
        BY <1>2, <1>3, <3>1, <3>2
      <3>3. CASE j # Len(w)
        <4>1. j \in 1..Len(s) /\ w[j] = s[j]
          BY <1>2, <2>1, <3>3
        <4>2. QED  BY <1>5, <3>1, <4>1
      <3>4. QED  BY <3>2, <3>3
    <2>2. CASE /\ Len(s) = n /\ Len(w) = n
               /\ \A m \in 1..(n - 1) : w[m] = s[m + 1]
      <3>1. i + 1 \in 1..Len(s) /\ w[i] = s[i + 1]
        BY <1>2, <1>5, <2>2
      <3>2. CASE j = Len(w)
        BY <1>2, <1>3, <3>1, <3>2
      <3>3. CASE j # Len(w)
        <4>1. j + 1 \in 1..Len(s) /\ w[j] = s[j + 1] /\ i + 1 < j + 1
          BY <1>2, <1>5, <2>2, <3>3
        <4>2. QED  BY <3>1, <4>1
      <3>4. QED  BY <3>2, <3>3
    <2>3. QED  BY <1>1, <2>1, <2>2 DEF Taken
  <1>6. \A i \in 1..Len(w) : w[i] <= c
    BY <1>1, <1>2, <1>3, <1>5
  <1>7. QED  BY <1>1, <1>3, <1>5, <1>6

\* _on_kline with the close of the last candle: the window takes it or leaves it,
\* and it is missing only if it was not read; the ATR history takes it or not.
LEMMA CloseHandled ==
  ASSUME FInv, NEW r \in Receivers, TakeUp(r),
         faults' \in 0..MaxFaults, missed' \subseteq FirstBar..LastBar, missed \subseteq missed',
         window' = WithCandle(inbox[r]) \/ (window' = window /\ inbox[r] \in missed'),
         atrs' = Newest(Append(atrs, inbox[r]), HistoryLength) \/ atrs' = atrs,
         faults' = 0 /\ HasAtr(Len(window')) =>
           /\ window' = WithCandle(inbox[r])
           /\ atrs' = Newest(Append(atrs, inbox[r]), HistoryLength)
  PROVE  FInv'
  <1> DEFINE c == inbox[r]
             k == [open |-> c, final |-> TRUE]
  <1>1. /\ c \in FirstBar..LastBar /\ c + 1 = bar /\ c \in Nat /\ ingest # "unloaded"
        /\ \A i \in 1..Len(window) : window[i].open < bar
        /\ \A i \in 1..Len(atrs) : atrs[i] < bar
        /\ \A q \in Receivers : inbox[q] # 0 => inbox[q] = c
    <2>1. inbox[r] # 0 /\ inbox \in [Receivers -> {0} \cup (FirstBar..LastBar)]
      BY DEF TakeUp, FInv, FeedTypeOK
    <2>2. bar \in Nat /\ \A q \in Receivers : inbox[q] # 0 => inbox[q] \in FirstBar..LastBar
      BY <2>1, FeedAssumption DEF FInv, FeedTypeOK
    <2>3. QED  BY <2>1, <2>2, FeedAssumption DEF FInv, InboxInv, UnloadedInv
  <1>2. /\ window \in Seq(Candle) /\ Len(window) <= MaxCandles
        /\ atrs \in Seq(Nat) /\ Len(atrs) <= HistoryLength
        /\ Len(window) \in Nat /\ Len(atrs) \in Nat
        /\ MaxCandles \in Nat \ {0} /\ HistoryLength \in Nat \ {0}
    BY FeedAssumption DEF FInv, FeedTypeOK
  <1>3. /\ inbox' = [inbox EXCEPT ![r] = 0]
        /\ UNCHANGED <<bar, running, stream, receiver, ingest>>
        /\ window' = WithCandle(c) \/ (window' = window /\ c \in missed')
        /\ atrs' = Newest(Append(atrs, c), HistoryLength) \/ atrs' = atrs
        /\ faults' = 0 /\ HasAtr(Len(window')) =>
             window' = WithCandle(c) /\ atrs' = Newest(Append(atrs, c), HistoryLength)
    BY DEF TakeUp
  <1>4. k \in Candle /\ k.open = c
    BY <1>1 DEF Candle
  <1>5. /\ \A i \in 1..Len(window) : window[i].open <= c
        /\ \A i \in 1..Len(atrs) : atrs[i] <= c
    <2>1. \A x \in Candle : x.open \in Nat
      BY DEF Candle
    <2>2. \A i \in 1..Len(window) : window[i].open \in Nat
      BY <1>2, <2>1
    <2>3. \A i \in 1..Len(atrs) : atrs[i] \in Nat
      BY <1>2
    <2>4. QED  BY <1>1, <2>2, <2>3
  <1>6. \A i, j \in 1..Len(window) : i < j => window[i].open < window[j].open
    BY DEF FInv, WindowInOrder
  <1> HIDE DEF c
  <1>7. ASSUME window' = WithCandle(c)  PROVE MovedOn(c, k, window')
    <2>1. window' = IF window # <<>> /\ window[Len(window)].open = c
                      THEN [window EXCEPT ![Len(window)] = k]
                      ELSE Newest(Append(window, k), MaxCandles)
      BY <1>7 DEF WithCandle
    <2> HIDE DEF k
    <2>2. MovedOn(c, k, window')
      BY <1>1, <1>2, <1>4, <1>5, <1>6, <2>1, CandleTaken, Zenon
    <2>3. QED  BY <1>4, <2>2
  <1>8. /\ window' \in Seq(Candle) /\ Len(window') <= MaxCandles
        /\ \A i, j \in 1..Len(window') : i < j => window'[i].open < window'[j].open
        /\ \A i \in 1..Len(window') : window'[i].open <= c
        /\ \A i \in 1..Len(window) :
             \/ window[i].open = c
             \/ \E j \in 1..Len(window') : window'[j] = window[i]
             \/ Len(window') = MaxCandles /\ window'[1].open > window[i].open
        /\ \A d \in Nat : PushedOut(d) => Len(window') = MaxCandles /\ window'[1].open > d
        /\ window' = WithCandle(c) => Len(window') \in 1..MaxCandles /\ window'[Len(window')] = k
    <2>1. CASE window' = WithCandle(c)
      <3>1. MovedOn(c, k, window')
        BY <1>7, <2>1
      <3> HIDE DEF k
      <3>2. QED  BY <1>2, <3>1 DEF MovedOn
    <2>2. CASE window' = window /\ window' # WithCandle(c)
      BY <1>2, <1>5, <1>6, <2>2 DEF PushedOut
    <2>3. QED  BY <1>3, <2>1, <2>2
  <1>9. /\ atrs' \in Seq(Nat) /\ Len(atrs') <= HistoryLength
        /\ \A i, j \in 1..Len(atrs') : i < j => atrs'[i] <= atrs'[j]
        /\ \A i \in 1..Len(atrs') : atrs'[i] <= c
        /\ atrs' = Newest(Append(atrs, c), HistoryLength) =>
             Len(atrs') \in 1..HistoryLength /\ atrs'[Len(atrs')] = c
    <2>1. \A i, j \in 1..Len(atrs) : i < j => atrs[i] <= atrs[j]
      BY DEF FInv, WindowInOrder
    <2>2. CASE atrs' = Newest(Append(atrs, c), HistoryLength)
      <3>1. /\ atrs' \in Seq(Nat) /\ Len(atrs') \in 1..HistoryLength /\ atrs'[Len(atrs')] = c
            /\ \A i, j \in 1..Len(atrs') : i < j => atrs'[i] <= atrs'[j]
            /\ \A i \in 1..Len(atrs') : atrs'[i] <= c
        <4>1. atrs \in Seq(Nat) /\ HistoryLength \in Nat \ {0} /\ Len(atrs) <= HistoryLength
              /\ c \in Nat /\ \A i \in 1..Len(atrs) : atrs[i] <= c
          BY <1>1, <1>2, <1>5
        <4>2. QED  BY <4>1, <2>1, <2>2, AtrTaken
      <3>2. QED  BY <1>2, <3>1
    <2>3. CASE atrs' = atrs /\ atrs' # Newest(Append(atrs, c), HistoryLength)
      BY <1>2, <1>5, <2>1, <2>3
    <2>4. QED  BY <1>3, <2>2, <2>3
  <1>10. FeedTypeOK'
    <2>1. inbox' \in [Receivers -> {0} \cup (FirstBar..LastBar)]
      BY <1>3 DEF FInv, FeedTypeOK
    <2>2. QED  BY <1>2, <1>3, <1>8, <1>9, <2>1 DEF FInv, FeedTypeOK
  <1>11. WindowInOrder'
    <2>1. ASSUME faults' = 0, HasAtr(Len(window'))
          PROVE  atrs' # <<>> /\ atrs'[Len(atrs')] = window'[Len(window')].open
      <3>1. /\ Len(window') \in 1..MaxCandles /\ window'[Len(window')] = k
            /\ Len(atrs') \in 1..HistoryLength /\ atrs'[Len(atrs')] = c
        BY <1>3, <1>8, <1>9, <2>1
      <3>2. QED  BY <1>4, <3>1
    <2>2. QED  BY <1>8, <1>9, <2>1 DEF WindowInOrder, HasAtr
  <1>12. UnloadedInv'
    BY <1>1, <1>3 DEF UnloadedInv
  <1>14. /\ \A i \in 1..Len(window') : window'[i].open < bar /\ window'[i].open <= bar
         /\ \A i \in 1..Len(atrs') : atrs'[i] < bar /\ atrs'[i] <= bar
    <2>1. \A x \in Candle : x.open \in Nat
      BY DEF Candle
    <2>2. \A i \in 1..Len(window') : window'[i].open \in Nat
      BY <1>8, <2>1
    <2>3. \A i \in 1..Len(atrs') : atrs'[i] \in Nat
      BY <1>9
    <2>4. QED  BY <1>1, <1>8, <1>9, <2>2, <2>3
  <1>15. InboxInv' /\ BarInv'
    BY <1>3, <1>14 DEF FInv, FeedTypeOK, InboxInv, BarInv
  <1>16. NothingElseMissing'
    <2> SUFFICES ASSUME NEW d \in FirstBar..(bar - 1), d \notin missed'
                 PROVE  (InWindow(d) \/ OnItsWay(d) \/ PushedOut(d))'
      BY <1>3 DEF NothingElseMissing
    <2>1. d \in Nat
      BY FeedAssumption DEF FInv, FeedTypeOK
    <2>2. d = c => InWindow(d)'
      <3>1. d = c => window' = WithCandle(c)
        BY <1>3
      <3>2. QED  BY <1>8, <3>1 DEF InWindow, k
    <2>3. CASE InWindow(d)
      <3>1. PICK i \in 1..Len(window) : window[i] = [open |-> d, final |-> TRUE]
        BY <2>3 DEF InWindow
      <3>2. window[i].open = d
        BY <3>1
      <3>3. CASE \E j \in 1..Len(window') : window'[j] = window[i]
        BY <3>1, <3>3 DEF InWindow
      <3>4. CASE Len(window') = MaxCandles /\ window'[1].open > window[i].open
        BY <3>2, <3>4 DEF PushedOut
      <3>5. QED  BY <1>8, <2>2, <3>2, <3>3, <3>4
    <2>4. CASE OnItsWay(d)
      BY <1>1, <2>1, <2>2, <2>4, FeedAssumption DEF OnItsWay
    <2>5. CASE PushedOut(d)
      BY <1>8, <2>1, <2>5 DEF PushedOut
    <2>6. QED  BY <1>1, <2>3, <2>4, <2>5 DEF FInv, NothingElseMissing
  <1>17. QED  BY <1>10, <1>11, <1>12, <1>15, <1>16 DEF FInv

\* Handled, or not read, or not calculated with.
LEMMA HandleKeeps ==
  ASSUME FInv, NEW r \in Receivers, Handle(r) \/ Mishandle(r)
  PROVE  FInv'
  <1>1. faults \in 0..MaxFaults /\ missed \subseteq FirstBar..LastBar /\ MaxFaults \in Nat
    BY FeedAssumption DEF FInv, FeedTypeOK
  <1>2. CASE Handle(r)
    <2>1. /\ TakeUp(r) /\ window' = WithCandle(inbox[r])
          /\ atrs' = IF HasAtr(Len(window')) THEN Newest(Append(atrs, inbox[r]), HistoryLength)
                     ELSE atrs
          /\ faults' = faults /\ missed' = missed
      BY <1>2 DEF Handle
    <2>2. QED  BY <1>1, <2>1, CloseHandled
  <1>3. CASE Mishandle(r)
    <2>1. /\ TakeUp(r) /\ atrs' = atrs /\ faults < MaxFaults /\ faults' = faults + 1
          /\ \/ window' = window /\ missed' = missed \cup {inbox[r]}
             \/ window' = WithCandle(inbox[r]) /\ missed' = missed
      BY <1>3 DEF Mishandle
    <2>2. inbox[r] \in FirstBar..LastBar
      BY <2>1 DEF TakeUp, FInv, FeedTypeOK
    <2>3. faults' \in 0..MaxFaults /\ faults' # 0
      BY <1>1, <2>1
    <2>4. missed' \subseteq FirstBar..LastBar /\ missed \subseteq missed'
      BY <1>1, <2>1, <2>2
    <2>5. window' = WithCandle(inbox[r]) \/ (window' = window /\ inbox[r] \in missed')
      BY <2>1
    <2>6. QED  BY <2>1, <2>3, <2>4, <2>5, CloseHandled
  <1>4. QED  BY <1>2, <1>3

\* A step that leaves the window and what is on its way alone.
LEMMA ElsewhereKeepsFeed ==
  ASSUME FInv, FeedTypeOK', UNCHANGED <<bar, window, atrs, inbox>>,
         faults' = 0 => faults = 0,
         ingest' = "unloaded" => ingest = "unloaded" /\ receiver' = receiver,
         ingest' # "unloaded" => ingest # "unloaded",
         missed \subseteq missed'
  PROVE  FInv'
  <1>1. UnloadedInv'
    BY DEF FInv, UnloadedInv
  <1>2. InboxInv' /\ BarInv'
    BY DEF FInv, InboxInv, BarInv
  <1>3. WindowInOrder'
    BY DEF FInv, WindowInOrder
  <1>4. NothingElseMissing'
    BY DEF FInv, NothingElseMissing, InWindow, OnItsWay, PushedOut
  <1>5. QED  BY <1>1, <1>2, <1>3, <1>4 DEF FInv

\* The load: the candles up to the one that is forming, or none.
LEMMA LoadKeeps ==
  ASSUME FInv, NEW n \in 0..MaxCandles, NEW k \in 0..Seeds(n), LoadHistory(n, k)
  PROVE  FInv'
  <1>1. /\ bar \in FirstBar..LastBar /\ bar \in Nat /\ bar >= 1
        /\ MaxCandles \in Nat \ {0} /\ HistoryLength \in Nat \ {0}
    BY FeedAssumption DEF FInv, FeedTypeOK
  <1>2. /\ n \in Nat /\ n <= MaxCandles /\ n <= bar
        /\ n = 0 \/ n = bar \/ n = MaxCandles
    BY <1>1 DEF LoadHistory
  <1>3. /\ ingest = "unloaded" /\ ingest' = "loaded"
        /\ window' = [i \in 1..n |-> [open |-> bar - n + i, final |-> i < n]]
        /\ atrs' = [i \in 1..k |-> bar - Seeds(n) + i]
        /\ missed' = IF n = 0 THEN FirstBar..(bar - 1) ELSE {}
        /\ UNCHANGED <<bar, socketVars>>
        /\ faults' \in 0..MaxFaults /\ (faults' = 0 => k = Seeds(n))
    <2>1. faults \in 0..MaxFaults /\ MaxFaults \in Nat
      BY FeedAssumption DEF FInv, FeedTypeOK
    <2>2. QED  BY <2>1 DEF LoadHistory
  <1>4. /\ window' \in Seq(Candle) /\ Len(window') = n
        /\ \A i \in 1..n : window'[i].open = bar - n + i
        /\ \A i \in 1..(n - 1) : window'[i] = [open |-> bar - n + i, final |-> TRUE]
    <2> DEFINE C(i) == [open |-> bar - n + i, final |-> i < n]
    <2>1. window' = [i \in 1..n |-> C(i)]
      BY <1>3, Zenon
    <2>2. ASSUME NEW i \in 1..n
          PROVE  C(i) \in Candle /\ C(i).open = bar - n + i
      BY <1>1, <1>2 DEF Candle
    <2>3. ASSUME NEW i \in 1..(n - 1)
          PROVE  i \in 1..n /\ C(i) = [open |-> bar - n + i, final |-> TRUE]
      <3>1. i \in 1..n /\ (i < n) = TRUE
        BY <1>2
      <3>2. QED  BY <3>1, Zenon
    <2> HIDE DEF C
    <2>4. /\ window' \in Seq(Candle) /\ Len(window') = n
          /\ \A i \in 1..n : window'[i] = C(i)
      BY <1>2, <2>1, <2>2
    <2>5. QED  BY <2>2, <2>3, <2>4, Zenon
  <1>5. /\ Seeds(n) \in Nat /\ Seeds(n) <= n /\ Seeds(n) <= HistoryLength
        /\ HasAtr(n) => Seeds(n) > 0
        /\ k \in Nat /\ k <= Seeds(n)
    BY <1>1, <1>2, FeedAssumption DEF Seeds, HasAtr
  <1>6. /\ atrs' \in Seq(Nat) /\ Len(atrs') = k
        /\ \A i \in 1..k : atrs'[i] = bar - Seeds(n) + i
    <2>1. \A i \in 1..k : bar - Seeds(n) + i \in Nat
      BY <1>1, <1>2, <1>5
    <2>2. atrs' = [i \in 1..k |-> bar - Seeds(n) + i]
      BY <1>3
    <2>3. QED  BY <1>5, <2>1, <2>2
  <1>7. FeedTypeOK'
    <2>1. window' \in Seq(Candle) /\ Len(window') <= MaxCandles
      BY <1>2, <1>4
    <2>2. atrs' \in Seq(Nat) /\ Len(atrs') <= HistoryLength
      BY <1>1, <1>5, <1>6
    <2>3. ingest' \in Stages /\ missed' \subseteq FirstBar..LastBar
      BY <1>1, <1>3, FeedAssumption DEF Stages
    <2>4. UNCHANGED <<bar, running, stream, receiver, inbox>>
      BY <1>3 DEF socketVars
    <2>5. QED  BY <1>3, <2>1, <2>2, <2>3, <2>4 DEF FInv, FeedTypeOK
  <1>8. UnloadedInv'
    BY <1>3 DEF UnloadedInv
  <1>9. InboxInv'
    BY <1>3 DEF FInv, UnloadedInv, InboxInv, socketVars
  <1>10. BarInv'
    <2>1. \A i \in 1..Len(atrs') : atrs'[i] <= bar
      BY <1>1, <1>2, <1>5, <1>6
    <2>2. \A i \in 1..Len(window') : window'[i].open <= bar
      BY <1>1, <1>2, <1>4
    <2>3. QED  BY <1>3, <2>1, <2>2 DEF BarInv
  <1>11. WindowInOrder'
    <2>1. \A i, j \in 1..Len(window') : i < j => window'[i].open < window'[j].open
      BY <1>1, <1>2, <1>4
    <2>2. \A i, j \in 1..Len(atrs') : i < j => atrs'[i] <= atrs'[j]
      BY <1>1, <1>2, <1>5, <1>6
    <2>3. ASSUME faults' = 0, HasAtr(Len(window'))
          PROVE  atrs' # <<>> /\ atrs'[Len(atrs')] = window'[Len(window')].open
      <3>1. n > 0 /\ k = Seeds(n) /\ k > 0 /\ HasAtr(n)
        <4>1. HasAtr(n) /\ k = Seeds(n)
          BY <1>3, <1>4, <2>3 DEF HasAtr
        <4>2. QED  BY <1>2, <1>5, <4>1, FeedAssumption DEF HasAtr
      <3>2. atrs'[k] = bar /\ window'[n].open = bar
        <4>1. k \in 1..k /\ n \in 1..n
          BY <1>2, <1>5, <3>1
        <4>2. atrs'[k] = bar - Seeds(n) + k /\ window'[n].open = bar - n + n
          BY <1>4, <1>6, <4>1
        <4>3. QED  BY <1>1, <1>2, <1>5, <3>1, <4>2
      <3>3. QED  BY <1>4, <1>5, <1>6, <3>1, <3>2
    <2>4. QED  BY <2>1, <2>2, <2>3 DEF WindowInOrder, HasAtr
  <1>12. NothingElseMissing'
    <2> SUFFICES ASSUME NEW c \in FirstBar..(bar - 1), n # 0
                 PROVE  InWindow(c)' \/ PushedOut(c)'
      BY <1>3 DEF NothingElseMissing
    <2>1. c \in Nat /\ c >= 1 /\ c < bar
      BY <1>1, FeedAssumption
    <2>2. CASE c > bar - n
      <3>1. c - bar + n \in 1..(n - 1) /\ bar - n + (c - bar + n) = c
        BY <1>1, <1>2, <2>1, <2>2
      <3>2. window'[c - bar + n] = [open |-> c, final |-> TRUE]
        BY <1>4, <3>1
      <3>3. c - bar + n \in 1..Len(window')
        BY <1>2, <1>4, <3>1
      <3>4. QED  BY <3>2, <3>3 DEF InWindow
    <2>3. CASE c <= bar - n
      BY <1>1, <1>2, <1>4, <2>1, <2>3 DEF PushedOut
    <2>4. QED  BY <1>1, <1>2, <2>1, <2>2, <2>3
  <1>13. QED  BY <1>7, <1>8, <1>9, <1>10, <1>11, <1>12 DEF FInv

\* A candle closes: it is on its way to whoever listens, or counted as missed.
LEMMA CloseBarKeeps ==
  ASSUME FInv, CloseBar
  PROVE  FInv'
  <1>1. /\ bar \in Nat /\ bar \in FirstBar..LastBar /\ bar + 1 \in FirstBar..LastBar
        /\ bar' = bar + 1 /\ bar # 0
        /\ \A r \in Receivers : inbox[r] = 0
        /\ inbox' = [r \in Receivers |-> IF r \in Listening THEN bar ELSE 0]
        /\ UNCHANGED <<window, atrs, running, stream, receiver, ingest, faults>>
    BY FeedAssumption DEF FInv, FeedTypeOK, CloseBar
  <1>2. missed' = IF ingest # "unloaded" /\ Listening = {} THEN missed \cup {bar} ELSE missed
    BY DEF CloseBar
  <1>3. FeedTypeOK'
    <2>1. inbox' \in [Receivers -> {0} \cup (FirstBar..LastBar)]
      BY <1>1
    <2>2. missed' \subseteq FirstBar..LastBar
      BY <1>1, <1>2 DEF FInv, FeedTypeOK
    <2>3. QED  BY <1>1, <2>1, <2>2 DEF FInv, FeedTypeOK
  <1>4. UnloadedInv'
    BY <1>1 DEF FInv, UnloadedInv, Listening
  <1>5. \A i \in 1..Len(window) : window[i].open < bar + 1 /\ window[i].open <= bar + 1
    <2>1. \A x \in Candle : x.open \in Nat
      BY DEF Candle
    <2>2. \A i \in 1..Len(window) : window[i].open \in Nat
      BY <2>1 DEF FInv, FeedTypeOK
    <2>3. \A i \in 1..Len(window) : window[i].open <= bar
      BY DEF FInv, BarInv
    <2>4. QED  BY <1>1, <2>2, <2>3
  <1>10. \A i \in 1..Len(atrs) : atrs[i] < bar + 1 /\ atrs[i] <= bar + 1
    <2>1. \A i \in 1..Len(atrs) : atrs[i] \in Nat /\ atrs[i] <= bar
      BY DEF FInv, FeedTypeOK, BarInv
    <2>2. QED  BY <1>1, <2>1
  <1>6. BarInv' /\ InboxInv'
    BY <1>1, <1>5, <1>10 DEF FInv, BarInv, InboxInv
  <1>7. WindowInOrder'
    BY <1>1 DEF FInv, WindowInOrder
  <1>8. NothingElseMissing'
    <2> SUFFICES ASSUME ingest # "unloaded", NEW c \in FirstBar..bar
                 PROVE  (InWindow(c) \/ OnItsWay(c) \/ PushedOut(c) \/ c \in missed)'
      BY <1>1 DEF NothingElseMissing
    <2>1. CASE c = bar
      <3>1. CASE Listening = {}
        BY <1>2, <2>1, <3>1
      <3>2. CASE Listening # {}
        BY <1>1, <2>1, <3>2 DEF OnItsWay, Listening
      <3>3. QED  BY <3>1, <3>2
    <2>2. CASE c # bar
      <3>1. c \in FirstBar..(bar - 1) /\ c # 0
        BY <1>1, <2>2, FeedAssumption
      <3>2. InWindow(c) \/ PushedOut(c) \/ c \in missed
        BY <1>1, <3>1 DEF FInv, NothingElseMissing, OnItsWay
      <3>3. QED  BY <1>1, <1>2, <3>2 DEF InWindow, PushedOut
    <2>3. QED  BY <2>1, <2>2
  <1>9. QED  BY <1>3, <1>4, <1>6, <1>7, <1>8 DEF FInv

\* No step of the feed or of the sentiment loop breaks it.
LEMMA StepFInv == FInv /\ [Next]_vars => FInv'
  <1> SUFFICES ASSUME FInv, [Next]_vars  PROVE FInv'
    OBVIOUS
  <1>1. CASE Load
    BY <1>1, LoadKeeps DEF Load
  <1>2. CASE Feed
    <2>1. ASSUME NEW ok \in BOOLEAN, StartManager(ok)  PROVE FInv'
      <3>1. FeedTypeOK'
        BY <2>1 DEF StartManager, FInv, FeedTypeOK, Stages
      <3>2. QED  BY <2>1, <3>1, ElsewhereKeepsFeed DEF StartManager
    <2>2. CASE Subscribe
      <3>1. FeedTypeOK'
        BY <2>2 DEF Subscribe, Register, FInv, FeedTypeOK, Stages
      <3>2. QED  BY <2>2, <3>1, ElsewhereKeepsFeed DEF Subscribe
    <2>3. CASE Refuse
      <3>1. FeedTypeOK'
        BY <2>3 DEF Refuse, FInv, FeedTypeOK, Stages, socketVars
      <3>2. QED  BY <2>3, <3>1, ElsewhereKeepsFeed DEF Refuse, socketVars
    <2>4. ASSUME NEW r \in Receivers, Drop(r) \/ Reconnect(r) \/ Die(r)  PROVE FInv'
      <3>1. FeedTypeOK'
        <4>1. faults' \in 0..MaxFaults
          BY <2>4, FeedAssumption DEF Drop, Reconnect, Die, FInv, FeedTypeOK
        <4>2. receiver' \in [Receivers -> {"unused", "live", "away", "dead"}]
          BY <2>4 DEF Drop, Reconnect, Die, FInv, FeedTypeOK
        <4>3. QED  BY <2>4, <4>1, <4>2 DEF Drop, Reconnect, Die, FInv, FeedTypeOK
      <3>2. ingest # "unloaded"
        BY <2>4 DEF Drop, Reconnect, Die, FInv, UnloadedInv
      <3>3. /\ UNCHANGED <<bar, window, atrs, inbox, ingest, missed>>
            /\ faults' = 0 => faults = 0
        <4>1. faults \in Nat
          BY FeedAssumption DEF FInv, FeedTypeOK
        <4>2. QED  BY <2>4, <4>1 DEF Drop, Reconnect, Die
      <3>4. QED  BY <3>1, <3>2, <3>3, ElsewhereKeepsFeed
    <2>5. QED  BY <1>2, <2>1, <2>2, <2>3, <2>4, HandleKeeps, CloseBarKeeps DEF Feed, FeedStep
  <1>3. CASE Ingest
    <2>1. FeedTypeOK'
      BY <1>3 DEF Ingest, BeginIngest, FInv, FeedTypeOK, Stages, socketVars
    <2>2. QED  BY <1>3, <2>1, ElsewhereKeepsFeed DEF Ingest, BeginIngest, socketVars
  <1>4. CASE UNCHANGED feedVars
    <2>1. FeedTypeOK'
      BY <1>4 DEF FInv, FeedTypeOK, feedVars, socketVars
    <2>2. QED  BY <1>4, <2>1, ElsewhereKeepsFeed DEF feedVars, socketVars
  <1>5. QED
    BY <1>1, <1>2, <1>3, <1>4 DEF Next, WarmUp, Cycle, CreateLoops, Sentiment, Time, vars

\* The window is in order and holds no candle twice, whatever reconnects,
\* resubscribes, raises or hands a close over twice; the ATR history does not go
\* back, and ends where the window ends unless something was lost or swallowed
\* (market_data_cache.py).
THEOREM WindowInOrderHolds == Spec => []WindowInOrder
  <1>1. FInv => WindowInOrder
    BY DEF FInv
  <1>2. QED  BY InitFInv, StepFInv, <1>1, PTL DEF Spec

\* A closed candle is in the window until newer ones push it out, is on its way,
\* or its close was sent to nobody or not read.
THEOREM NothingElseMissingHolds == Spec => []NothingElseMissing
  <1>1. FInv => NothingElseMissing
    BY DEF FInv
  <1>2. QED  BY InitFInv, StepFInv, <1>1, PTL DEF Spec

-----------------------------------------------------------------------------
(* Types.                                                                  *)

\* The types of the initial state.
LEMMA InitTypes == Init => TypeOK
  <1> SUFFICES ASSUME Init  PROVE TypeOK
    OBVIOUS
  <1>1. BreakerTypes
    BY InitBInv DEF BInv
  <1>2. SentimentTypeOK
    BY <1>1, SourcesAssumption, FS_EmptySet
    DEF Init, SentimentInit, SentimentTypeOK, BreakerTypes, Phases, Longest
  <1>3. QED  BY <1>2, InitFInv DEF Init, FInv, TypeOK

\* Each step of the sentiment loop, its sources and the clock.
LEMMA SentimentTypes ==
  ASSUME SentimentTypeOK, BreakerTypes', BeginCycle \/ SentimentStep \/ Tick
  PROVE  SentimentTypeOK'
  <1>1. Longest \in Nat /\ 0 \in 0..Longest
    BY SourcesAssumption DEF Longest
  <1>2. CASE BeginCycle
    BY <1>2 DEF BeginCycle, SentimentTypeOK, BreakerTypes, Phases, cacheVars
  <1>3. ASSUME NEW s \in Sources, Answers(s) \/ Fails(s)  PROVE SentimentTypeOK'
    <2>1. elapsed' \in [Sources -> 0..Longest] /\ quiet' \in [Sources -> 0..Longest]
      BY <1>1, <1>3 DEF Answers, Fails, SentimentTypeOK
    <2>2. fresh' \subseteq Sources
      BY <1>3 DEF Answers, Fails, SentimentTypeOK
    <2>3. UNCHANGED <<phase, known, snapshot, degraded, summary>>
      BY <1>3 DEF Answers, Fails, cacheVars
    <2>4. QED  BY <2>1, <2>2, <2>3 DEF SentimentTypeOK, BreakerTypes
  <1>4. CASE Collect
    BY <1>4 DEF Collect, SentimentTypeOK, BreakerTypes, Phases
  <1>5. ASSUME NEW done \in BOOLEAN, Synthesize(done)  PROVE SentimentTypeOK'
    <2>1. summary' \subseteq SUBSET Sources /\ Cardinality(summary') <= 1
      <3>1. Cardinality({degraded}) = 1 /\ degraded \subseteq Sources
        BY FS_Singleton DEF SentimentTypeOK
      <3>2. summary' = {degraded} \/ summary' = summary
        BY <1>5 DEF Synthesize
      <3>3. CASE summary' = {degraded}
        <4>1. Cardinality(summary') = 1 /\ summary' \subseteq SUBSET Sources
          BY <3>1, <3>3
        <4>2. QED  BY <4>1
      <3>4. CASE summary' = summary
        BY <3>4 DEF SentimentTypeOK
      <3>5. QED  BY <3>2, <3>3, <3>4
    <2>2. QED  BY <1>5, <2>1 DEF Synthesize, SentimentTypeOK, BreakerTypes, Phases
  <1>6. CASE Tick
    <2>1. \A t \in 0..Longest : Later(t) \in 0..Longest
      BY <1>1 DEF Later
    <2>2. QED  BY <1>6, <2>1 DEF Tick, SentimentTypeOK, BreakerTypes, Phases, cacheVars
  <1>7. QED  BY <1>2, <1>3, <1>4, <1>5, <1>6 DEF SentimentStep

\* The types of the feeds.
THEOREM FeedsTypeCorrect == Spec => []TypeOK
  <1>1. BInv /\ FInv /\ FInv' /\ BInv' /\ TypeOK /\ [Next]_vars => TypeOK'
    <2> SUFFICES ASSUME FInv', BInv', TypeOK, [Next]_vars  PROVE TypeOK'
      OBVIOUS
    <2>1. started' \in BOOLEAN
      BY DEF Next, TypeOK, Load, WarmUp, Cycle, CreateLoops, Ingest, Sentiment, Feed, Time, vars
    <2>2. CASE BeginCycle \/ SentimentStep \/ Tick
      BY <2>1, <2>2, SentimentTypes DEF BInv, FInv, TypeOK
    <2>3. CASE CreateLoops
      BY <2>1, <2>3 DEF CreateLoops, FInv, TypeOK, SentimentTypeOK, Phases, cacheVars
    <2>4. CASE UNCHANGED sourceVars
      BY <2>1, <2>4 DEF sourceVars, cacheVars, FInv, TypeOK, SentimentTypeOK
    <2>5. QED
      BY <2>2, <2>3, <2>4 DEF Next, Load, WarmUp, Cycle, Ingest, Sentiment, Feed, Time, vars
  <1>2. Spec => []BInv
    BY InitBInv, StepBInv, PTL DEF Spec
  <1>3. Spec => []FInv
    BY InitFInv, StepFInv, PTL DEF Spec
  <1>4. QED  BY InitTypes, <1>1, <1>2, <1>3, PTL DEF Spec

-----------------------------------------------------------------------------
(* The back-off.  BackOff is a recursive function: that there is one with  *)
(* this equation takes an induction, for which the steps up to n do.       *)

\* Pairs of naturals of which the first is smaller.
Below == {ss \in Nat \X Nat : ss[1] < ss[2]}

\* A set of naturals that is not empty has a least element.
LEMMA Least ==
  ASSUME NEW T \in SUBSET Nat, T # {}
  PROVE  \E n \in T : \A m \in T : n <= m
  <1>1. IsWellFoundedOn(Below, Nat)
    BY NatLessThanWellFounded, Zenon DEF OpToRel, Below
  <1>2. PICK n \in T : \A m \in T : ~ (<<m, n>> \in Below)
    BY <1>1, WFMin
  <1>3. ASSUME NEW m \in T  PROVE n <= m
    <2>1. m < n => <<m, n>> \in Below
      BY DEF Below
    <2>2. ~ (m < n)
      BY <1>2, <2>1, Zenon
    <2>3. QED  BY <2>2
  <1>4. QED  BY <1>3

\* Induction over the naturals, for a set.
LEMMA Induction ==
  ASSUME NEW T, 0 \in T, \A n \in Nat : n \in T => n + 1 \in T
  PROVE  \A n \in Nat : n \in T
  <1> SUFFICES ASSUME NEW k \in Nat, k \notin T  PROVE FALSE
    OBVIOUS
  <1> DEFINE Out == Nat \ T
  <1>1. Out \in SUBSET Nat /\ k \in Out
    OBVIOUS
  <1> HIDE DEF Out
  <1>2. PICK n \in Out : \A m \in Out : n <= m
    BY <1>1, Least
  <1>3. n # 0 /\ n - 1 \in Nat
    BY DEF Out
  <1>4. n - 1 \in T
    BY <1>2, <1>3 DEF Out
  <1>5. (n - 1) + 1 \in T
    BY <1>3, <1>4
  <1>6. QED  BY <1>3, <1>5 DEF Out

\* The first n doublings of the wait.
Doublings(w, n) ==
  /\ w \in [0..n -> Nat]
  /\ w[0] = Cooldown
  /\ \A i \in 1..n : w[i] = Smaller(2 * w[i - 1], MaxCooldown)

\* There are as many as one likes.
LEMMA DoublingsExist == \A n \in Nat : \E w : Doublings(w, n)
  <1> DEFINE T == {n \in Nat : \E w \in [0..n -> Nat] : Doublings(w, n)}
  <1>1. 0 \in T
    <2> DEFINE v == [i \in 0..0 |-> Cooldown]
    <2>1. v \in [0..0 -> Nat]
      BY SourcesAssumption
    <2>2. Doublings(v, 0)
      BY <2>1 DEF Doublings
    <2>3. QED  BY <2>1, <2>2
  <1>2. ASSUME NEW n \in Nat, n \in T  PROVE n + 1 \in T
    <2>1. PICK w \in [0..n -> Nat] : Doublings(w, n)
      BY <1>2
    <2> DEFINE v == [i \in 0..(n + 1) |->
                       IF i <= n THEN w[i] ELSE Smaller(2 * w[n], MaxCooldown)]
    <2>2. w[n] \in Nat
      BY <2>1
    <2>3. Smaller(2 * w[n], MaxCooldown) \in Nat
      BY <2>2, SourcesAssumption DEF Smaller
    <2>4. v \in [0..(n + 1) -> Nat]
      BY <2>1, <2>3
    <2>5. v[0] = Cooldown
      BY <2>1 DEF Doublings
    <2>6. ASSUME NEW i \in 1..(n + 1)  PROVE v[i] = Smaller(2 * v[i - 1], MaxCooldown)
      <3>1. CASE i <= n
        BY <3>1, <2>1 DEF Doublings
      <3>2. CASE i = n + 1
        <4>1. v[n + 1] = Smaller(2 * w[n], MaxCooldown) /\ v[n] = w[n]
          OBVIOUS
        <4>2. i - 1 = n
          BY <3>2
        <4> HIDE DEF v
        <4>3. QED  BY <3>2, <4>1, <4>2
      <3>3. QED  BY <3>1, <3>2
    <2> HIDE DEF v
    <2>7. Doublings(v, n + 1)
      BY <2>4, <2>5, <2>6 DEF Doublings
    <2>8. QED  BY <2>4, <2>7
  <1> HIDE DEF T
  <1>3. \A n \in Nat : n \in T
    BY <1>1, <1>2, Induction
  <1>4. QED  BY <1>3 DEF T

\* They agree as far as they go.
LEMMA DoublingsAgree ==
  ASSUME NEW m \in Nat, NEW n \in Nat, m <= n, NEW v, NEW w, Doublings(v, m), Doublings(w, n)
  PROVE  \A i \in 0..m : v[i] = w[i]
  <1> DEFINE T == {i \in Nat : i <= m => v[i] = w[i]}
  <1>1. 0 \in T
    BY DEF Doublings
  <1>2. ASSUME NEW i \in Nat, i \in T  PROVE i + 1 \in T
    <2>1. CASE i + 1 <= m
      <3>1. v[i + 1] = Smaller(2 * v[i], MaxCooldown)
        BY <2>1 DEF Doublings
      <3>2. w[i + 1] = Smaller(2 * w[i], MaxCooldown)
        BY <2>1 DEF Doublings
      <3>3. QED  BY <1>2, <2>1, <3>1, <3>2
    <2>2. CASE ~ (i + 1 <= m)
      BY <2>2
    <2>3. QED  BY <2>1, <2>2
  <1> HIDE DEF T
  <1>3. \A i \in Nat : i \in T
    BY <1>1, <1>2, Induction
  <1>4. QED  BY <1>3 DEF T

\* The wait starts as cooldown_s and doubles up to max_cooldown_s.
LEMMA BackOffDoubles ==
  /\ BackOff[0] = Cooldown
  /\ \A n \in Nat : BackOff[n + 1] = Smaller(2 * BackOff[n], MaxCooldown)
  <1> DEFINE W(n) == CHOOSE w : Doublings(w, n)
             h == [n \in Nat |-> W(n)[n]]
             Body(f) == [n \in Nat |-> IF n = 0 THEN Cooldown
                                       ELSE Smaller(2 * f[n - 1], MaxCooldown)]
  <1>1. \A n \in Nat : Doublings(W(n), n)
    BY DoublingsExist
  <1>2. \A n \in Nat : h[n] = W(n)[n]
    OBVIOUS
  <1> HIDE DEF W
  <1>3. h[0] = Cooldown
    BY <1>1, <1>2 DEF Doublings
  <1>4. ASSUME NEW n \in Nat  PROVE h[n + 1] = Smaller(2 * h[n], MaxCooldown)
    <2>1. Doublings(W(n), n) /\ Doublings(W(n + 1), n + 1)
      BY <1>1
    <2>2. W(n)[n] = W(n + 1)[n]
      BY <2>1, DoublingsAgree
    <2>3. W(n + 1)[n + 1] = Smaller(2 * W(n + 1)[n], MaxCooldown)
      BY <2>1 DEF Doublings
    <2>4. QED  BY <2>2, <2>3, <1>2
  <1>5. h = Body(h)
    <2>1. ASSUME NEW n \in Nat
          PROVE  h[n] = IF n = 0 THEN Cooldown ELSE Smaller(2 * h[n - 1], MaxCooldown)
      <3>1. CASE n = 0
        BY <3>1, <1>3
      <3>2. CASE n # 0
        <4>1. n - 1 \in Nat /\ (n - 1) + 1 = n
          BY <3>2
        <4>2. h[(n - 1) + 1] = Smaller(2 * h[n - 1], MaxCooldown)
          BY <4>1, <1>4
        <4>3. QED  BY <3>2, <4>1, <4>2
      <3>3. QED  BY <3>1, <3>2
    <2>2. h = [n \in Nat |-> h[n]]
      OBVIOUS
    <2> HIDE DEF h
    <2>3. QED  BY <2>1, <2>2
  <1> HIDE DEF h
  <1>6. BackOff = Body(BackOff)
    BY <1>5 DEF BackOff
  <1>7. \A n \in Nat : BackOff[n] = IF n = 0 THEN Cooldown
                                    ELSE Smaller(2 * BackOff[n - 1], MaxCooldown)
    BY <1>6
  <1>8. BackOff[0] = Cooldown
    BY <1>7
  <1>9. \A n \in Nat : BackOff[n + 1] = Smaller(2 * BackOff[n], MaxCooldown)
    BY <1>7
  <1>10. QED  BY <1>8, <1>9

\* A breaker waits what its failed probes made of cooldown_s; while it is open
\* its clock and the time since the last failure are the same; a probe is half
\* open only while it is under way, and that is within a cycle.
PaceInv ==
  /\ phase # "fetching" => flight = {}
  /\ \A s \in Sources :
       /\ breaker[s].cooldown = BackOff[breaker[s].reopened]
       /\ breaker[s].state = "HALF_OPEN" => s \in flight
       /\ breaker[s].state = "OPEN" => quiet[s] = elapsed[s]

\* All breakers are closed.
LEMMA InitPace == Init => PaceInv
  BY BackOffDoubles DEF Init, SentimentInit, PaceInv, NewBreaker

\* A cycle makes half open what it asks for a probe.
LEMMA BeginPace ==
  ASSUME BInv, PaceInv, BeginCycle  PROVE PaceInv'
  <1>1. /\ phase' = "fetching" /\ flight = {}
        /\ flight' = {s \in Sources : ShouldAllow(s)}
        /\ breaker' = [s \in Sources |-> Asked(s)]
        /\ elapsed' = elapsed /\ quiet' = quiet
    BY DEF BeginCycle, PaceInv
  <1>2. ASSUME NEW s \in Sources
        PROVE  /\ Asked(s).cooldown = BackOff[Asked(s).reopened]
               /\ Asked(s).state = "HALF_OPEN" => ShouldAllow(s)
               /\ Asked(s).state = "OPEN" => quiet[s] = elapsed[s]
    <2>1. /\ breaker[s] \in Breaker
          /\ breaker[s].cooldown = BackOff[breaker[s].reopened]
          /\ breaker[s].state # "HALF_OPEN"
          /\ breaker[s].state = "OPEN" => quiet[s] = elapsed[s]
      BY <1>1 DEF BInv, BreakerTypes, PaceInv
    <2>2. CASE ShouldAllow(s) /\ Cooled(s)
      <3>1. /\ Asked(s).state = "HALF_OPEN" /\ Asked(s).cooldown = breaker[s].cooldown
            /\ Asked(s).reopened = breaker[s].reopened
        BY <2>1, <2>2 DEF Asked, Breaker
      <3>2. QED  BY <2>1, <2>2, <3>1
    <2>3. CASE ~(ShouldAllow(s) /\ Cooled(s))
      BY <2>1, <2>3 DEF Asked
    <2>4. QED  BY <2>2, <2>3
  <1>3. QED  BY <1>1, <1>2 DEF PaceInv

\* A failure restarts the clock when it opens the breaker, and only a failed
\* probe makes the next wait longer.
LEMMA FailsPace ==
  ASSUME TypeOK, BInv, PaceInv, NEW s \in Sources, Fails(s)  PROVE PaceInv'
  <1> DEFINE b == breaker[s]
             a == Failed(b)
  <1>1. /\ b \in Breaker /\ b.state # "OPEN" /\ b.cooldown = BackOff[b.reopened]
        /\ breaker \in [Sources -> Breaker]
        /\ elapsed \in [Sources -> 0..Longest] /\ quiet \in [Sources -> 0..Longest]
    BY DEF Fails, BInv, BreakerTypes, BreakerFollowsStreak, PaceInv, TypeOK, SentimentTypeOK
  <1>2. /\ breaker' = [breaker EXCEPT ![s] = a] /\ flight' = flight \ {s} /\ phase' = phase
        /\ elapsed' = IF Opens(b) THEN [elapsed EXCEPT ![s] = 0] ELSE elapsed
        /\ quiet' = [quiet EXCEPT ![s] = 0]
    BY DEF Fails
  <1>3. a.cooldown = BackOff[a.reopened]
    <2>1. CASE b.state = "HALF_OPEN"
      <3>1. a.cooldown = Smaller(2 * b.cooldown, MaxCooldown) /\ a.reopened = b.reopened + 1
        BY <2>1 DEF Failed
      <3>2. b.reopened \in Nat
        BY <1>1 DEF Breaker
      <3>3. QED  BY <1>1, <3>1, <3>2, BackOffDoubles
    <2>2. CASE b.state # "HALF_OPEN"
      BY <1>1, <2>2 DEF Failed
    <2>3. QED  BY <2>1, <2>2
  <1>4. a.state # "HALF_OPEN" /\ (a.state = "OPEN" => Opens(b))
    BY <1>1 DEF Failed, Opens, Breaker
  <1> HIDE DEF a, b
  <1>5. breaker'[s] = a /\ \A t \in Sources \ {s} : breaker'[t] = breaker[t]
    BY <1>1, <1>2
  <1>6. \A t \in Sources \ {s} : elapsed'[t] = elapsed[t] /\ quiet'[t] = quiet[t]
    BY <1>1, <1>2
  <1>7. a.state = "OPEN" => quiet'[s] = elapsed'[s]
    BY <1>1, <1>2, <1>4
  <1>8. QED  BY <1>2, <1>3, <1>4, <1>5, <1>6, <1>7 DEF PaceInv

\* An answer closes the breaker.
LEMMA AnswersPace ==
  ASSUME TypeOK, PaceInv, NEW s \in Sources, Answers(s)  PROVE PaceInv'
  <1>1. /\ breaker' = [breaker EXCEPT ![s] = NewBreaker] /\ flight' = flight \ {s}
        /\ UNCHANGED <<phase, elapsed>> /\ quiet' = [quiet EXCEPT ![s] = 0]
    BY DEF Answers, Recovered
  <1>2. breaker \in [Sources -> Breaker] /\ quiet \in [Sources -> 0..Longest]
    BY DEF TypeOK, SentimentTypeOK
  <1>3. /\ NewBreaker.cooldown = BackOff[NewBreaker.reopened]
        /\ NewBreaker.state = "CLOSED"
    BY BackOffDoubles DEF NewBreaker
  <1>4. QED  BY <1>1, <1>2, <1>3 DEF PaceInv

\* Both clocks of an open breaker go on together.
LEMMA TickPace ==
  ASSUME BInv, PaceInv, Tick  PROVE PaceInv'
  <1>1. UNCHANGED <<breaker, flight>> /\ phase' = IF phase = "sleeping" THEN "due" ELSE phase
    BY DEF Tick
  <1>2. ASSUME NEW s \in Sources, breaker[s].state = "OPEN"  PROVE quiet'[s] = elapsed'[s]
    <2>1. quiet[s] = elapsed[s] /\ Follows(breaker[s], streak[s]) /\ streak[s] \in Nat
      BY <1>2 DEF PaceInv, BInv, BreakerTypes, BreakerFollowsStreak
    <2>2. streak[s] >= FailureThreshold
      BY <1>2, <2>1, SourcesAssumption DEF Follows
    <2>3. elapsed'[s] = Later(elapsed[s])
      BY <1>2 DEF Tick
    <2>4. quiet'[s] = Later(quiet[s])
      BY <2>2 DEF Tick
    <2>5. QED  BY <2>1, <2>3, <2>4
  <1>3. QED  BY <1>1, <1>2 DEF PaceInv

\* No step loses the pace.
LEMMA StepPace == TypeOK /\ BInv /\ PaceInv /\ [Next]_vars => PaceInv'
  <1> SUFFICES ASSUME TypeOK, BInv, PaceInv, [Next]_vars  PROVE PaceInv'
    OBVIOUS
  <1>1. ASSUME UNCHANGED <<breaker, elapsed, quiet, flight>>,
               phase' = phase \/ flight = {}
        PROVE  PaceInv'
    BY <1>1 DEF PaceInv
  <1>2. CASE WarmUp \/ Cycle
    BY <1>2, BeginPace DEF WarmUp, Cycle
  <1>3. CASE Sentiment
    <2>1. ASSUME NEW s \in Sources, Answers(s) \/ Fails(s)  PROVE PaceInv'
      BY <2>1, AnswersPace, FailsPace
    <2>2. CASE Collect
      BY <2>2, <1>1 DEF Collect
    <2>3. CASE \E done \in BOOLEAN : Synthesize(done)
      BY <2>3, <1>1 DEF Synthesize, PaceInv
    <2>4. QED  BY <1>3, <2>1, <2>2, <2>3 DEF Sentiment, SentimentStep
  <1>4. CASE CreateLoops
    BY <1>4, <1>1 DEF CreateLoops, PaceInv
  <1>5. CASE Time
    BY <1>5, TickPace DEF Time
  <1>6. CASE UNCHANGED sourceVars
    BY <1>6, <1>1 DEF sourceVars
  <1>7. QED
    BY <1>2, <1>3, <1>4, <1>5, <1>6 DEF Next, Load, Ingest, Feed, vars

\* What a cycle asks of a source past its threshold has waited its back-off.
LEMMA AskedInTime ==
  ASSUME BInv, PaceInv, BeginCycle, NEW s \in flight' \ flight, streak[s] >= FailureThreshold
  PROVE  quiet[s] >= BackOff[streak[s] - FailureThreshold]
  <1>1. s \in Sources /\ ShouldAllow(s) /\ flight = {}
    BY DEF BeginCycle, PaceInv
  <1>2. /\ Follows(breaker[s], streak[s]) /\ breaker[s] \in Breaker /\ streak[s] \in Nat
        /\ breaker[s].state # "HALF_OPEN"
        /\ breaker[s].cooldown = BackOff[breaker[s].reopened]
        /\ breaker[s].state = "OPEN" => quiet[s] = elapsed[s]
    BY <1>1 DEF BInv, BreakerTypes, BreakerFollowsStreak, PaceInv
  <1>3. /\ breaker[s].state = "OPEN"
        /\ breaker[s].reopened = streak[s] - FailureThreshold
    BY <1>2, SourcesAssumption DEF Follows, Breaker
  <1>4. elapsed[s] >= breaker[s].cooldown
    BY <1>1, <1>3 DEF ShouldAllow, Cooled
  <1>5. QED  BY <1>2, <1>3, <1>4

\* A source that failed failure_threshold times in a row is left alone for its
\* back-off, which doubles with every failed probe up to max_cooldown_s, before
\* it is asked again (circuit_breaker.py).
THEOREM ProbesSpacedHolds == Spec => ProbesSpaced
  <1> DEFINE Spaced == \A s \in flight' \ flight :
                         streak[s] >= FailureThreshold =>
                           quiet[s] >= BackOff[streak[s] - FailureThreshold]
  <1>1. BInv /\ PaceInv /\ [Next]_vars => [Spaced]_sourceVars
    <2> SUFFICES ASSUME BInv, PaceInv, [Next]_vars  PROVE Spaced \/ UNCHANGED sourceVars
      OBVIOUS
    <2>1. CASE WarmUp \/ Cycle
      BY <2>1, AskedInTime DEF WarmUp, Cycle
    <2>2. CASE CreateLoops \/ Sentiment \/ Time
      <3>1. flight' \subseteq flight
        BY <2>2
        DEF CreateLoops, Sentiment, SentimentStep, Time, Answers, Fails, Collect, Synthesize, Tick
      <3>2. QED  BY <3>1
    <2>3. CASE UNCHANGED sourceVars
      BY <2>3
    <2>4. QED  BY <2>1, <2>2, <2>3 DEF Next, Load, Ingest, Feed, vars
  <1>2. Spec => []BInv
    BY InitBInv, StepBInv, PTL DEF Spec
  <1>3. Spec => []TypeOK
    BY FeedsTypeCorrect
  <1>4. Spec => []PaceInv
    BY InitPace, StepPace, <1>2, <1>3, PTL DEF Spec
  <1>5. [][Spaced]_sourceVars => ProbesSpaced
    BY DEF ProbesSpaced
  <1>6. QED  BY <1>1, <1>2, <1>4, <1>5, PTL DEF Spec
=============================================================================
