------------------------------ MODULE MarketFeed ------------------------------
(***************************************************************************)
(* One symbol's candles on their way from the exchange into the            *)
(* market-data cache: the load over REST and the window                    *)
(* (providers/market_data_cache.py), the ingest loop (loops/ingest.py),    *)
(* the subscription of the live stream manager                             *)
(* (providers/live_stream_manager.py), and the websocket client with its   *)
(* registry of receive loops (api/binance/websocket/).                     *)
(*                                                                         *)
(* A candle is its number.  Prices of open candles and tickers only set    *)
(* the current price and are left out.  The socket of a receive loop is    *)
(* the library's: it may lose its connection, get it back, or give up, and *)
(* what it misses is not sent again.                                       *)
(***************************************************************************)
EXTENDS Naturals, Sequences

CONSTANTS
  FirstBar,       \* the candle forming at start-up; a symbol's first is 1
  LastBar,        \* bound: the last candle that closes
  MaxCandles,     \* length of the window
  HistoryLength,  \* ATR_HISTORY_LENGTH
  AtrPeriod,      \* the period of calculate_atr
  MaxSubscriptions, \* bound on subscriptions of the stream
  MaxFaults       \* bound on lost connections and on calculations and handlers that raise

ASSUME FeedAssumption ==
  /\ FirstBar \in Nat \ {0} /\ LastBar \in Nat /\ FirstBar <= LastBar
  /\ MaxCandles \in Nat \ {0} /\ HistoryLength \in Nat \ {0}
  /\ AtrPeriod \in Nat /\ MaxSubscriptions \in Nat \ {0} /\ MaxFaults \in Nat

Receivers == 1..MaxSubscriptions

VARIABLES
  bar,        \* the candle that is forming (external)
  window,     \* candles: the number of each, and whether it is its final form
  atrs,       \* atr_history: the candle each entry was computed at
  running,    \* StreamManager._is_running
  stream,     \* the receive loop in StreamManager._streams; 0 when none
  receiver,   \* the state of each receive loop ever created, with its socket
  inbox,      \* the closed candle it has been sent and not yet handled; 0 when none
  ingest,     \* where the ingest loop's coroutine stands
  faults,      \* connections lost, and exceptions swallowed, so far
  missed      \* history: candles whose close was sent to nobody, or not read

socketVars == <<running, stream, receiver, inbox>>
feedVars   == <<bar, window, atrs, socketVars, ingest, faults, missed>>

Candle  == [open : Nat, final : BOOLEAN]
Stages  == {"unloaded", "loaded", "starting", "subscribing", "watching", "backoff"}

FeedTypeOK ==
  /\ bar \in FirstBar..LastBar
  /\ window \in Seq(Candle) /\ Len(window) <= MaxCandles
  /\ atrs \in Seq(Nat) /\ Len(atrs) <= HistoryLength
  /\ running \in BOOLEAN
  /\ stream \in {0} \cup Receivers
  /\ receiver \in [Receivers -> {"unused", "live", "away", "dead"}]
  /\ inbox \in [Receivers -> {0} \cup (FirstBar..LastBar)]
  /\ ingest \in Stages
  /\ faults \in 0..MaxFaults
  /\ missed \subseteq FirstBar..LastBar

FeedInit ==
  /\ bar = FirstBar
  /\ window = <<>> /\ atrs = <<>>
  /\ running = FALSE /\ stream = 0
  /\ receiver = [r \in Receivers |-> "unused"]
  /\ inbox = [r \in Receivers |-> 0]
  /\ ingest = "unloaded"
  /\ faults = 0 /\ missed = {}

\* Mutant: the deque has no length.
MutNewestKeepsAll(seq, n) == seq

\* the last n elements of a sequence: what a deque of length n keeps
Newest(seq, n) == SubSeq(seq, IF Len(seq) > n THEN Len(seq) - n + 1 ELSE 1, Len(seq))

-----------------------------------------------------------------------------
(* The cache.                                                              *)

\* calculate_atr has an answer for more candles than its period.
HasAtr(n) == n > AtrPeriod

\* _seed_atr_history takes the ATR of each of the last prefixes of the candles,
\* or of all of them only when they are few, where there is one.
Seeds(n) ==
  IF ~HasAtr(n) THEN 0
  ELSE IF n < HistoryLength THEN 1
  ELSE IF n - AtrPeriod < HistoryLength THEN n - AtrPeriod ELSE HistoryLength

\* MarketDataCache.initialize: the exchange returns the newest candles there
\* are, the last of them still forming; none when the call fails.  The
\* calculation may raise after k seeds: the candles stay.
LoadHistory(n, k) ==
  /\ ingest = "unloaded" /\ ingest' = "loaded"
  /\ n \in {0, IF bar < MaxCandles THEN bar ELSE MaxCandles}
  /\ window' = [i \in 1..n |-> [open |-> bar - n + i, final |-> i < n]]
  /\ k <= Seeds(n)
  /\ atrs' = [i \in 1..k |-> bar - Seeds(n) + i]
  /\ IF k = Seeds(n) THEN faults' = faults
                     ELSE faults < MaxFaults /\ faults' = faults + 1
  /\ missed' = IF n = 0 THEN FirstBar..(bar - 1) ELSE {}
  /\ UNCHANGED <<bar, socketVars>>

\* Mutant: the closed candle is always appended.
MutWithCandleAppends(c) ==
  Newest(Append(window, [open |-> c, final |-> TRUE]), MaxCandles)
\* Mutant: a candle that is already there is left as it is.
MutWithCandleKeeps(c) ==
  IF window # <<>> /\ window[Len(window)].open = c THEN window
  ELSE Newest(Append(window, [open |-> c, final |-> TRUE]), MaxCandles)

\* MarketDataCache.update_candle with a closed candle
WithCandle(c) ==
  LET candle == [open |-> c, final |-> TRUE] IN
  IF window # <<>> /\ window[Len(window)].open = c
    THEN [window EXCEPT ![Len(window)] = candle]
    ELSE Newest(Append(window, candle), MaxCandles)

\* StreamManager._recv_loop, _process_message and LiveStreamManager._on_kline
\* handle the close of a candle.
TakeUp(r) ==
  /\ receiver[r] \in {"live", "away"} /\ inbox[r] # 0
  /\ inbox' = [inbox EXCEPT ![r] = 0]
  /\ UNCHANGED <<bar, running, stream, receiver, ingest>>
Handle(r) ==
  /\ TakeUp(r)
  /\ window' = WithCandle(inbox[r])
  /\ atrs' = IF HasAtr(Len(window')) THEN Newest(Append(atrs, inbox[r]), HistoryLength)
             ELSE atrs
  /\ UNCHANGED <<faults, missed>>

\* _on_kline swallows what is raised: by reading the candle, which is then
\* lost, or by the calculation, when the window has it already.
Mishandle(r) ==
  /\ TakeUp(r)
  /\ faults < MaxFaults /\ faults' = faults + 1
  /\ \/ window' = window /\ missed' = missed \cup {inbox[r]}
     \/ window' = WithCandle(inbox[r]) /\ missed' = missed
  /\ UNCHANGED atrs

-----------------------------------------------------------------------------
(* The ingest loop.                                                        *)

\* DataIngestLoop.run begins, or tries again a second after a failure.
BeginIngest ==
  /\ ingest \in {"loaded", "backoff"} /\ ingest' = "starting"
  /\ UNCHANGED <<bar, window, atrs, socketVars, faults, missed>>

\* StreamManager.start: nothing to do when it is running.
StartManager(ok) ==
  /\ ingest = "starting"
  /\ running => ok
  /\ running' = ok
  /\ ingest' = IF ok THEN "subscribing" ELSE "backoff"
  /\ UNCHANGED <<bar, window, atrs, stream, receiver, inbox, faults, missed>>

\* StreamManager.register_stream: a new receive loop replaces the entry of the
\* old one, which goes on.
Register ==
  \E r \in Receivers :
    /\ receiver[r] = "unused" /\ \A q \in 1..(r - 1) : receiver[q] # "unused"
    /\ receiver' = [receiver EXCEPT ![r] = "live"]
    /\ stream' = r

\* LiveStreamManager.start subscribes to the candles and then to the ticker;
\* either may be refused, and the exception takes the ingest loop back.
Subscribe ==
  /\ ingest = "subscribing"
  /\ Register
  /\ ingest' \in {"watching", "backoff"}
  /\ UNCHANGED <<bar, window, atrs, running, inbox, faults, missed>>
Refuse ==
  /\ ingest = "subscribing" /\ ingest' = "backoff"
  /\ UNCHANGED <<bar, window, atrs, socketVars, faults, missed>>

-----------------------------------------------------------------------------
(* The exchange and the library's sockets (external).                      *)

Listening == {r \in Receivers : receiver[r] = "live"}

\* A candle closes.  A receive loop is never a whole candle behind.
CloseBar ==
  /\ bar < LastBar /\ \A r \in Receivers : inbox[r] = 0
  /\ bar' = bar + 1
  /\ inbox' = [r \in Receivers |-> IF r \in Listening THEN bar ELSE 0]
  /\ missed' = IF ingest # "unloaded" /\ Listening = {} THEN missed \cup {bar} ELSE missed
  /\ UNCHANGED <<window, atrs, running, stream, receiver, ingest, faults>>

\* A socket loses its connection, and is connected again.
Drop(r) ==
  /\ receiver[r] = "live" /\ faults < MaxFaults
  /\ receiver' = [receiver EXCEPT ![r] = "away"]
  /\ faults' = faults + 1
  /\ UNCHANGED <<bar, window, atrs, running, stream, inbox, ingest, missed>>
Reconnect(r) ==
  /\ receiver[r] = "away"
  /\ receiver' = [receiver EXCEPT ![r] = "live"]
  /\ UNCHANGED <<bar, window, atrs, running, stream, inbox, ingest, faults, missed>>

\* It gives up: the receive loop logs the error and ends, and its entry stays.
Die(r) ==
  /\ receiver[r] = "away" /\ inbox[r] = 0
  /\ receiver' = [receiver EXCEPT ![r] = "dead"]
  /\ UNCHANGED <<bar, window, atrs, running, stream, inbox, ingest, faults, missed>>

FeedStep ==
  \/ \E ok \in BOOLEAN : StartManager(ok)
  \/ Subscribe \/ Refuse
  \/ \E r \in Receivers : Handle(r) \/ Mishandle(r) \/ Drop(r) \/ Reconnect(r) \/ Die(r)
  \/ CloseBar

-----------------------------------------------------------------------------
(* Properties.                                                             *)

\* The window is in order and holds no candle twice, also when the candle that
\* was forming at the load closes, a socket reconnects, or two receive loops
\* hand over the same close.  Nor does the ATR history go back; and it ends at
\* the candle the window ends at, once there are enough of them for an ATR and
\* as long as nothing was swallowed and no connection lost.
WindowInOrder ==
  /\ \A i, j \in 1..Len(window) : i < j => window[i].open < window[j].open
  /\ \A i, j \in 1..Len(atrs) : i < j => atrs[i] <= atrs[j]
  /\ faults = 0 /\ HasAtr(Len(window)) =>
       atrs # <<>> /\ atrs[Len(atrs)] = window[Len(window)].open

\* A closed candle is in the window in its final form until newer ones push it
\* out, unless its close was sent to nobody, while the loops were being started
\* or the connection was gone, or could not be read.
InWindow(c)  == \E i \in 1..Len(window) : window[i] = [open |-> c, final |-> TRUE]
OnItsWay(c)  == \E r \in Receivers : inbox[r] = c
PushedOut(c) == Len(window) = MaxCandles /\ window[1].open > c
NothingElseMissing ==
  ingest # "unloaded" =>
    \A c \in FirstBar..(bar - 1) :
      InWindow(c) \/ OnItsWay(c) \/ PushedOut(c) \/ c \in missed

=============================================================================
