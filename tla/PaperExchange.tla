----------------------------- MODULE PaperExchange -----------------------------
(***************************************************************************)
(* The paper exchange (paper/exchange.py), which the configured default    *)
(* mode trades on, and the account store it reports its balance to         *)
(* (spine/state/account_store.py).                                         *)
(*                                                                         *)
(* The execution loop and the position loop call it concurrently.  A call  *)
(* gives way while it asks for the ticker and while it reports; between    *)
(* two awaits it is one step.  Its money is in memory and a restart loses  *)
(* it; the account record is in Redis and stays.                           *)
(*                                                                         *)
(* Amounts are integers, in the unit that Decimal division rounds to.      *)
(***************************************************************************)
EXTENDS Integers, Sequences, FiniteSets, Functions

CONSTANTS
  Symbols,
  Executor,     \* the execution loop: it alone opens positions and polls limits
  Others,       \* the other callers
  Prices,       \* what a ticker can show
  Leverages,    \* leverages that can be set
  Quantities,   \* quantities that can be ordered
  FeeDiv,       \* 1 / commission_rate
  Initial,      \* initial_balance_usdt
  MaxOrders,    \* bound on orders
  MaxFaults,    \* bound on failing calls and cycles cut off
  MaxRestarts,  \* bound on restarts
  None

ASSUME PaperAssumption ==
  /\ Executor \notin Others /\ None \notin Others \cup {Executor}
  /\ Prices \subseteq Nat \ {0} /\ Quantities \subseteq Nat \ {0}
  /\ Leverages \subseteq Nat \ {0} /\ 1 \in Leverages
  /\ FeeDiv \in Nat \ {0} /\ Initial \in Nat
  /\ MaxOrders \in Nat /\ MaxFaults \in Nat /\ MaxRestarts \in Nat

Callers == Others \cup {Executor}
Sides   == {"LONG", "SHORT"}  \* BUY opens or adds to the first, SELL the second

VARIABLES
  balance,    \* _balance_usdt
  locked,     \* _locked_usdt
  positions,  \* _positions
  leverage,   \* _leverage_settings
  orders,     \* _orders: protective orders and limits, by order id
  step,       \* the await each caller stands at
  request,    \* the order it creates
  target,     \* the id of the order it looks up; 0 when none
  account,    \* Redis: the account record
  holder,     \* the caller that holds the account store's lock
  waiting,    \* the callers that wait for it, first come first served
  report,     \* the balance each of them has to store
  seen,       \* the peak the holder has read
  highest,    \* history: the highest balance that was stored
  missed,     \* history: the latest report was not stored
  issued, faults, restarts  \* bounds

moneyVars  == <<balance, locked, positions>>
callVars   == <<step, request, target>>
lockVars   == <<holder, waiting, report, seen>>
countVars  == <<issued, faults, restarts>>
vars == <<moneyVars, leverage, orders, callVars, account, lockVars, highest, missed, countVars>>

Position == [side : Sides, qty : Nat \ {0}, entry : Nat, margin : Nat]
Order    == [kind : {"limit"}, symbol : Symbols, side : Sides, qty : Quantities,
             price : Prices, status : {"new", "filled", "canceled"}]
            \cup [kind : {"protective"}, symbol : Symbols, status : {"new", "canceled"}]
Request  == [type : {"limit"}, symbol : Symbols, side : Sides, qty : Quantities,
             price : Prices, reduce : {FALSE}]
            \cup [type : {"market"}, symbol : Symbols, side : Sides, qty : Quantities,
                  reduce : BOOLEAN]
Steps    == {"idle", "check", "fill", "poll", "cancel", "wait", "read", "write"}

ASSUME NoneAssumption == None \notin Position \cup Order \cup Request

TypeOK ==
  /\ balance \in Int /\ locked \in Int
  /\ positions \in [Symbols -> Position \cup {None}]
  /\ leverage \in [Symbols -> Leverages]
  /\ orders \in [1..MaxOrders -> Order \cup {None}]
  /\ step \in [Callers -> Steps]
  /\ request \in [Callers -> Request \cup {None}]
  /\ target \in [Callers -> 0..MaxOrders]
  /\ account.total \in Int /\ account.locked \in Int /\ account.peak \in Int
  /\ holder \in Callers \cup {None} /\ waiting \in Seq(Callers)
  /\ highest \in Int /\ missed \in BOOLEAN
  /\ issued \in 0..MaxOrders /\ faults \in 0..MaxFaults /\ restarts \in 0..MaxRestarts

NoReport == [total |-> 0, locked |-> 0]

\* The start-up reconciliation has stored the initial balance.
Init ==
  /\ balance = Initial /\ locked = 0
  /\ positions = [s \in Symbols |-> None]
  /\ leverage = [s \in Symbols |-> 1]
  /\ step = [c \in Callers |-> "idle"] /\ request = [c \in Callers |-> None]
  /\ target = [c \in Callers |-> 0]
  /\ holder = None /\ waiting = <<>>
  /\ report = [c \in Callers |-> NoReport] /\ seen = [c \in Callers |-> 0]
  /\ orders = [o \in 1..MaxOrders |-> None]
  /\ account = [total |-> Initial, locked |-> 0, peak |-> Initial]
  /\ highest = Initial /\ missed = FALSE
  /\ issued = 0 /\ faults = 0 /\ restarts = 0

-----------------------------------------------------------------------------
(* Money: _apply_balance_change.                                           *)

Fee(qty, price) == (qty * price) \div FeeDiv

Existing(r) == positions[r.symbol]
Closes(r)   == Existing(r) # None /\ Existing(r).side # r.side

InitialMargin(r, price) == (r.qty * price) \div leverage[r.symbol]
Affordable(r, price) == balance >= InitialMargin(r, price) + Fee(r.qty, price)
Executable(r, price) == Closes(r) \/ (~r.reduce /\ Affordable(r, price))

\* Mutant: the order closes what it asks for.
CloseQtyAsked(r) == r.qty

CloseQty(r) == IF r.qty < Existing(r).qty THEN r.qty ELSE Existing(r).qty
Profit(r, price) ==
  LET gain == (price - Existing(r).entry) * CloseQty(r)
  IN  IF Existing(r).side = "LONG" THEN gain ELSE -gain
PerUnit(r)  == Existing(r).margin \div Existing(r).qty
Returned(r) == PerUnit(r) * CloseQty(r)
Left(r)     == Existing(r).qty - CloseQty(r)

\* Mutant: the margin of the part that is closed stays in the position.
CloseKeepingMargin(r, price) ==
  /\ balance' = balance + Returned(r) + Profit(r, price) - Fee(r.qty, price)
  /\ locked' = locked - Returned(r)
  /\ positions' = [positions EXCEPT ![r.symbol] =
       IF Left(r) = 0 THEN None ELSE [Existing(r) EXCEPT !.qty = Left(r)]]

\* The fee is that of the whole order, however much of it there was to close.
Close(r, price) ==
  /\ balance' = balance + Returned(r) + Profit(r, price) - Fee(r.qty, price)
  /\ locked' = locked - Returned(r)
  /\ positions' = [positions EXCEPT ![r.symbol] =
       IF Left(r) = 0 THEN None
       ELSE [Existing(r) EXCEPT !.qty = Left(r), !.margin = PerUnit(r) * Left(r)]]

\* Opens a position, or adds to it at the average price.
Open(r, price) ==
  LET held  == IF Existing(r) = None THEN [qty |-> 0, entry |-> 0, margin |-> 0] ELSE Existing(r)
      total == held.qty + r.qty
  IN  /\ balance' = balance - InitialMargin(r, price) - Fee(r.qty, price)
      /\ locked' = locked + InitialMargin(r, price)
      /\ positions' = [positions EXCEPT ![r.symbol] =
           [side |-> r.side, qty |-> total,
            entry |-> (held.entry * held.qty + price * r.qty) \div total,
            margin |-> held.margin + InitialMargin(r, price)]]

ApplyBalanceChange(r, price) == IF Closes(r) THEN Close(r, price) ELSE Open(r, price)

-----------------------------------------------------------------------------
(* Reporting: _sync_balance_to_store and AccountStore.update_balance.      *)

\* Mutant: the balance is taken before the order changes it.
JoinEarly(c) ==
  /\ report' = [report EXCEPT ![c] = [total |-> balance + locked, locked |-> locked]]
  /\ seen' = seen
  /\ missed' = FALSE
  /\ IF holder = None
     THEN holder' = c /\ waiting' = waiting /\ step' = [step EXCEPT ![c] = "read"]
     ELSE holder' = holder /\ waiting' = Append(waiting, c) /\ step' = [step EXCEPT ![c] = "wait"]

\* The balance is taken now; the lock is taken now if it is free.
Join(c) ==
  /\ report' = [report EXCEPT ![c] = [total |-> balance' + locked', locked |-> locked']]
  /\ seen' = seen
  /\ missed' = FALSE
  /\ IF holder = None
     THEN holder' = c /\ waiting' = waiting /\ step' = [step EXCEPT ![c] = "read"]
     ELSE holder' = holder /\ waiting' = Append(waiting, c) /\ step' = [step EXCEPT ![c] = "wait"]

\* The lock goes to the first that waits; the caller's own call goes on: a
\* cancel that filled its order marks it, and anything else returns.
Release(c) ==
  /\ report' = [report EXCEPT ![c] = NoReport] /\ seen' = [seen EXCEPT ![c] = 0]
  /\ holder' = IF waiting = <<>> THEN None ELSE Head(waiting)
  /\ waiting' = IF waiting = <<>> THEN <<>> ELSE Tail(waiting)
  /\ step' = [d \in Callers |-> IF d = c THEN "idle"
                                ELSE IF waiting # <<>> /\ d = Head(waiting) THEN "read"
                                ELSE step[d]]

\* Mutant: the record is read while the lock is waited for.
ReadUnlocked(c) ==
  /\ step[c] \in {"wait", "read"}
  /\ seen' = [seen EXCEPT ![c] = IF seen[c] = 0 THEN account.peak ELSE seen[c]]
  /\ step' = [step EXCEPT ![c] = IF step[c] = "read" THEN "write" ELSE "wait"]
  /\ UNCHANGED <<moneyVars, leverage, orders, request, target, account, holder, waiting, report,
                 highest, missed, countVars>>

ReadAccount(c) ==
  /\ holder = c /\ step[c] = "read"
  /\ seen' = [seen EXCEPT ![c] = account.peak]
  /\ step' = [step EXCEPT ![c] = "write"]
  /\ UNCHANGED <<moneyVars, leverage, orders, request, target, account, holder, waiting, report,
                 highest, missed, countVars>>

Higher(a, b) == IF a >= b THEN a ELSE b

Stored(c) ==
  [total |-> report[c].total, locked |-> report[c].locked, peak |-> Higher(seen[c], report[c].total)]

\* What a call does once its report is over.
Resume(c) ==
  /\ orders' = IF target[c] = 0 THEN orders
               ELSE [orders EXCEPT ![target[c]].status = "canceled"]
  /\ target' = [target EXCEPT ![c] = 0]
  /\ UNCHANGED request

WriteAccount(c) ==
  /\ holder = c /\ step[c] = "write"
  /\ account' = Stored(c) /\ highest' = Higher(highest, report[c].total)
  /\ Release(c) /\ Resume(c)
  /\ UNCHANGED <<moneyVars, leverage, missed, countVars>>

\* Redis fails: the exception is logged and the call goes on.
ReportFails(c) ==
  /\ holder = c /\ faults < MaxFaults /\ faults' = faults + 1
  /\ \/ UNCHANGED <<account, highest>>
     \/ /\ step[c] = "write"
        /\ account' = Stored(c) /\ highest' = Higher(highest, report[c].total)
  /\ missed' = (missed \/ waiting = <<>>)
  /\ Release(c) /\ Resume(c)
  /\ UNCHANGED <<moneyVars, leverage, issued, restarts>>

-----------------------------------------------------------------------------
(* create_order.                                                           *)

\* The execution loop opens and closes, the others only reduce.
Submit(c, r) ==
  /\ step[c] = "idle" /\ issued < MaxOrders /\ issued' = issued + 1
  /\ c # Executor => r.reduce
  /\ request' = [request EXCEPT ![c] = r]
  /\ step' = [step EXCEPT ![c] = IF r.type = "limit" THEN "check" ELSE "fill"]
  /\ UNCHANGED <<moneyVars, leverage, orders, target, account, lockVars, highest, missed, faults, restarts>>

Crosses(side, price, limit) == IF side = "LONG" THEN price <= limit ELSE price >= limit

NextId == CHOOSE o \in 1..MaxOrders : orders[o] = None /\ \A i \in 1..(o - 1) : orders[i] # None

Return(c) ==
  /\ step' = [step EXCEPT ![c] = "idle"]
  /\ request' = [request EXCEPT ![c] = None] /\ target' = [target EXCEPT ![c] = 0]

\* _limit_is_marketable says no.
Rest(c, price) ==
  /\ step[c] = "check" /\ ~Crosses(request[c].side, price, request[c].price)
  /\ LET r == request[c] IN
       orders' = [orders EXCEPT ![NextId] =
         [kind |-> "limit", symbol |-> r.symbol, side |-> r.side, qty |-> r.qty,
          price |-> r.price, status |-> "new"]]
  /\ Return(c)
  /\ UNCHANGED <<moneyVars, leverage, account, lockVars, highest, missed, countVars>>

\* It says yes, and the ticker is asked again for the price.
Marketable(c, price) ==
  /\ step[c] = "check" /\ Crosses(request[c].side, price, request[c].price)
  /\ step' = [step EXCEPT ![c] = "fill"]
  /\ UNCHANGED <<moneyVars, leverage, orders, request, target, account, lockVars, highest, missed, countVars>>

Fill(c, price) ==
  /\ step[c] = "fill" /\ Executable(request[c], price)
  /\ ApplyBalanceChange(request[c], price)
  /\ Join(c) /\ request' = [request EXCEPT ![c] = None]
  /\ UNCHANGED <<leverage, orders, target, account, highest, countVars>>

\* Nothing to reduce, or insufficient margin.
Reject(c, price) ==
  /\ step[c] = "fill" /\ ~Executable(request[c], price)
  /\ Return(c)
  /\ UNCHANGED <<moneyVars, leverage, orders, account, lockVars, highest, missed, countVars>>

\* Stored, and never filled by anything.
PlaceProtective(c, s) ==
  /\ step[c] = "idle" /\ issued < MaxOrders /\ issued' = issued + 1
  /\ orders' = [orders EXCEPT ![NextId] = [kind |-> "protective", symbol |-> s, status |-> "new"]]
  /\ UNCHANGED <<moneyVars, leverage, callVars, account, lockVars, highest, missed, faults, restarts>>

-----------------------------------------------------------------------------
(* get_order and cancel_order.                                             *)

Resting(o) == orders[o].status = "new" /\ orders[o].kind = "limit"
AsRequest(o) == [type |-> "limit", symbol |-> orders[o].symbol, side |-> orders[o].side,
                 qty |-> orders[o].qty, price |-> orders[o].price, reduce |-> FALSE]

LookUp(c, o, to) ==
  /\ c = Executor /\ step[c] = "idle" /\ orders[o] # None /\ Resting(o)
  /\ step' = [step EXCEPT ![c] = to] /\ target' = [target EXCEPT ![c] = o]
  /\ UNCHANGED <<moneyVars, leverage, orders, request, account, lockVars, highest, missed, countVars>>

\* Cancelling a protective or a filled order takes no ticker.
CancelAtOnce(c, o) ==
  /\ step[c] = "idle" /\ orders[o] # None /\ ~Resting(o)
  /\ orders[o].kind = "protective" \/ c = Executor
  /\ orders' = [orders EXCEPT ![o].status = "canceled"]
  /\ UNCHANGED <<moneyVars, leverage, callVars, account, lockVars, highest, missed, countVars>>

\* _maybe_fill_resting_limit: the ticker has not crossed.
NotCrossed(c, price) ==
  /\ step[c] \in {"poll", "cancel"}
  /\ LET o == target[c] IN
       /\ ~Crosses(orders[o].side, price, orders[o].price)
       /\ orders' = IF step[c] = "cancel" THEN [orders EXCEPT ![o].status = "canceled"] ELSE orders
  /\ Return(c)
  /\ UNCHANGED <<moneyVars, leverage, account, lockVars, highest, missed, countVars>>

\* It has: the order fills at its own price, also when a cancel asked.
FillResting(c, price) ==
  /\ step[c] \in {"poll", "cancel"}
  /\ LET o == target[c] IN
       /\ Crosses(orders[o].side, price, orders[o].price)
       /\ Executable(AsRequest(o), orders[o].price)
       /\ ApplyBalanceChange(AsRequest(o), orders[o].price)
       /\ orders' = [orders EXCEPT ![o].status = "filled"]
       /\ target' = [target EXCEPT ![c] = IF step[c] = "cancel" THEN o ELSE 0]
  /\ Join(c)
  /\ UNCHANGED <<leverage, request, account, highest, countVars>>

\* Margin was not reserved while it rested.
RestingRejected(c, price) ==
  /\ step[c] \in {"poll", "cancel"}
  /\ LET o == target[c] IN
       /\ Crosses(orders[o].side, price, orders[o].price)
       /\ ~Executable(AsRequest(o), orders[o].price)
  /\ Return(c)
  /\ UNCHANGED <<moneyVars, leverage, orders, account, lockVars, highest, missed, countVars>>

-----------------------------------------------------------------------------
(* The rest.                                                               *)

SetLeverage(s, l) ==
  /\ step[Executor] = "idle" /\ leverage' = [leverage EXCEPT ![s] = l]
  /\ UNCHANGED <<moneyVars, orders, callVars, account, lockVars, highest, missed, countVars>>

\* The ticker fails, or the cycle that called is cut off before the fill.
Abort(c) ==
  /\ step[c] \in {"check", "fill", "poll", "cancel"}
  /\ faults < MaxFaults /\ faults' = faults + 1
  /\ Return(c)
  /\ UNCHANGED <<moneyVars, leverage, orders, account, lockVars, highest, missed, issued, restarts>>

\* The position loop's cycle is cut off while it waits for the lock.
CutWaiting(c) ==
  /\ c # Executor /\ step[c] = "wait"
  /\ faults < MaxFaults /\ faults' = faults + 1
  /\ missed' = (missed \/ waiting[Len(waiting)] = c)
  /\ \E i \in 1..Len(waiting) :
       /\ waiting[i] = c
       /\ waiting' = SubSeq(waiting, 1, i - 1) \o SubSeq(waiting, i + 1, Len(waiting))
  /\ report' = [report EXCEPT ![c] = NoReport]
  /\ Return(c)
  /\ UNCHANGED <<moneyVars, leverage, orders, account, holder, seen, highest, issued, restarts>>

\* A new process: the money is the initial one, and _reconcile_account
\* reports it before the loops start.  If that fails they start all the same.
Restart ==
  /\ restarts < MaxRestarts /\ restarts' = restarts + 1
  /\ balance' = Initial /\ locked' = 0
  /\ positions' = [s \in Symbols |-> None]
  /\ leverage' = [s \in Symbols |-> 1]
  /\ step' = [c \in Callers |-> "idle"] /\ request' = [c \in Callers |-> None]
  /\ target' = [c \in Callers |-> 0]
  /\ holder' = None /\ waiting' = <<>>
  /\ report' = [c \in Callers |-> NoReport] /\ seen' = [c \in Callers |-> 0]
  /\ orders' = [o \in 1..MaxOrders |-> None]
  /\ \/ /\ account' = [total |-> Initial, locked |-> 0, peak |-> Higher(account.peak, Initial)]
        /\ highest' = Higher(highest, Initial) /\ missed' = FALSE
        /\ UNCHANGED faults
     \/ /\ faults < MaxFaults /\ faults' = faults + 1
        /\ missed' = TRUE
        /\ UNCHANGED <<account, highest>>
  /\ UNCHANGED issued

Next ==
  \/ \E c \in Callers :
       \/ ReadAccount(c) \/ WriteAccount(c) \/ ReportFails(c)
       \/ \E r \in Request : Submit(c, r)
       \/ \E s \in Symbols : PlaceProtective(c, s)
       \/ \E price \in Prices :
            \/ Rest(c, price) \/ Marketable(c, price) \/ Fill(c, price) \/ Reject(c, price)
            \/ NotCrossed(c, price) \/ FillResting(c, price) \/ RestingRejected(c, price)
       \/ \E o \in 1..MaxOrders :
            LookUp(c, o, "poll") \/ LookUp(c, o, "cancel") \/ CancelAtOnce(c, o)
       \/ Abort(c) \/ CutWaiting(c)
  \/ \E s \in Symbols, l \in Leverages : SetLeverage(s, l)
  \/ Restart

Spec == Init /\ [][Next]_vars

-----------------------------------------------------------------------------
(* Properties.                                                             *)

\* The margin taken from the balance is that of the open positions, through
\* any sequence of opening, adding, leverage changes and partial closes.
Margin(s) == IF positions[s] = None THEN 0 ELSE positions[s].margin
LockedBacksPositions == locked = FoldFunction(+, 0, [s \in Symbols |-> Margin(s)])

\* Whichever callers reported last: once nobody is reporting and the latest
\* report was stored, the account record shows the exchange's balance.
AccountCurrent ==
  holder = None /\ ~missed =>
    account.total = balance + locked /\ account.locked = locked

\* The peak that drawdowns are measured from is the highest balance ever
\* stored: concurrent reports and restarts do not lower it.
PeakIsHighest == account.peak = highest

\* Inductive for the last: only the holder of the lock is reading or writing,
\* and what it has read is still so.
PeakIsRead ==
  /\ step \in [Callers -> Steps] /\ DOMAIN seen = Callers
  /\ \A c \in Callers : step[c] \in {"read", "write"} => holder = c
  /\ \A c \in Callers : step[c] = "write" => seen[c] = account.peak
PInv == PeakIsHighest /\ PeakIsRead
=============================================================================
