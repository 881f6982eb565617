----------------------------- MODULE PositionLoop -----------------------------
(***************************************************************************)
(* The position-management loop (orchestrator/loops/position.py), the      *)
(* action executor it calls (spine/position/action_executor.py) and a      *)
(* CLOSE decision that the execution loop carries out meanwhile            *)
(* (ExecutionEngine._close_position), on one open position.                *)
(*                                                                         *)
(* asyncio.gather gives every position a coroutine of its own, and they    *)
(* share nothing but the exchange, so one position shows what can happen.  *)
(* Stop prices are levels 0..MaxLevel, a higher one being tighter.         *)
(***************************************************************************)
EXTENDS Integers, FiniteSets

CONSTANTS
  Slots,         \* protective orders; one not live and not linked is reused
  Size,          \* units the position opens with
  Part,          \* units a partial exit sells
  MaxLevel,      \* bound on how often the stop can tighten
  Closes,        \* CLOSE decisions the execution loop will take up (0 or 1)
  ErrorsMapped,  \* whether the client turns Binance errors into ExchangeError
  MaxFaults,     \* bound on failing calls
  MaxTimeouts,   \* bound on cycles cut off by cycle_timeout_s
  None           \* no order

ASSUME LoopAssumption ==
  /\ IsFiniteSet(Slots) /\ Cardinality(Slots) >= 2
  /\ Part \in Nat \ {0} /\ Size \in Nat /\ Part < Size
  /\ MaxLevel \in Nat /\ Closes \in Nat
  /\ ErrorsMapped \in BOOLEAN
  /\ MaxFaults \in Nat /\ MaxTimeouts \in Nat
  /\ None \notin Slots

VARIABLES
  qty,      \* exchange: open exposure
  legs,     \* exchange: the protective orders
  stored,   \* Redis: the position is in the position store
  rec,      \* Redis: the stored stop, quantity and partial_exit_done
  linked,   \* Redis: orders linked to the position
  pc,       \* the await the position loop stands at
  pos,      \* its snapshot of the record
  act,      \* the action it carries out
  level,    \* the new_stop_loss of a move
  work,     \* linked orders it has left to cancel
  fresh,    \* the order it has just placed
  cpc,      \* the await the CLOSE stands at
  cqty,     \* the quantity it read
  cwork,    \* linked orders it has left to cancel
  closes,   \* CLOSE decisions to come
  sold,     \* history: partial exits executed
  faults,   \* failing calls so far
  timeouts  \* cycles cut off so far

exchangeVars == <<qty, legs>>
storeVars    == <<stored, rec, linked>>
loopVars     == <<pc, pos, act, level, work, fresh>>
closeVars    == <<cpc, cqty, cwork, closes>>
vars == <<exchangeVars, storeVars, loopVars, closeVars, sold, faults, timeouts>>

Record == [stop : 0..MaxLevel, qty : 0..Size, done : BOOLEAN]
Leg    == [kind : {"sl", "tp"}, level : 0..MaxLevel, size : 0..Size, live : BOOLEAN]

Actions == {"move", "partial", "exit"}

LoopSteps ==
  {"idle", "evaluate", "listStops", "placeMoved", "saveMoved", "cancelOld",
   "sellPart", "flag", "listAll", "cancelAll", "placeStop", "saveStop",
   "placeTarget", "saveTarget", "update", "sellAll", "remove"}

CloseSteps == {"idle", "submit", "list", "cancel", "remove", "done"}

TypeOK ==
  /\ qty \in 0..Size
  /\ legs \in [Slots -> Leg]
  /\ stored \in BOOLEAN /\ rec \in Record /\ linked \in SUBSET Slots
  /\ pc \in LoopSteps /\ pos \in Record /\ act \in Actions
  /\ level \in 0..MaxLevel /\ work \in SUBSET Slots /\ fresh \in Slots \cup {None}
  /\ cpc \in CloseSteps /\ cqty \in 0..Size /\ cwork \in SUBSET Slots
  /\ closes \in 0..Closes
  /\ sold \in Nat /\ faults \in 0..MaxFaults /\ timeouts \in 0..MaxTimeouts

Live(kind) == {l \in Slots : legs[l].live /\ legs[l].kind = kind}
Free       == {l \in Slots : ~legs[l].live /\ l \notin linked \cup work \cup cwork \cup {fresh}}

\* Which of several slots stands for a new order makes no difference.
Some(slots) == CHOOSE l \in slots : TRUE

\* An open position with its bracket, as _on_order_filled leaves it.
Init ==
  /\ qty = Size
  /\ \E s, t \in Slots :
       /\ s # t /\ s = Some(Slots) /\ t = Some(Slots \ {s})
       /\ linked = {s, t}
       /\ legs = [l \in Slots |->
                    [kind |-> IF l = t THEN "tp" ELSE "sl", level |-> 0,
                     size |-> Size, live |-> l \in {s, t}]]
  /\ stored = TRUE
  /\ rec = [stop |-> 0, qty |-> Size, done |-> FALSE]
  /\ pc = "idle" /\ pos = rec /\ act = "exit" /\ level = 0 /\ work = {} /\ fresh = None
  /\ cpc = "idle" /\ cqty = 0 /\ cwork = {} /\ closes = Closes
  /\ sold = 0 /\ faults = 0 /\ timeouts = 0

-----------------------------------------------------------------------------
(* Calls: as in TradeState, a call is answered, fails, or lands unanswered.*)

Outcomes == {"ok", "failed", "lost"}
Lands(r) == r # "failed"
Cost(r)  == IF r = "ok" THEN 0 ELSE 1
Call(r)  == faults' = faults + Cost(r) /\ faults' <= MaxFaults

\* Mutant: the order is not reduce-only.
LessUnbounded(n) == qty - n

\* A reduce-only order of n units.
Less(n) == IF n < qty THEN qty - n ELSE 0

\* The loop goes from one await to another and leaves the rest alone.
Step(from, to) ==
  /\ pc = from /\ pc' = to
  /\ UNCHANGED <<closeVars, timeouts>>

-----------------------------------------------------------------------------
(* The exchange.                                                           *)

Trigger(l) ==
  /\ legs[l].live /\ qty > 0
  /\ legs' = [legs EXCEPT ![l].live = FALSE]
  /\ qty' = Less(legs[l].size)
  /\ UNCHANGED <<storeVars, loopVars, closeVars, sold, faults, timeouts>>

Expire(l) ==
  /\ legs[l].live /\ qty = 0
  /\ legs' = [legs EXCEPT ![l].live = FALSE]
  /\ UNCHANGED <<qty, storeVars, loopVars, closeVars, sold, faults, timeouts>>

-----------------------------------------------------------------------------
(* A cycle starts: snapshot and evaluation.                                *)

\* get_all_positions.
Snapshot ==
  /\ Step("idle", "evaluate") /\ stored
  /\ pos' = rec
  /\ UNCHANGED <<exchangeVars, storeVars, act, level, work, fresh, sold, faults>>

NothingStored ==
  /\ pc = "idle" /\ ~stored /\ UNCHANGED vars

Evaluate(to, action) ==
  /\ Step("evaluate", to) /\ act' = action
  /\ UNCHANGED <<exchangeVars, storeVars, pos, work, fresh, sold, faults>>

\* Nothing to do, or no usable price or ATR.
NoAction == Evaluate("idle", act) /\ level' = level

\* TrailingStopChecker, BreakEvenMover: only ever a tighter stop.
Move == Evaluate("listStops", "move") /\ level' \in (pos.stop + 1)..MaxLevel

\* PartialExitChecker.
PartialExit ==
  /\ Evaluate("sellPart", "partial") /\ level' = pos.stop
  /\ ~pos.done /\ Part < pos.qty

\* Stop breached, liquidation near, or held too long.
FullExit == Evaluate("sellAll", "exit") /\ level' = level

-----------------------------------------------------------------------------
(* The awaits the actions are made of.                                     *)

\* get_by_position.  A failing read raises, which ends the cycle.
List(from, to, orders) ==
  \E r \in {"ok", "failed"} :
    /\ Call(r)
    /\ Step(from, IF r = "ok" THEN to ELSE "idle")
    /\ work' = IF r = "ok" THEN orders ELSE {}
    /\ UNCHANGED <<exchangeVars, storeVars, pos, act, level, fresh, sold>>

\* create_order of a protective order; with nothing to reduce it is refused.
Place(kind, lvl, size, from, to, failed) ==
  \/ \E r \in {"ok", "lost"}, l \in Free :
       /\ qty > 0 /\ Call(r) /\ l = Some(Free)
       /\ Step(from, IF r = "ok" THEN to ELSE failed)
       /\ legs' = [legs EXCEPT ![l] = [kind |-> kind, level |-> lvl,
                                      size |-> size, live |-> TRUE]]
       /\ fresh' = IF r = "ok" THEN l ELSE None
       /\ work' = IF r = "ok" THEN work ELSE {}
       /\ UNCHANGED <<qty, storeVars, pos, act, level, sold>>
  \/ /\ Step(from, failed)
     /\ IF qty = 0 THEN faults' = faults ELSE Call("failed")
     /\ work' = {}
     /\ UNCHANGED <<exchangeVars, storeVars, pos, act, level, fresh, sold>>

\* _save_linked_order.
Save(from, to, failed) ==
  \E r \in Outcomes :
    /\ Call(r)
    /\ Step(from, IF r = "ok" THEN to ELSE failed)
    /\ linked' = IF Lands(r) THEN linked \cup {fresh} ELSE linked
    /\ work' = IF r = "ok" THEN work ELSE {}
    /\ fresh' = None
    /\ UNCHANGED <<exchangeVars, stored, rec, pos, act, level, sold>>

\* _cancel_order: the exchange refuses to cancel what is not live, and then
\* the record goes only if the refusal is recognised as "unknown order".
\* A record that cannot be removed raises.
Cancel(from) ==
  \E l \in work, r \in Outcomes, q \in Outcomes :
    LET purge == IF legs[l].live THEN r = "ok" ELSE r = "ok" /\ ErrorsMapped
    IN  /\ ~purge => q = "ok"
        /\ faults' = faults + Cost(r) + Cost(q) /\ faults' <= MaxFaults
        /\ Step(from, IF q = "ok" THEN from ELSE "idle")
        /\ legs' = IF Lands(r) THEN [legs EXCEPT ![l].live = FALSE] ELSE legs
        /\ linked' = IF purge /\ Lands(q) THEN linked \ {l} ELSE linked
        /\ work' = IF q = "ok" THEN work \ {l} ELSE {}
        /\ UNCHANGED <<qty, stored, rec, pos, act, level, fresh, sold>>

Cancelled(from, to) ==
  /\ Step(from, to) /\ work = {}
  /\ UNCHANGED <<exchangeVars, storeVars, pos, act, level, work, fresh, sold, faults>>

\* A MARKET order of n units, reduce-only; with nothing to reduce it fails.
Sell(n, from, to, failed) ==
  \E r \in Outcomes :
    /\ IF qty = 0 THEN r = "failed" /\ faults' = faults ELSE Call(r)
    /\ Step(from, IF r = "ok" THEN to ELSE failed)
    /\ qty' = IF Lands(r) THEN Less(n) ELSE qty
    /\ sold' = IF Lands(r) /\ act = "partial" THEN sold + 1 ELSE sold
    /\ UNCHANGED <<legs, storeVars, pos, act, level, work, fresh>>

\* update_position writes the whole record back.
Write(record, from, to, failed) ==
  \E r \in Outcomes :
    /\ Call(r)
    /\ Step(from, IF r = "ok" THEN to ELSE failed)
    /\ IF Lands(r) THEN stored' = TRUE /\ rec' = record
                   ELSE UNCHANGED <<stored, rec>>
    /\ UNCHANGED <<exchangeVars, linked, pos, act, level, work, fresh, sold>>

-----------------------------------------------------------------------------
(* _move_stop_loss.                                                        *)

\* The old stops are listed before the new one is placed.
ListStops ==
  List("listStops", "placeMoved", {l \in linked : legs[l].kind = "sl"})

\* Mutant: the stop is placed at its old price.
PlaceUnmoved == Place("sl", pos.stop, pos.qty, "placeMoved", "saveMoved", "update")

PlaceMoved == Place("sl", level, pos.qty, "placeMoved", "saveMoved", "update")

\* Mutant: the stops to withdraw are those linked once the new one is stored.
SaveMovedThenList ==
  /\ Step("saveMoved", "cancelOld")
  /\ linked' = linked \cup {fresh} /\ fresh' = None
  /\ work' = {l \in linked' : legs[l].kind = "sl"}
  /\ UNCHANGED <<exchangeVars, stored, rec, pos, act, level, sold, faults>>

SaveMoved    == Save("saveMoved", "cancelOld", "update")
CancelOld    == Cancel("cancelOld")
OldCancelled == Cancelled("cancelOld", "update")

-----------------------------------------------------------------------------
(* _partial_exit and _full_exit.                                           *)

SellPart == Sell(Part, "sellPart", "flag", "update")

\* Mutant: a flag that cannot be stored ends the cycle.
FlagRaises == Write([pos EXCEPT !.done = TRUE], "flag", "listAll", "idle")

\* partial_exit_done goes to Redis before the legs are touched.
Flag == Write([pos EXCEPT !.done = TRUE], "flag", "listAll", "update")

\* Mutant: the exit is sized like a partial one.
SellTooLittle == Sell(Part, "sellAll", "listAll", "idle")

SellAll == Sell(pos.qty, "sellAll", "listAll", "idle")

\* Mutant: stops are withdrawn, take-profits forgotten.
ListStopsOnly ==
  List("listAll", "cancelAll", {l \in linked : legs[l].kind = "sl"})

ListAll   == List("listAll", "cancelAll", linked)
CancelAll == Cancel("cancelAll")

AllCancelled ==
  Cancelled("cancelAll", IF act = "partial" THEN "placeStop" ELSE "remove")

Remaining == pos.qty - Part

PlaceStop   == Place("sl", pos.stop, Remaining, "placeStop", "saveStop", "idle")
SaveStop    == Save("saveStop", "placeTarget", "idle")
PlaceTarget == Place("tp", 0, Remaining, "placeTarget", "saveTarget", "idle")
SaveTarget  == Save("saveTarget", "update", "idle")

\* remove_position.
Remove ==
  \E r \in Outcomes :
    /\ Call(r)
    /\ Step("remove", "idle")
    /\ stored' = IF Lands(r) THEN FALSE ELSE stored
    /\ UNCHANGED <<exchangeVars, rec, linked, pos, act, level, work, fresh, sold>>

\* Mutant: the exit quantity is subtracted twice.
UpdatedTwice ==
  IF act = "move" THEN [pos EXCEPT !.stop = level]
  ELSE [pos EXCEPT !.qty = Remaining - Part, !.done = TRUE]

\* _build_updated_position: the snapshot with the action applied, whether or
\* not the executor managed to carry it out.
Updated ==
  IF act = "move" THEN [pos EXCEPT !.stop = level]
  ELSE [pos EXCEPT !.qty = Remaining, !.done = TRUE]

Update == Write(Updated, "update", "idle", "idle")

\* wait_for cancels a cycle that exceeds cycle_timeout_s, wherever it stands.
Timeout ==
  /\ pc # "idle" /\ timeouts < MaxTimeouts
  /\ timeouts' = timeouts + 1
  /\ pc' = "idle" /\ work' = {} /\ fresh' = None
  /\ UNCHANGED <<exchangeVars, storeVars, pos, act, level, closeVars, sold, faults>>

-----------------------------------------------------------------------------
(* The execution loop carries out a CLOSE decision.                        *)

Closer(from, to) ==
  /\ cpc = from /\ cpc' = to
  /\ UNCHANGED <<loopVars, sold, timeouts>>

CloseRead ==
  /\ closes > 0 /\ closes' = closes - 1
  /\ Closer("idle", IF stored THEN "submit" ELSE "idle")
  /\ cqty' = IF stored THEN rec.qty ELSE cqty
  /\ UNCHANGED <<exchangeVars, storeVars, cwork, faults>>

CloseSubmit ==
  \E r \in Outcomes :
    /\ IF qty = 0 THEN r = "failed" /\ faults' = faults ELSE Call(r)
    /\ Closer("submit", IF r = "ok" THEN "list" ELSE "idle")
    /\ qty' = IF Lands(r) THEN Less(cqty) ELSE qty
    /\ UNCHANGED <<legs, storeVars, cqty, cwork, closes>>

CloseList ==
  \E r \in {"ok", "failed"} :
    /\ Call(r)
    /\ Closer("list", "cancel")
    /\ cwork' = IF r = "ok" THEN linked ELSE {}
    /\ UNCHANGED <<exchangeVars, storeVars, cqty, closes>>

CloseCancel ==
  \E l \in cwork, r \in Outcomes, q \in Outcomes :
    /\ ~legs[l].live => r = "ok"
    /\ faults' = faults + Cost(r) + Cost(q) /\ faults' <= MaxFaults
    /\ Closer("cancel", "cancel")
    /\ legs' = IF Lands(r) THEN [legs EXCEPT ![l].live = FALSE] ELSE legs
    /\ linked' = IF Lands(q) THEN linked \ {l} ELSE linked
    /\ cwork' = cwork \ {l}
    /\ UNCHANGED <<qty, stored, rec, cqty, closes>>

CloseCancelled ==
  /\ Closer("cancel", "remove") /\ cwork = {}
  /\ UNCHANGED <<exchangeVars, storeVars, cqty, cwork, closes, faults>>

CloseRemove ==
  \E r \in Outcomes :
    /\ Call(r)
    /\ Closer("remove", "done")
    /\ stored' = IF Lands(r) THEN FALSE ELSE stored
    /\ UNCHANGED <<exchangeVars, rec, linked, cqty, cwork, closes>>

-----------------------------------------------------------------------------
Cycle ==
  \/ Snapshot \/ NothingStored \/ NoAction \/ Move \/ PartialExit \/ FullExit
  \/ ListStops \/ PlaceMoved \/ SaveMoved \/ CancelOld \/ OldCancelled
  \/ SellPart \/ Flag \/ SellAll \/ ListAll \/ CancelAll \/ AllCancelled
  \/ PlaceStop \/ SaveStop \/ PlaceTarget \/ SaveTarget
  \/ Update \/ Remove

Close ==
  \/ CloseRead \/ CloseSubmit \/ CloseList \/ CloseCancel \/ CloseCancelled
  \/ CloseRemove

Next ==
  \/ Cycle \/ Close \/ Timeout
  \/ \E l \in Slots : Trigger(l) \/ Expire(l)

Spec == Init /\ [][Next]_vars

\* The loop keeps running, and once max_hold_time_hours are over every
\* evaluation asks for a full exit.
FairSpec == Spec /\ WF_vars(Cycle) /\ SF_vars(FullExit)

-----------------------------------------------------------------------------
(* Properties.                                                             *)

AtRest == pc = "idle" /\ cpc \in {"idle", "done"}

\* While nothing fails, an open position at rest has a live stop-loss, at the
\* recorded price and for the whole exposure, although a CLOSE, moves, partial
\* exits and triggering orders interleave (_move_stop_loss, _partial_exit).
StopMatchesRecord ==
  AtRest /\ faults = 0 /\ timeouts = 0 /\ stored /\ qty > 0 =>
    \E l \in Live("sl") : legs[l].level = rec.stop /\ legs[l].size >= qty

\* While nothing fails, the record is never short of the exposure, so the
\* full exit it will lead to leaves nothing behind (_build_updated_position).
RecordCoversExposure ==
  AtRest /\ faults = 0 /\ timeouts = 0 => qty <= (IF stored THEN rec.qty ELSE 0)

\* Whatever fails, and wherever a cycle is cut off, moving the stop of a
\* position that still has the exposure the cycle saw never withdraws its last
\* live stop ("Snapshot existing stop orders BEFORE placing the new one",
\* _move_stop_loss), although a CLOSE cancels orders of its own meanwhile.
MoveKeepsAStop ==
  [][pc = "cancelOld" /\ qty >= pos.qty /\ qty' = qty /\ Live("sl") # {}
       => Live("sl")' # {}]_vars

\* One failing call, in cycles that are not cut off, never makes the loop sell
\* a second partial exit ("the next tick will not re-submit a partial exit",
\* _partial_exit).
PartialExitOnce == faults <= 1 /\ timeouts = 0 => sold <= 1

\* While nothing fails and no CLOSE was taken up, a position that is gone leaves
\* no live order on the exchange (_full_exit, _cancel_linked_orders).
NothingLeftBehind ==
  AtRest /\ faults = 0 /\ timeouts = 0 /\ closes = Closes /\ ~stored =>
    \A l \in Slots : ~legs[l].live

\* While no call fails, no position is held forever, although a cycle is cut off
\* and a CLOSE runs beside it: the time exit, or something before it, ends the
\* exposure (TimeExitChecker, _full_exit).
NotHeldForever == stored ~> (qty = 0 \/ faults > 0)
=============================================================================
