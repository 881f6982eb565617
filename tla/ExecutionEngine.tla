--------------------------- MODULE ExecutionEngine ---------------------------
(***************************************************************************)
(* The execution loop and its engine (spine/execution/engine.py,           *)
(* orchestrator/loops/execution.py) with the start-up reconciliation that  *)
(* uses the same placement code (spine/state/reconciliation.py).           *)
(*                                                                         *)
(* The loop is sequential: pc says which await it stands at, and every     *)
(* action is what happens between two awaits that touch shared state.      *)
(* While it waits, the exchange moves.                                     *)
(***************************************************************************)
EXTENDS TradeState

CONSTANTS
  Pullback,      \* decisions with entry_tactic PULLBACK_TO_LEVEL
  MaxPositions,  \* risk.max_positions
  None           \* no decision, no order

ASSUME EngineAssumption ==
  /\ Pullback \subseteq Decisions
  /\ MaxPositions \in Nat
  /\ None \notin Decisions \cup Closes
  /\ None \notin LegIds

VARIABLES
  queue,   \* decisions in the Redis queue
  pc,      \* the await the loop stands at
  cur,     \* the decision or position it works on
  fresh,   \* the protective order just placed, or withdrawn, and not yet
           \* stored, or removed
  src,     \* who called the placement code: execute, the sweep, the reconciler
  tpToo,   \* whether a take-profit follows the stop-loss
  batch,   \* pending entries the sweep, or positions the reconciler, has left
  work,    \* linked orders the close has left to cancel
  exited   \* history: positions the loop closed at market or found flat

localVars  == <<pc, cur, fresh, src, tpToo, batch, work>>
engineVars == <<queue, localVars, exited>>
vars       == <<stateVars, engineVars>>

Steps ==
  {"idle", "validate", "submit", "saveResting", "saveFilled", "register",
   "monitor", "persist", "placeSL", "saveSL", "placeTP", "saveTP",
   "emergency", "emergencyRemove", "poll", "cancelEntry", "dropPending",
   "closeRead", "closeSubmit", "closeCancel", "closeForget", "closeRemove",
   "down", "verify"}

TypeOK ==
  /\ StateTypeOK
  /\ queue \in SUBSET (Decisions \cup Closes)
  /\ pc \in Steps
  /\ cur \in Decisions \cup Closes \cup {None}
  /\ fresh \in LegIds \cup {None}
  /\ src \in {"execute", "sweep", "reconcile"}
  /\ tpToo \in BOOLEAN
  /\ batch \in SUBSET Decisions
  /\ work \in SUBSET LegIds
  /\ exited \in SUBSET Decisions

Idle(q) ==
  /\ queue = q /\ pc = "idle" /\ cur = None /\ fresh = None
  /\ src = "execute" /\ tpToo = TRUE /\ batch = {} /\ work = {}
  /\ exited = {}

Init == StateInit /\ Idle(Decisions \cup Closes)

\* The loop moves from one await to another; back at the top it is on nothing.
Move(from, to) ==
  /\ pc = from
  /\ pc' = to
  /\ cur' = IF to = "idle" THEN None ELSE cur
  /\ src' = IF to = "idle" THEN "execute" ELSE src
  /\ tpToo' = (to = "idle" \/ tpToo)

GotoExiting(from, to, gone) ==
  /\ Move(from, to)
  /\ exited' = exited \cup gone
  /\ UNCHANGED <<queue, fresh, batch, work>>

Goto(from, to) == GotoExiting(from, to, {})

\* Where the placement code returns to.
Caller == IF src = "execute" THEN "idle"
          ELSE IF src = "sweep" THEN "dropPending" ELSE "verify"

\* Mutants of OnStopFailure: the failure is only logged; or, as for a failing
\* take-profit, the bracket goes on to its next leg.
StopFailureIgnored  == Caller
StopFailureGoesOn   == "placeTP"

\* Where a failing stop-loss leads: the engine closes, the reconciler goes on.
OnStopFailure == IF src = "reconcile" THEN "verify" ELSE "emergency"
-----------------------------------------------------------------------------
(* execute(): a decision taken from the queue.                             *)

\* brpop times out and no pullback entry rests: the loop goes round.
NothingToDo == pc = "idle" /\ queue = {} /\ pending = {} /\ UNCHANGED vars

\* brpop: from here on the decision exists only in the loop's memory.
Dequeue(d) ==
  /\ pc = "idle" /\ d \in queue
  /\ queue' = queue \ {d}
  /\ pc' = IF d \in Closes THEN "closeRead" ELSE "validate"
  /\ cur' = d /\ src' = "execute"
  /\ UNCHANGED <<stateVars, fresh, tpToo, batch, work, exited>>

\* Unparsable, stale, rejected by the risk validator, or sized to zero.
Reject ==
  /\ \E step \in {"validate", "closeRead"} : Goto(step, "idle")
  /\ UNCHANGED stateVars

\* ExposureLimiter.check_exposure counts stored positions and nothing else.
ExposureAllowed(s) ==
  /\ Cardinality(saved) < MaxPositions
  /\ \A p \in saved : SymbolOf[p] # s

Validate ==
  /\ Goto("validate", "submit")
  /\ ExposureAllowed(SymbolOf[cur])
  /\ UNCHANGED stateVars

\* create_order of the entry: the answer says NEW, FILLED, or never comes.
SubmitEntry ==
  \E r \in Outcomes, status \in {"new", "filled"} :
    /\ Call(r)
    /\ Goto("submit", IF r # "ok" THEN "idle"
                   ELSE IF status = "new" THEN "saveResting" ELSE "saveFilled")
    /\ IF Lands(r)
       THEN /\ entry' = [entry EXCEPT ![cur] = status]
            /\ net' = IF status = "new" THEN net
                      ELSE [net EXCEPT ![SymbolOf[cur]] = @ + Qty]
       ELSE UNCHANGED <<entry, net>>
    /\ UNCHANGED <<leg, redisVars, due>>

\* The exchange refuses the entry (margin, filters).
EntryRefused ==
  /\ Goto("submit", "idle")
  /\ UNCHANGED stateVars

\* _save_open_order: a failure is logged and the flow goes on.
SaveEntry ==
  \E r \in Outcomes :
    /\ Call(r)
    /\ \/ Goto("saveFilled", "persist")
       \/ Goto("saveResting", IF cur \in Pullback THEN "register" ELSE "monitor")
    /\ entryRec' = IF Lands(r) THEN entryRec \cup {cur} ELSE entryRec
    /\ UNCHANGED <<exchangeVars, saved, pending, linked, imported, due>>

\* _register_pending_entry: the sweep takes over, execute returns SUBMITTED.
Register ==
  \E r \in Outcomes :
    /\ Call(r)
    /\ Goto("register", "idle")
    /\ pending' = IF Lands(r) THEN pending \cup {cur} ELSE pending
    /\ UNCHANGED <<exchangeVars, saved, entryRec, linked, imported, due>>

\* wait_for_completion polls until the entry has filled ...
MonitorFilled ==
  /\ Goto("monitor", "persist")
  /\ entry[cur] = "filled"
  /\ UNCHANGED stateVars

\* ... or gives up after timeout_s, or sees it cancelled.
MonitorStops ==
  /\ Goto("monitor", "idle")
  /\ UNCHANGED stateVars
-----------------------------------------------------------------------------
(* _on_order_filled and _place_protective_orders.                          *)

\* update_position of the filled entry.
Persist ==
  \E r \in Outcomes :
    /\ Call(r)
    /\ pc = "persist"
    /\ pc' = IF r = "ok" THEN "placeSL" ELSE "emergency"
    /\ tpToo' = TRUE
    /\ saved' = IF Lands(r) THEN saved \cup {cur} ELSE saved
    /\ UNCHANGED <<exchangeVars, pending, entryRec, linked, imported, due>>
    /\ UNCHANGED <<queue, cur, fresh, src, batch, work, exited>>

\* create_order of a protective order that reaches the exchange.
PlaceLeg(kind, step, saveStep, onFailure) ==
  /\ pc = step
  /\ \E r \in {"ok", "lost"}, l \in Unused(cur, kind) :
       /\ Call(r)
       /\ Move(step, IF r = "ok" THEN saveStep ELSE onFailure)
       /\ fresh' = IF r = "ok" THEN l ELSE fresh
       /\ leg' = [leg EXCEPT ![l] = "new"]
       /\ UNCHANGED <<entry, net, redisVars, due, queue, batch, work, exited>>

\* It fails; with nothing to reduce the exchange refuses it by itself.
LegNotPlaced(step, onFailure) ==
  /\ \/ Goto(step, onFailure) /\ Call("failed")
     \/ /\ GotoExiting(step, onFailure, {cur})
        /\ net[SymbolOf[cur]] = 0
        /\ faults' = faults
  /\ UNCHANGED <<exchangeVars, redisVars, due>>

\* _save_linked_order.
SaveLeg(step, onSuccess, onFailure) ==
  \E r \in Outcomes :
    /\ Call(r)
    /\ Move(step, IF r = "ok" THEN onSuccess ELSE onFailure)
    /\ fresh' = None
    /\ linked' = IF Lands(r) THEN linked \cup {fresh} ELSE linked
    /\ UNCHANGED <<exchangeVars, saved, pending, entryRec, imported, due>>
    /\ UNCHANGED <<queue, batch, work, exited>>

PlaceStop ==
  \/ PlaceLeg("sl", "placeSL", "saveSL", OnStopFailure)
  \/ LegNotPlaced("placeSL", OnStopFailure)

SaveStop ==
  SaveLeg("saveSL", IF tpToo THEN "placeTP" ELSE Caller, OnStopFailure)

\* A take-profit that cannot be placed leaves the position half-bracketed.
PlaceTakeProfit ==
  \/ PlaceLeg("tp", "placeTP", "saveTP", Caller)
  \/ LegNotPlaced("placeTP", Caller)

SaveTakeProfit == SaveLeg("saveTP", Caller, Caller)

\* _emergency_close: a reduce-only MARKET order, then remove_position.
EmergencyClose ==
  \E r \in Outcomes :
    /\ Call(r)
    /\ GotoExiting("emergency", IF r = "ok" THEN "emergencyRemove" ELSE Caller,
                   IF Lands(r) THEN {cur} ELSE {})
    /\ net[SymbolOf[cur]] > 0
    /\ net' = IF Lands(r) THEN [net EXCEPT ![SymbolOf[cur]] = Reduced(@)] ELSE net
    /\ UNCHANGED <<entry, leg, redisVars, due>>

EmergencyRefused ==
  /\ GotoExiting("emergency", Caller, {cur})
  /\ net[SymbolOf[cur]] = 0
  /\ UNCHANGED stateVars

RemovePosition(step, next) ==
  \E r \in Outcomes :
    /\ Call(r)
    /\ Goto(step, next)
    /\ saved' = IF Lands(r) THEN saved \ {cur} ELSE saved
    /\ UNCHANGED <<exchangeVars, pending, entryRec, linked, imported, due>>

EmergencyRemove == RemovePosition("emergencyRemove", Caller)
-----------------------------------------------------------------------------
(* process_pending_entries: the sweep over resting pullback entries.       *)

\* Mutant: the sweep runs only in a cycle that also finds a decision.
SweepWithDecision ==
  /\ pc = "idle" /\ pending # {} /\ queue # {}
  /\ pc' = "poll" /\ batch' = pending /\ src' = "sweep"
  /\ UNCHANGED <<stateVars, queue, cur, fresh, tpToo, work, exited>>

StartSweep ==
  /\ pc = "idle" /\ pending # {}
  /\ pc' = "poll" /\ batch' = pending /\ src' = "sweep"
  /\ UNCHANGED <<stateVars, queue, cur, fresh, tpToo, work, exited>>

\* get_order answered: go and handle entry d.
Poll(d, next) ==
  /\ pc = "poll" /\ d \in batch
  /\ pc' = next /\ batch' = batch \ {d} /\ cur' = d
  /\ UNCHANGED <<stateVars, queue, fresh, src, tpToo, work, exited>>

\* Mutants: a filled entry is taken for a finished one; so is a part-filled one.
FilledIsTerminal(d) == entry[d] = "filled" /\ Poll(d, "dropPending")
PartIsTerminal(d)   == entry[d] \in {"cancelled", "part"} /\ Poll(d, "dropPending")

PollFilled(d)   == entry[d] = "filled" /\ Poll(d, "persist")
PollDue(d)      == entry[d] = "new" /\ d \in due /\ Poll(d, "cancelEntry")
PollTerminal(d) == entry[d] = "cancelled" /\ Poll(d, "dropPending")

\* Resting and not due, partly filled, or get_order failed: leave it.
PollLeave(d) ==
  /\ pc = "poll" /\ d \in batch
  /\ \/ /\ entry[d] = "part" \/ (entry[d] = "new" /\ d \notin due)
        /\ faults' = faults
     \/ Call("failed")
  /\ batch' = batch \ {d}
  /\ UNCHANGED <<exchangeVars, redisVars, due>>
  /\ UNCHANGED <<queue, pc, cur, fresh, src, tpToo, work, exited>>

EndSweep ==
  /\ Goto("poll", "idle")
  /\ batch = {}
  /\ UNCHANGED stateVars

\* _expire_pending_entry: whatever cancel_order says, the entry is dropped.
CancelEntry ==
  \E r \in Outcomes :
    /\ Call(r)
    /\ Goto("cancelEntry", "dropPending")
    /\ entry[cur] \in {"new", "part"}
    /\ entry' = IF Lands(r) THEN [entry EXCEPT ![cur] = "cancelled"] ELSE entry
    /\ UNCHANGED <<leg, net, redisVars, due>>

CancelRefused ==
  /\ Goto("cancelEntry", "dropPending")
  /\ entry[cur] \notin {"new", "part"}
  /\ UNCHANGED stateVars

\* Mutant: the swept entry is not removed.
KeepPending == Goto("dropPending", "poll") /\ UNCHANGED stateVars

\* remove_pending_entry.
DropPending ==
  \E r \in Outcomes :
    /\ Call(r)
    /\ Goto("dropPending", "poll")
    /\ pending' = IF Lands(r) THEN pending \ {cur} ELSE pending
    /\ UNCHANGED <<exchangeVars, saved, entryRec, linked, imported, due>>
-----------------------------------------------------------------------------
(* _close_position: a CLOSE decision.                                      *)

\* get_position returns one of the stored positions of the symbol.
CloseRead ==
  \E p \in saved :
    /\ pc = "closeRead" /\ SymbolOf[p] = SymbolOf[cur]
    /\ pc' = "closeSubmit" /\ cur' = p
    /\ UNCHANGED <<stateVars, queue, fresh, src, tpToo, batch, work, exited>>

\* create_order of the exit; then get_by_position reads the linked orders.
CloseSubmit ==
  \E r \in Outcomes, list \in {"ok", "failed"} :
    /\ r # "ok" => list = "ok"
    /\ faults' = faults + Cost(r) + Cost(list) /\ faults' <= MaxFaults
    /\ Move("closeSubmit", IF r = "ok" THEN "closeCancel" ELSE "idle")
    /\ net[SymbolOf[cur]] > 0
    /\ net' = IF Lands(r) THEN [net EXCEPT ![SymbolOf[cur]] = Reduced(@)] ELSE net
    /\ exited' = IF Lands(r) THEN exited \cup {cur} ELSE exited
    /\ work' = IF r = "ok" /\ list = "ok" THEN {l \in linked : l[1] = cur} ELSE {}
    /\ UNCHANGED <<entry, leg, redisVars, due, queue, fresh, batch>>

CloseRefused ==
  /\ GotoExiting("closeSubmit", "idle", {cur})
  /\ net[SymbolOf[cur]] = 0
  /\ UNCHANGED stateVars

\* _cancel_linked_orders, one order: cancel_order, whatever comes of it ...
CloseCancel ==
  \E l \in work, r \in Outcomes :
    /\ Call(r)
    /\ leg[l] # "new" => r = "ok"
    /\ pc = "closeCancel" /\ pc' = "closeForget"
    /\ fresh' = l /\ work' = work \ {l}
    /\ leg' = IF leg[l] = "new" /\ Lands(r) THEN [leg EXCEPT ![l] = "cancelled"] ELSE leg
    /\ UNCHANGED <<entry, net, redisVars, due>>
    /\ UNCHANGED <<queue, cur, src, tpToo, batch, exited>>

\* ... and then remove_order drops the local record.
CloseForget ==
  \E r \in Outcomes :
    /\ Call(r)
    /\ pc = "closeForget" /\ pc' = "closeCancel"
    /\ fresh' = None
    /\ linked' = IF Lands(r) THEN linked \ {fresh} ELSE linked
    /\ UNCHANGED <<exchangeVars, saved, pending, entryRec, imported, due>>
    /\ UNCHANGED <<queue, cur, src, tpToo, batch, work, exited>>

\* Mutant: the close removes the position without withdrawing its orders.
CloseWithoutCancelling == Goto("closeCancel", "closeRemove") /\ UNCHANGED stateVars

CloseCancelled ==
  /\ Goto("closeCancel", "closeRemove")
  /\ work = {}
  /\ UNCHANGED stateVars

CloseRemove == RemovePosition("closeRemove", "idle")
-----------------------------------------------------------------------------
(* Process death, restart and reconciliation.                              *)

\* Mutant: the decision in hand is put back on the queue, to be tried again.
CrashRequeues ==
  /\ pc # "down"
  /\ Call("failed")
  /\ pc' = "down" /\ cur' = None /\ fresh' = None /\ src' = "execute"
  /\ tpToo' = TRUE /\ batch' = {} /\ work' = {}
  /\ queue' = queue \cup ({cur} \ {None})
  /\ UNCHANGED <<exchangeVars, redisVars, due, exited>>

\* Everything the loop held in memory is lost; Redis and the exchange stay.
Crash ==
  /\ pc # "down"
  /\ Call("failed")
  /\ pc' = "down" /\ cur' = None /\ fresh' = None /\ src' = "execute"
  /\ tpToo' = TRUE /\ batch' = {} /\ work' = {}
  /\ UNCHANGED <<exchangeVars, redisVars, due, queue, exited>>

\* _reconcile_orders: import what the exchange holds and Redis does not,
\* unlinked, and forget what the exchange no longer holds.
ReconcileOrders ==
  /\ pc = "down"
  /\ pc' = "verify" /\ batch' = saved /\ src' = "reconcile"
  /\ entryRec' = RestingEntries
  /\ imported' = RestingLegs \ linked
  /\ linked' = linked \cap RestingLegs
  /\ UNCHANGED <<exchangeVars, saved, pending, due, faults>>
  /\ UNCHANGED <<queue, cur, fresh, tpToo, work, exited>>

\* A call of it fails part-way: some imports, or all of them and some
\* removals, were done, and the loops start all the same.
ReconcileFails ==
  LET local == linked \cup imported \cup entryRec
      open  == RestingLegs \cup RestingEntries
  IN  /\ Goto("down", "idle")
      /\ Call("failed")
      /\ \E add \in SUBSET (open \ local), drop \in SUBSET (local \ open) :
           /\ drop # {} => add = open \ local
           /\ imported' = (imported \cup (add \cap LegIds)) \ drop
           /\ linked' = linked \ drop
           /\ entryRec' = (entryRec \cup (add \cap Decisions)) \ drop
      /\ UNCHANGED <<exchangeVars, saved, pending, due>>

Linked(d, kind) == LegsOf(d, kind) \cap linked # {}

\* _verify_protective_orders: re-place the legs no linked order stands for.
Verify(d) ==
  /\ pc = "verify" /\ d \in batch
  /\ batch' = batch \ {d} /\ cur' = d
  /\ pc' = IF ~Linked(d, "sl") THEN "placeSL"
           ELSE IF ~Linked(d, "tp") THEN "placeTP" ELSE "verify"
  /\ tpToo' = ~Linked(d, "tp")
  /\ UNCHANGED <<stateVars, queue, fresh, src, work, exited>>

\* get_all or get_by_position fails: reconcile() returns success=False.
VerifyFails ==
  /\ Move("verify", "idle")
  /\ Call("failed")
  /\ batch' = {}
  /\ UNCHANGED <<exchangeVars, redisVars, due, queue, fresh, work, exited>>

Reconciled ==
  /\ Goto("verify", "idle")
  /\ batch = {}
  /\ UNCHANGED stateVars
-----------------------------------------------------------------------------
Execute ==
  \/ \E d \in Decisions \cup Closes : Dequeue(d)
  \/ Reject \/ Validate \/ SubmitEntry \/ EntryRefused \/ SaveEntry
  \/ Register \/ MonitorFilled \/ MonitorStops \/ NothingToDo

Protect ==
  \/ Persist \/ PlaceStop \/ SaveStop \/ PlaceTakeProfit \/ SaveTakeProfit
  \/ EmergencyClose \/ EmergencyRefused \/ EmergencyRemove

Sweep ==
  \/ StartSweep \/ EndSweep \/ CancelEntry \/ CancelRefused \/ DropPending
  \/ \E d \in Decisions :
       PollFilled(d) \/ PollDue(d) \/ PollTerminal(d) \/ PollLeave(d)

Close ==
  \/ CloseRead \/ CloseSubmit \/ CloseRefused \/ CloseCancel
  \/ CloseForget \/ CloseCancelled \/ CloseRemove

Reconcile ==
  \/ ReconcileOrders \/ ReconcileFails \/ VerifyFails \/ Reconciled
  \/ \E d \in Decisions : Verify(d)

EngineStep == Execute \/ Protect \/ Sweep \/ Close \/ Reconcile

Next == \/ EngineStep
        \/ Crash
        \/ Environment /\ UNCHANGED engineVars

Spec == Init /\ [][Next]_vars

\* The event loop keeps running the execution loop.
FairSpec == Spec /\ WF_vars(EngineStep)
-----------------------------------------------------------------------------
(* Properties.                                                             *)

AtRest == pc = "idle"

\* The statuses of a protective order the bot has placed and not withdrawn.
Kept == {"new", "filled", "expired"}

Standing(d, kind) == \E l \in LegsOf(d, kind) : leg[l] \in Kept

\* With at most one failing call or crash so far, a loop at the top of its
\* cycle leaves no stored position without a stop-loss it has placed and not
\* withdrawn, unless it has exited the position (_on_order_filled,
\* _emergency_close, _verify_protective_orders).
OpenPositionsAreProtected ==
  AtRest /\ faults <= 1 => \A d \in saved \ exited : Standing(d, "sl")

\* However many calls fail, and across crashes, a take-profit is only ever
\* sent for a position whose stop-loss stands: no position is left with a
\* profit target and no bound on its loss (_place_protective_orders,
\* _place_protective_subset).
StopBeforeTarget ==
  [][\A d \in Decisions : \A l \in LegsOf(d, "tp") :
       leg[l] = "none" /\ leg'[l] = "new" => Standing(d, "sl")]_vars

\* When nothing fails, no position ever gets a second stop-loss or a second
\* take-profit, although the sweep, execute and the fills of two entries
\* interleave (process_pending_entries, _on_order_filled).
OneBracket ==
  faults = 0 => \A d \in Decisions, k \in Kinds :
    Cardinality({l \in LegsOf(d, k) : leg[l] # "none"}) <= 1

\* When nothing fails, a protective order never outlives, on the exchange, the
\* position it protects (_close_position, _cancel_linked_orders): a stray
\* reduce-only order would act on the next position of the symbol.
NoOrphanLegs ==
  AtRest /\ faults = 0 => \A l \in RestingLegs : l[1] \in saved

\* When nothing fails, every pullback limit resting on the exchange is under
\* the sweep, so it will be either protected or withdrawn
\* (_register_pending_entry, _process_pending_entry).
PullbackTracked ==
  AtRest /\ faults = 0 => Pullback \cap RestingEntries \subseteq pending

\* When nothing fails, a pullback limit past its expiry is withdrawn or filled
\* in the end, whatever decisions keep the loop busy.  One alone may rest on: a
\* limit that a part fill has reached, which the sweep leaves to the exchange
\* (_process_pending_entry) and must keep tracking while it does.
DueIsSettled ==
  \A d \in Decisions :
    (d \in pending /\ d \in due)
      ~> \/ entry[d] \in {"cancelled", "filled"}
         \/ entry[d] = "part" /\ d \in pending

\* A pullback entry that is filled when the loop starts its cycle ends with a
\* stop-loss, or with the position exited (_process_pending_entry).
FilledPullbackIsProtected ==
  \A d \in Decisions :
    (AtRest /\ d \in pending /\ entry[d] = "filled")
      ~> (Standing(d, "sl") \/ d \in exited)
-----------------------------------------------------------------------------
(* Why the first two hold: an inductive invariant, by parts.               *)

EntrySteps   == {"validate", "submit", "saveResting", "saveFilled", "register",
                 "monitor"}
ProtectSteps == {"persist", "placeSL", "saveSL", "placeTP", "saveTP",
                 "emergency", "emergencyRemove"}
SweepSteps   == {"poll", "cancelEntry", "dropPending"}
CloseSteps   == {"closeSubmit", "closeCancel", "closeForget", "closeRemove"}

\* Past the queue, the loop works on a position or an entry.
CurInv ==
  pc \in EntrySteps \cup ProtectSteps \cup CloseSteps
         \cup {"cancelEntry", "dropPending"}
    => cur \in Decisions

\* Each part of the loop runs for its own caller.
SrcInv ==
  /\ pc \in EntrySteps \cup CloseSteps \cup {"idle", "down", "closeRead"}
       => src = "execute"
  /\ pc \in SweepSteps => src = "sweep"
  /\ pc = "verify" => src = "reconcile"
  /\ pc \in {"persist", "emergency", "emergencyRemove"} => src # "reconcile"

\* The order about to be stored is a standing leg of the position in hand.
FreshInv ==
  /\ pc = "saveSL" => fresh \in LegsOf(cur, "sl") /\ leg[fresh] \in Kept
  /\ pc = "saveTP" => fresh \in LegsOf(cur, "tp") /\ leg[fresh] \in Kept

\* Legs are withdrawn from exited positions only.
CloseInv ==
  /\ pc \in {"closeCancel", "closeForget", "closeRemove", "emergencyRemove"}
       => cur \in exited
  /\ pc \in {"closeCancel", "closeForget"} => \A l \in work : l[1] = cur
  /\ pc = "emergency" => faults >= 1 \/ cur \in exited

\* Reconciliation follows a crash, and then linked orders are standing ones.
ReconcileInv ==
  /\ pc = "down" \/ src = "reconcile" => faults >= 1
  /\ src = "reconcile" => \A l \in linked : leg[l] \in Kept

TargetInv == pc = "placeTP" => Standing(cur, "sl")

\* The loop still has position d to protect, or to exit.
InHand(d) ==
  \/ pc \in {"placeSL", "emergency"} /\ cur = d
  \/ pc = "down"
  \/ src = "reconcile" /\ d \in batch

CoverInv ==
  \A d \in saved : Standing(d, "sl") \/ d \in exited \/ InHand(d) \/ faults >= 2

IInv ==
  /\ TypeOK
  /\ CurInv /\ SrcInv /\ FreshInv /\ CloseInv /\ ReconcileInv /\ TargetInv
  /\ CoverInv
=============================================================================
