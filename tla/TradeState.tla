----------------------------- MODULE TradeState -----------------------------
(***************************************************************************)
(* What the trading loops of kavzi_trader share: the futures exchange they *)
(* call (external) and the state they keep in Redis (spine/state).         *)
(*                                                                         *)
(* An entry order, the position it opens and the pending-entry record of a *)
(* pullback carry the id of the decision they come from, so the three are  *)
(* indexed by decision.  The protective orders of a position are indexed   *)
(* by <<position, kind, slot>>.  Decisions on one symbol share a direction:*)
(* net[s] counts units of exposure, and opposite netting is left out.      *)
(***************************************************************************)
EXTENDS Integers, FiniteSets

CONSTANTS
  Decisions,  \* ids of LONG/SHORT decisions
  Symbols,    \* the traded symbols
  SymbolOf,   \* the symbol of each decision, open or close
  Closes,     \* ids of CLOSE decisions
  Slots,      \* how many orders of one kind a position may ever get (bound)
  Qty,        \* units one entry order buys; above 1 it may fill in two parts
  MaxFaults   \* bound on failing calls and crashes in one behaviour

ASSUME StateAssumption ==
  /\ SymbolOf \in [Decisions \cup Closes -> Symbols]
  /\ Qty \in Nat \ {0}
  /\ MaxFaults \in Nat

Kinds  == {"sl", "tp"}
LegIds == Decisions \X Kinds \X Slots

EntryStatus == {"none", "new", "part", "filled", "cancelled"}
LegStatus   == {"none", "new", "filled", "expired", "cancelled"}

VARIABLES
  entry,     \* exchange: status of the entry order of each decision
  leg,       \* exchange: status of each protective order
  net,       \* exchange: units of open exposure per symbol
  saved,     \* Redis: positions in the position store
  pending,   \* Redis: resting pullback entries under sweep
  due,       \* pullback entries whose expires_at_ms has passed
  entryRec,  \* Redis: entry orders in the order store
  linked,    \* Redis: protective orders stored with linked_position_id
  imported,  \* Redis: protective orders imported with linked_position_id=None
  faults     \* failing calls and crashes so far

exchangeVars == <<entry, leg, net>>
redisVars    == <<saved, pending, entryRec, linked, imported>>
stateVars    == <<exchangeVars, redisVars, due, faults>>

StateTypeOK ==
  /\ entry \in [Decisions -> EntryStatus]
  /\ leg \in [LegIds -> LegStatus]
  /\ net \in [Symbols -> Nat]
  /\ saved \in SUBSET Decisions
  /\ pending \in SUBSET Decisions
  /\ due \in SUBSET Decisions
  /\ entryRec \in SUBSET Decisions
  /\ linked \in SUBSET LegIds
  /\ imported \in SUBSET LegIds
  /\ faults \in 0..MaxFaults

StateInit ==
  /\ entry = [d \in Decisions |-> "none"]
  /\ leg = [l \in LegIds |-> "none"]
  /\ net = [s \in Symbols |-> 0]
  /\ saved = {} /\ pending = {} /\ due = {}
  /\ entryRec = {} /\ linked = {} /\ imported = {}
  /\ faults = 0

-----------------------------------------------------------------------------
(* Remote calls.  A call to the exchange or to Redis returns ("ok"), fails *)
(* without effect ("failed"), or takes effect and fails to answer ("lost").*)

Outcomes == {"ok", "failed", "lost"}
Lands(r) == r # "failed"
Cost(r)  == IF r = "ok" THEN 0 ELSE 1

Call(r) == /\ faults' = faults + Cost(r)
           /\ faults' <= MaxFaults

LegsOf(d, kind) == {l \in LegIds : l[1] = d /\ l[2] = kind}
Unused(d, kind) == {l \in LegsOf(d, kind) : leg[l] = "none"}
LegSymbol(l)    == SymbolOf[l[1]]

RestingEntries == {d \in Decisions : entry[d] \in {"new", "part"}}
RestingLegs    == {l \in LegIds : leg[l] = "new"}

\* Mutant: the order is not reduce-only.
SoldThrough(n) == n - Qty

\* The exposure left after a reduce-only order of one entry's size executes.
Reduced(n) == IF n <= Qty THEN 0 ELSE n - Qty

-----------------------------------------------------------------------------
(* The exchange and the clock.                                             *)

\* A resting entry order executes its first unit.
EntryFillsPart(d) ==
  /\ entry[d] = "new" /\ Qty > 1
  /\ entry' = [entry EXCEPT ![d] = "part"]
  /\ net' = [net EXCEPT ![SymbolOf[d]] = @ + 1]
  /\ UNCHANGED <<leg, redisVars, due, faults>>

\* A resting entry order executes what is left of it.
EntryFills(d) ==
  /\ entry[d] \in {"new", "part"}
  /\ entry' = [entry EXCEPT ![d] = "filled"]
  /\ net' = [net EXCEPT ![SymbolOf[d]] =
                @ + (IF entry[d] = "new" THEN Qty ELSE Qty - 1)]
  /\ UNCHANGED <<leg, redisVars, due, faults>>

\* The price reaches a stop-loss or a take-profit: reduce-only execution.
LegTriggers(l) ==
  /\ leg[l] = "new" /\ net[LegSymbol(l)] > 0
  /\ leg' = [leg EXCEPT ![l] = "filled"]
  /\ net' = [net EXCEPT ![LegSymbol(l)] = Reduced(@)]
  /\ UNCHANGED <<entry, redisVars, due, faults>>

\* The exchange may expire a reduce-only order that has nothing to reduce.
LegExpires(l) ==
  /\ leg[l] = "new" /\ net[LegSymbol(l)] = 0
  /\ leg' = [leg EXCEPT ![l] = "expired"]
  /\ UNCHANGED <<entry, net, redisVars, due, faults>>

\* The clock passes the expires_at_ms of a pending entry.
ExpiryPasses(d) ==
  /\ d \in pending /\ d \notin due
  /\ due' = due \cup {d}
  /\ UNCHANGED <<exchangeVars, redisVars, faults>>

Environment ==
  \/ \E d \in Decisions : EntryFillsPart(d) \/ EntryFills(d) \/ ExpiryPasses(d)
  \/ \E l \in LegIds : LegTriggers(l) \/ LegExpires(l)

=============================================================================
