----------------------- MODULE ExecutionRefinementProofs -----------------------
(***************************************************************************)
(* ExecutionEngine implements TradeLifecycle: for any number of decisions, *)
(* symbols, failing calls and crashes.                                     *)
(*                                                                         *)
(* IInv does not suffice: a step of the placement code advances a trade    *)
(* only because its entry has filled, which LifeInv keeps track of, from   *)
(* the poll or the answer that said so, across Redis and a restart, to the *)
(* order that is placed.                                                   *)
(***************************************************************************)
EXTENDS ExecutionRefinement, ExecutionEngineProofs

\* What is queued was never sent, what is in hand to be protected, stored or to
\* be verified has filled, and a stop was sent before a target.
LifeInv ==
  /\ \A d \in Decisions \cap queue : entry[d] = "none"
  /\ pc \in {"validate", "submit"} => cur \notin queue /\ entry[cur] = "none"
  /\ pc \in ProtectSteps \cup {"saveFilled"} => entry[cur] = "filled"
  /\ \A d \in saved : entry[d] = "filled"
  /\ src = "reconcile" => \A d \in batch : entry[d] = "filled"
  /\ \A l \in LegIds : leg[l] # "none" => entry[l[1]] = "filled"
  /\ \A d \in Decisions : Sent(d, "tp") => Sent(d, "sl")

-----------------------------------------------------------------------------
(* A protective order, once sent, has been sent.                           *)

\* Where no leg changes from or to "none", the same legs have been sent.
LEMMA SentKept ==
  ASSUME \A l \in LegIds : leg'[l] # "none" <=> leg[l] # "none"
  PROVE  \A d \in Decisions, k \in Kinds : Sent(d, k)' <=> Sent(d, k)
  BY DEF Sent, LegsOf

\* A leg that is placed is the only one that is new among the sent.
LEMMA SentAfter ==
  ASSUME TypeOK, NEW d \in Decisions, NEW kind \in Kinds, NEW l \in Unused(d, kind),
         leg' = [leg EXCEPT ![l] = "new"]
  PROVE  /\ Sent(d, kind)'
         /\ \A e \in Decisions, k \in Kinds : e # d \/ k # kind => (Sent(e, k)' <=> Sent(e, k))
  <1>1. l \in LegIds /\ l[1] = d /\ l[2] = kind
    BY DEF Unused, LegsOf
  <1>2. leg \in [LegIds -> LegStatus]
    BY DEF TypeOK, StateTypeOK
  <1>3. QED  BY <1>1, <1>2 DEF Sent, LegsOf

\* The first part of a protective order's name is its position.
LEMMA LegDecision == \A l \in LegIds : l[1] \in Decisions
  BY DEF LegIds

\* Every decision is queued and none was sent.
LEMMA InitLife == Init => LifeInv
  BY DEF Init, Idle, StateInit, LifeInv, Sent, LegsOf, ProtectSteps

\* Steps that touch neither legs, entries, records nor the queue.
LEMMA LifeQuiet ==
  ASSUME LifeInv, UNCHANGED <<queue, entry, leg>>, saved' \subseteq saved,
         pc' \in {"validate", "submit"} => cur' = cur /\ pc \in {"validate", "submit"},
         pc' \in ProtectSteps \cup {"saveFilled"} => entry[cur'] = "filled",
         src' = "reconcile" => \A d \in batch' : entry[d] = "filled"
  PROVE  LifeInv'
  <1>1. \A d \in Decisions : Sent(d, "tp")' => Sent(d, "sl")'
    BY DEF LifeInv, Sent, LegsOf
  <1>2. QED  BY <1>1 DEF LifeInv

\* Taking a decision and sending its entry order.
LEMMA ExecuteLife == IInv /\ LifeInv /\ Execute => LifeInv'
  <1> SUFFICES ASSUME IInv, LifeInv, Execute  PROVE LifeInv'
    OBVIOUS
  <1> USE DEF IInv, CurInv, SrcInv, EntrySteps, ProtectSteps, SweepSteps, CloseSteps,
              stateVars, exchangeVars, redisVars, Goto, GotoExiting, Move
  <1>1. ASSUME NEW d \in Decisions \cup Closes, Dequeue(d)  PROVE LifeInv'
    <2>1. \A e \in Decisions : Sent(e, "tp")' => Sent(e, "sl")'
      BY <1>1 DEF Dequeue, LifeInv, Sent, LegsOf
    <2>2. QED  BY <1>1, <2>1 DEF Dequeue, LifeInv
  <1>2. CASE Reject \/ Validate \/ EntryRefused \/ MonitorStops
    BY <1>2, LifeQuiet DEF Reject, Validate, EntryRefused, MonitorStops, LifeInv
  <1>3. CASE SubmitEntry
    <2>1. \A e \in Decisions : Sent(e, "tp")' => Sent(e, "sl")'
      BY <1>3 DEF SubmitEntry, LifeInv, Sent, LegsOf
    <2>2. pc = "submit" /\ cur \in Decisions /\ cur \notin queue /\ entry[cur] = "none" /\ src = "execute"
      BY <1>3 DEF SubmitEntry, LifeInv
    <2>3. entry \in [Decisions -> EntryStatus]
      BY DEF TypeOK, StateTypeOK
    <2>4. \A e \in Decisions : (e # cur => entry'[e] = entry[e]) /\ (entry[e] = "filled" => entry'[e] = "filled")
      BY <1>3, <2>2, <2>3 DEF SubmitEntry
    <2>5. /\ pc' = "idle" \/ pc' = "saveResting" \/ (pc' = "saveFilled" /\ cur' = cur /\ entry'[cur] = "filled")
          /\ src' = "execute" /\ UNCHANGED <<queue, saved, leg>>
      BY <1>3, <2>2, <2>3 DEF SubmitEntry, Outcomes, Lands
    <2>6. \A l \in LegIds : leg'[l] # "none" => entry'[l[1]] = "filled"
      BY <2>4, <2>5, LegDecision DEF LifeInv
    <2>7. \A e \in saved : e \in Decisions
      BY DEF TypeOK, StateTypeOK
    <2>8. QED  BY <2>1, <2>2, <2>4, <2>5, <2>6, <2>7 DEF LifeInv
  <1>4. CASE SaveEntry \/ Register
    BY <1>4, LifeQuiet DEF SaveEntry, Register, LifeInv
  <1>5. CASE MonitorFilled
    BY <1>5, LifeQuiet DEF MonitorFilled, LifeInv
  <1>6. CASE NothingToDo
    BY <1>6, LifeQuiet DEF NothingToDo, LifeInv, vars, engineVars, localVars
  <1>7. QED  BY <1>1, <1>2, <1>3, <1>4, <1>5, <1>6 DEF Execute

\* A protective order is placed for an entry that filled, a take-profit after a
\* stop-loss.
LEMMA PlaceLegLife ==
  ASSUME IInv, LifeInv, NEW kind \in Kinds, NEW step, NEW saveStep, NEW onFailure,
         PlaceLeg(kind, step, saveStep, onFailure),
         pc \in ProtectSteps, kind = "tp" => Sent(cur, "sl"),
         {saveStep, onFailure} \cap {"validate", "submit", "saveFilled"} = {}
  PROVE  LifeInv'
  <1>1. PICK l \in Unused(cur, kind) : leg' = [leg EXCEPT ![l] = "new"]
    BY DEF PlaceLeg
  <1>2. cur \in Decisions /\ entry[cur] = "filled" /\ leg \in [LegIds -> LegStatus]
    BY DEF IInv, CurInv, ProtectSteps, LifeInv, TypeOK, StateTypeOK
  <1>3. l \in LegIds /\ l[1] = cur
    BY <1>1 DEF Unused, LegsOf
  <1>4. \A e \in Decisions : Sent(e, "tp")' => Sent(e, "sl")'
    BY <1>1, <1>2, SentAfter DEF IInv, LifeInv, Kinds
  <1>5. /\ UNCHANGED <<queue, entry, saved, batch>>
        /\ pc' \in {saveStep, onFailure}
        /\ pc' # "idle" => cur' = cur /\ src' = src
        /\ pc' = "idle" => src' = "execute"
    BY DEF PlaceLeg, Move, redisVars
  <1>6. \A m \in LegIds : leg'[m] # "none" => entry[m[1]] = "filled"
    BY <1>1, <1>2, <1>3 DEF LifeInv
  <1>7. QED
    BY <1>2, <1>4, <1>5, <1>6 DEF LifeInv, ProtectSteps

\* Placing and storing a bracket, or giving it up.
LEMMA ProtectLife == IInv /\ LifeInv /\ Protect => LifeInv'
  <1> SUFFICES ASSUME IInv, LifeInv, Protect  PROVE LifeInv'
    OBVIOUS
  <1> USE DEF IInv, CurInv, SrcInv, EntrySteps, ProtectSteps, SweepSteps, CloseSteps,
              stateVars, exchangeVars, redisVars, Goto, GotoExiting, Move, Caller, OnStopFailure
  <1>1. CASE Persist
    <2>1. /\ pc = "persist" /\ entry[cur] = "filled" /\ src # "reconcile" /\ cur \in Decisions
          /\ pc' \in {"placeSL", "emergency"} /\ cur' = cur /\ src' = src
          /\ saved' = saved \cup {cur} \/ saved' = saved
          /\ UNCHANGED <<queue, entry, leg>>
      BY <1>1 DEF Persist, LifeInv
    <2>2. \A e \in Decisions : Sent(e, "tp")' => Sent(e, "sl")'
      BY <2>1 DEF LifeInv, Sent, LegsOf
    <2>3. QED  BY <2>1, <2>2 DEF LifeInv
  <1>2. CASE PlaceStop
    <2>1. CASE PlaceLeg("sl", "placeSL", "saveSL", OnStopFailure)
      BY <2>1, PlaceLegLife, ZenonT(30) DEF PlaceLeg, Kinds
    <2>2. CASE LegNotPlaced("placeSL", OnStopFailure)
      BY <2>2, LifeQuiet DEF LegNotPlaced, LifeInv
    <2>3. QED  BY <1>2, <2>1, <2>2 DEF PlaceStop
  <1>3. CASE SaveStop
    BY <1>3, LifeQuiet DEF SaveStop, SaveLeg, LifeInv
  <1>4. CASE PlaceTakeProfit
    <2>1. CASE PlaceLeg("tp", "placeTP", "saveTP", Caller)
      <3>1. pc = "placeTP" /\ Sent(cur, "sl")
        BY <2>1 DEF PlaceLeg, TargetInv, Standing, Sent, Kept
      <3>2. Caller \in {"idle", "dropPending", "verify"}
        OBVIOUS
      <3> HIDE DEF Caller
      <3>3. QED  BY <2>1, <3>1, <3>2, PlaceLegLife DEF Kinds
    <2>2. CASE LegNotPlaced("placeTP", Caller)
      BY <2>2, LifeQuiet DEF LegNotPlaced, LifeInv
    <2>3. QED  BY <1>4, <2>1, <2>2 DEF PlaceTakeProfit
  <1>5. CASE SaveTakeProfit
    BY <1>5, LifeQuiet DEF SaveTakeProfit, SaveLeg, LifeInv
  <1>6. CASE EmergencyClose \/ EmergencyRefused
    BY <1>6, LifeQuiet DEF EmergencyClose, EmergencyRefused, LifeInv
  <1>7. CASE EmergencyRemove
    <2>1. saved' \subseteq saved
      BY <1>7 DEF EmergencyRemove, RemovePosition
    <2>2. QED  BY <1>7, <2>1, LifeQuiet DEF EmergencyRemove, RemovePosition, LifeInv
  <1>8. QED  BY <1>1, <1>2, <1>3, <1>4, <1>5, <1>6, <1>7 DEF Protect

\* Polling, promoting or withdrawing a resting limit.
LEMMA SweepLife == IInv /\ LifeInv /\ Sweep => LifeInv'
  <1> SUFFICES ASSUME IInv, LifeInv, Sweep  PROVE LifeInv'
    OBVIOUS
  <1> USE DEF IInv, CurInv, SrcInv, EntrySteps, ProtectSteps, SweepSteps, CloseSteps,
              stateVars, exchangeVars, redisVars, Goto, GotoExiting, Move
  <1>1. CASE StartSweep \/ EndSweep \/ CancelRefused
    BY <1>1, LifeQuiet DEF StartSweep, EndSweep, CancelRefused, LifeInv
  <1>2. CASE CancelEntry
    <2>1. \A e \in Decisions : Sent(e, "tp")' => Sent(e, "sl")'
      BY <1>2 DEF CancelEntry, LifeInv, Sent, LegsOf
    <2>2. entry \in [Decisions -> EntryStatus] /\ cur \in Decisions /\ entry[cur] \in {"new", "part"}
      BY <1>2 DEF CancelEntry, TypeOK, StateTypeOK
    <2>3. \A e \in Decisions : (e # cur => entry'[e] = entry[e]) /\ entry'[cur] \in {"new", "part", "cancelled"}
      BY <1>2, <2>2 DEF CancelEntry
    <2>4. pc' = "dropPending" /\ src' = "sweep" /\ UNCHANGED <<queue, leg, saved>>
      BY <1>2 DEF CancelEntry
    <2>5. \A l \in LegIds : leg'[l] # "none" => entry'[l[1]] = "filled"
      BY <2>2, <2>3, <2>4, LegDecision DEF LifeInv
    <2>6. \A e \in saved : e \in Decisions
      BY DEF TypeOK, StateTypeOK
    <2>7. QED  BY <2>1, <2>2, <2>3, <2>4, <2>5, <2>6 DEF LifeInv
  <1>3. CASE DropPending
    BY <1>3, LifeQuiet DEF DropPending, LifeInv
  <1>4. ASSUME NEW d \in Decisions, PollFilled(d) \/ PollDue(d) \/ PollTerminal(d) \/ PollLeave(d)
        PROVE  LifeInv'
    BY <1>4, LifeQuiet DEF PollFilled, PollDue, PollTerminal, PollLeave, Poll, LifeInv
  <1>5. QED  BY <1>1, <1>2, <1>3, <1>4 DEF Sweep

\* Closing a position at market and removing its orders.
LEMMA CloseLife == IInv /\ LifeInv /\ Close => LifeInv'
  <1> SUFFICES ASSUME IInv, LifeInv, Close  PROVE LifeInv'
    OBVIOUS
  <1> USE DEF IInv, CurInv, SrcInv, EntrySteps, ProtectSteps, SweepSteps, CloseSteps,
              stateVars, exchangeVars, redisVars, Goto, GotoExiting, Move
  <1>1. CASE CloseRead \/ CloseSubmit \/ CloseRefused \/ CloseForget \/ CloseCancelled
    BY <1>1, LifeQuiet
    DEF CloseRead, CloseSubmit, CloseRefused, CloseForget, CloseCancelled, LifeInv
  <1>2. CASE CloseCancel
    <2>1. leg \in [LegIds -> LegStatus]
      BY DEF TypeOK, StateTypeOK
    <2>2. \A l \in LegIds : leg'[l] # "none" <=> leg[l] # "none"
      BY <1>2, <2>1 DEF CloseCancel
    <2>3. \A e \in Decisions : Sent(e, "tp")' => Sent(e, "sl")'
      BY <2>2, SentKept DEF LifeInv, Kinds
    <2>4. /\ pc = "closeCancel" /\ pc' = "closeForget" /\ src = "execute"
          /\ UNCHANGED <<queue, entry, saved, cur, src>>
      BY <1>2 DEF CloseCancel, redisVars
    <2>5. QED  BY <2>2, <2>3, <2>4 DEF LifeInv
  <1>3. CASE CloseRemove
    <2>1. saved' \subseteq saved
      BY <1>3 DEF CloseRemove, RemovePosition
    <2>2. QED  BY <1>3, <2>1, LifeQuiet DEF CloseRemove, RemovePosition, LifeInv
  <1>4. QED  BY <1>1, <1>2, <1>3 DEF Close

\* Reconciliation, and a crash before it.
LEMMA RecoveryLife == IInv /\ LifeInv /\ (Reconcile \/ Crash \/ UNCHANGED vars) => LifeInv'
  <1> SUFFICES ASSUME IInv, LifeInv, Reconcile \/ Crash \/ UNCHANGED vars  PROVE LifeInv'
    OBVIOUS
  <1> USE DEF IInv, CurInv, SrcInv, EntrySteps, ProtectSteps, SweepSteps, CloseSteps,
              stateVars, exchangeVars, redisVars, Goto, GotoExiting, Move
  <1>1. CASE ReconcileOrders \/ ReconcileFails \/ VerifyFails \/ Reconciled \/ Crash
    BY <1>1, LifeQuiet DEF ReconcileOrders, ReconcileFails, VerifyFails, Reconciled, Crash, LifeInv
  <1>2. ASSUME NEW d \in Decisions, Verify(d)  PROVE LifeInv'
    BY <1>2, LifeQuiet DEF Verify, LifeInv
  <1>3. CASE UNCHANGED vars
    BY <1>3, LifeQuiet DEF vars, engineVars, localVars, LifeInv
  <1>4. QED  BY <1>1, <1>2, <1>3 DEF Reconcile

\* The exchange fills entries and keeps what has filled.
LEMMA EnvironmentLife == IInv /\ LifeInv /\ Environment /\ UNCHANGED engineVars => LifeInv'
  <1> SUFFICES ASSUME IInv, LifeInv, Environment, UNCHANGED engineVars  PROVE LifeInv'
    OBVIOUS
  <1> USE DEF engineVars, localVars, exchangeVars, redisVars
  <1>1. entry \in [Decisions -> EntryStatus] /\ leg \in [LegIds -> LegStatus]
    BY DEF IInv, TypeOK, StateTypeOK
  <1>2. ASSUME NEW d \in Decisions, EntryFillsPart(d) \/ EntryFills(d)  PROVE LifeInv'
    <2>1. \A e \in Decisions : Sent(e, "tp")' => Sent(e, "sl")'
      BY <1>2 DEF EntryFillsPart, EntryFills, LifeInv, Sent, LegsOf
    <2>2. /\ entry[d] \in {"new", "part"}
          /\ \A e \in Decisions : e # d => entry'[e] = entry[e]
          /\ UNCHANGED <<leg, saved>>
      BY <1>1, <1>2 DEF EntryFillsPart, EntryFills
    <2>3. \A m \in LegIds : leg'[m] # "none" => entry'[m[1]] = "filled"
      BY <2>2, LegDecision DEF LifeInv
    <2>4. saved \subseteq Decisions /\ batch \subseteq Decisions
      BY DEF IInv, TypeOK, StateTypeOK
    <2>5. /\ entry'[d] \in {"part", "filled"} /\ d \notin queue
          /\ pc \in {"validate", "submit"} => cur # d
      BY <1>1, <1>2, <2>2 DEF LifeInv, EntryFillsPart, EntryFills
    <2>6. pc \in EntrySteps \cup ProtectSteps => cur \in Decisions
      BY DEF IInv, CurInv
    <2>7. QED  BY <2>1, <2>2, <2>3, <2>4, <2>5, <2>6 DEF LifeInv, EntrySteps
  <1>3. ASSUME NEW d \in Decisions, ExpiryPasses(d)  PROVE LifeInv'
    BY <1>3, LifeQuiet DEF ExpiryPasses, LifeInv
  <1>4. ASSUME NEW l \in LegIds, LegTriggers(l) \/ LegExpires(l)  PROVE LifeInv'
    <2>1. \A m \in LegIds : leg'[m] # "none" <=> leg[m] # "none"
      BY <1>1, <1>4 DEF LegTriggers, LegExpires
    <2>2. \A e \in Decisions : Sent(e, "tp")' => Sent(e, "sl")'
      BY <2>1, SentKept DEF LifeInv, Kinds
    <2>3. QED  BY <1>4, <2>1, <2>2 DEF LegTriggers, LegExpires, LifeInv
  <1>5. QED  BY <1>2, <1>3, <1>4 DEF Environment

\* LifeInv holds of every behaviour.
LEMMA LifeInductive == Spec => []LifeInv
  <1>1. IInv /\ LifeInv /\ [Next]_vars => LifeInv'
    BY ExecuteLife, ProtectLife, SweepLife, CloseLife, RecoveryLife, EnvironmentLife
    DEF Next, EngineStep
  <1>2. QED  BY <1>1, InitLife, Inductive, PTL DEF Spec

-----------------------------------------------------------------------------
(* The steps of the trade.                                                 *)

PhaseFn == [d \in Decisions |-> PhaseOf(d)]

\* A decision keeps its phase while its place, its entry and what was sent stay.
LEMMA PhaseStays ==
  ASSUME NEW d \in Decisions, d \in queue' <=> d \in queue, entry'[d] = entry[d],
         \A k \in Kinds : Sent(d, k)' <=> Sent(d, k)
  PROVE  PhaseOf(d)' = PhaseOf(d)
  <1>1. (Sent(d, "tp")' <=> Sent(d, "tp")) /\ (Sent(d, "sl")' <=> Sent(d, "sl"))
    BY DEF Kinds
  <1>2. QED  BY <1>1 DEF PhaseOf

\* A step that touches neither the queue nor the exchange is none of the trade.
LEMMA PhaseQuiet ==
  ASSUME UNCHANGED <<queue, entry>>, \A l \in LegIds : leg'[l] # "none" <=> leg[l] # "none"
  PROVE  PhaseFn' = PhaseFn
  BY SentKept, PhaseStays DEF PhaseFn

\* The phases, case by case.
PhaseTable(d) ==
  /\ d \in queue => PhaseOf(d) = "queued"
  /\ d \notin queue /\ entry[d] = "none" => PhaseOf(d) = "taken"
  /\ d \notin queue /\ entry[d] = "new" => PhaseOf(d) = "resting"
  /\ d \notin queue /\ entry[d] \in {"part", "cancelled"} => PhaseOf(d) = entry[d]
  /\ d \notin queue /\ entry[d] = "filled" =>
       PhaseOf(d) = IF Sent(d, "tp") THEN "bracketed"
                    ELSE IF Sent(d, "sl") THEN "stopped" ELSE "filled"

\* PhaseOf, written as a table.
LEMMA PhaseTableHolds == \A d \in Decisions : PhaseTable(d) /\ PhaseTable(d)'
  BY DEF PhaseTable, PhaseOf, Unfilled

\* The phase of one decision moves, those of the others stay: an Advance.
LEMMA PhaseMoves ==
  ASSUME NEW d \in Decisions, NEW from, PhaseOf(d) \in from,
         \A e \in Decisions : e # d => PhaseOf(e)' = PhaseOf(e)
  PROVE  Lifecycle!Advance(d, from, PhaseOf(d)')
  BY DEF Lifecycle!Advance

\* Taking a decision from the queue.
LEMMA DequeueStep ==
  ASSUME IInv, LifeInv, NEW d \in Decisions \cup Closes, Dequeue(d)
  PROVE  [Lifecycle!LifecycleNext]_<<PhaseFn, net>>
  <1> USE DEF Dequeue, stateVars, exchangeVars, redisVars
  <1>1. \A e \in Decisions, k \in Kinds : Sent(e, k)' <=> Sent(e, k)
    BY SentKept
  <1>2. net' = net
    OBVIOUS
  <1>3. CASE d \in Decisions
    <2>1. \A e \in Decisions : e # d => PhaseOf(e)' = PhaseOf(e)
      BY <1>1, PhaseStays
    <2>2. PhaseOf(d) = "queued" /\ PhaseOf(d)' = "taken"
      BY <1>3, PhaseTableHolds DEF PhaseTable, LifeInv
    <2>3. Lifecycle!TakeUp(d)
      <3>1. Lifecycle!Advance(d, {"queued"}, PhaseOf(d)')
        BY <1>3, <2>1, <2>2, PhaseMoves
      <3>2. QED  BY <1>2, <2>2, <3>1 DEF Lifecycle!TakeUp
    <2>4. QED  BY <1>3, <2>3 DEF Lifecycle!LifecycleNext
  <1>4. CASE d \notin Decisions
    BY <1>1, <1>2, <1>4, PhaseStays DEF PhaseFn
  <1>5. QED  BY <1>3, <1>4

\* The entry order: it never reaches the exchange, rests or fills at once.
LEMMA SubmitStep ==
  ASSUME IInv, LifeInv, SubmitEntry
  PROVE  [Lifecycle!LifecycleNext]_<<PhaseFn, net>>
  <1>1. /\ cur \in Decisions /\ cur \notin queue /\ entry[cur] = "none"
        /\ UNCHANGED <<queue, leg>>
    BY DEF SubmitEntry, Goto, GotoExiting, Move, IInv, CurInv, EntrySteps, LifeInv
  <1> PICK d \in Decisions : d = cur
    BY <1>1
  <1>2. entry \in [Decisions -> EntryStatus] /\ net \in [Symbols -> Nat] /\ SymbolOf[d] \in Symbols
    BY <1>1, StateAssumption DEF IInv, TypeOK, StateTypeOK
  <1>3. \A e \in Decisions, k \in Kinds : Sent(e, k)' <=> Sent(e, k)
    BY <1>1, SentKept
  <1>4. ~ Sent(d, "tp") /\ ~ Sent(d, "sl")
    <2>1. \A l \in LegIds : l[1] = d => leg[l] = "none"
      BY <1>1 DEF LifeInv
    <2>2. QED  BY <2>1 DEF Sent, LegsOf
  <1>5. PhaseOf(d) = "taken"
    BY <1>1, PhaseTableHolds DEF PhaseTable
  <1>6. CASE entry' = entry /\ net' = net
    BY <1>1, <1>3, <1>6, PhaseStays DEF PhaseFn
  <1>7. CASE entry' = [entry EXCEPT ![d] = "new"] /\ net' = net
    <2>1. \A e \in Decisions : e # d => PhaseOf(e)' = PhaseOf(e)
      BY <1>1, <1>2, <1>3, <1>7, PhaseStays
    <2>2. PhaseOf(d)' = "resting"
      BY <1>1, <1>2, <1>7, PhaseTableHolds DEF PhaseTable
    <2>3. Lifecycle!Advance(d, {"taken"}, PhaseOf(d)')
      BY <1>1, <1>5, <2>1, PhaseMoves
    <2>4. Lifecycle!Rest(d)
      BY <1>7, <2>2, <2>3 DEF Lifecycle!Rest
    <2>5. QED  BY <1>1, <2>4 DEF Lifecycle!LifecycleNext
  <1>8. CASE entry' = [entry EXCEPT ![d] = "filled"] /\ net' = [net EXCEPT ![SymbolOf[d]] = @ + Qty]
    <2>1. \A e \in Decisions : e # d => PhaseOf(e)' = PhaseOf(e)
      BY <1>1, <1>2, <1>3, <1>8, PhaseStays
    <2>2. PhaseOf(d)' = "filled"
      BY <1>1, <1>2, <1>3, <1>4, <1>8, PhaseTableHolds DEF PhaseTable, Kinds
    <2>3. Lifecycle!Advance(d, {"taken", "resting", "part"}, PhaseOf(d)')
      BY <1>1, <1>5, <2>1, PhaseMoves
    <2>4. Lifecycle!BuyAll(d)
      BY <1>1, <1>5, <1>8, <2>2, <2>3 DEF Lifecycle!BuyAll, Lifecycle!Buy, Lifecycle!Rem
    <2>5. QED  BY <1>1, <2>4 DEF Lifecycle!LifecycleNext
  <1>9. QED  BY <1>6, <1>7, <1>8 DEF SubmitEntry, Lands

\* A resting entry order executes, in one part or two.
LEMMA FillStep ==
  ASSUME IInv, LifeInv, NEW d \in Decisions, EntryFillsPart(d) \/ EntryFills(d),
         UNCHANGED engineVars
  PROVE  [Lifecycle!LifecycleNext]_<<PhaseFn, net>>
  <1>1. entry \in [Decisions -> EntryStatus] /\ net \in [Symbols -> Nat] /\ SymbolOf[d] \in Symbols
    BY StateAssumption DEF IInv, TypeOK, StateTypeOK
  <1>2. entry[d] \in {"new", "part"} /\ d \notin queue /\ UNCHANGED <<queue, leg>>
    BY DEF EntryFillsPart, EntryFills, engineVars, LifeInv
  <1>3. \A e \in Decisions, k \in Kinds : Sent(e, k)' <=> Sent(e, k)
    BY <1>2, SentKept
  <1>4. ~ Sent(d, "tp") /\ ~ Sent(d, "sl")
    <2>1. \A l \in LegIds : l[1] = d => leg[l] = "none"
      BY <1>2 DEF LifeInv
    <2>2. QED  BY <2>1 DEF Sent, LegsOf
  <1>5. PhaseOf(d) = IF entry[d] = "new" THEN "resting" ELSE "part"
    BY <1>2, PhaseTableHolds DEF PhaseTable
  <1>6. \A e \in Decisions : e # d => PhaseOf(e)' = PhaseOf(e)
    BY <1>1, <1>2, <1>3, PhaseStays DEF EntryFillsPart, EntryFills
  <1>7. CASE EntryFillsPart(d)
    <2>1. PhaseOf(d) = "resting" /\ PhaseOf(d)' = "part"
      BY <1>1, <1>2, <1>5, <1>7, PhaseTableHolds DEF EntryFillsPart, PhaseTable
    <2>2. Lifecycle!Advance(d, {"resting"}, PhaseOf(d)')
      BY <1>6, <2>1, PhaseMoves
    <2>3. Lifecycle!BuyPart(d)
      BY <1>7, <2>1, <2>2 DEF EntryFillsPart, Lifecycle!BuyPart, Lifecycle!Buy
    <2>4. QED  BY <2>3 DEF Lifecycle!LifecycleNext
  <1>8. CASE EntryFills(d)
    <2>1. PhaseOf(d)' = "filled"
      BY <1>1, <1>2, <1>3, <1>4, <1>8, PhaseTableHolds DEF EntryFills, PhaseTable, Kinds
    <2>2. Lifecycle!Advance(d, {"taken", "resting", "part"}, PhaseOf(d)')
      BY <1>5, <1>6, PhaseMoves
    <2>3. net' = [net EXCEPT ![SymbolOf[d]] = @ + Lifecycle!Rem(d)]
      BY <1>2, <1>5, <1>8 DEF EntryFills, Lifecycle!Rem
    <2>4. Lifecycle!BuyAll(d)
      BY <2>1, <2>2, <2>3 DEF Lifecycle!BuyAll, Lifecycle!Buy
    <2>5. QED  BY <2>4 DEF Lifecycle!LifecycleNext
  <1>9. QED  BY <1>7, <1>8

\* The first stop-loss, the first take-profit, or one more of either.
LEMMA PlaceStep ==
  ASSUME IInv, LifeInv, NEW kind \in Kinds, NEW step, NEW saveStep, NEW onFailure,
         PlaceLeg(kind, step, saveStep, onFailure), pc \in ProtectSteps,
         kind = "tp" => Sent(cur, "sl")
  PROVE  [Lifecycle!LifecycleNext]_<<PhaseFn, net>>
  <1>1. cur \in Decisions
    BY DEF IInv, CurInv
  <1> PICK d \in Decisions : d = cur
    BY <1>1
  <1>2. PICK l \in Unused(d, kind) : leg' = [leg EXCEPT ![l] = "new"]
    BY DEF PlaceLeg
  <1>3. UNCHANGED <<queue, entry, net>> /\ d \notin queue /\ entry[d] = "filled"
    BY DEF PlaceLeg, redisVars, LifeInv
  <1>4. /\ Sent(d, kind)'
        /\ \A e \in Decisions, k \in Kinds : e # d \/ k # kind => (Sent(e, k)' <=> Sent(e, k))
    BY <1>2, SentAfter DEF IInv
  <1>5. \A e \in Decisions : e # d => PhaseOf(e)' = PhaseOf(e)
    BY <1>3, <1>4, PhaseStays
  <1>6. CASE Sent(d, kind) \/ (kind = "sl" /\ Sent(d, "tp"))
    <2>1. PhaseOf(d)' = PhaseOf(d)
      BY <1>3, <1>4, <1>6, PhaseTableHolds DEF PhaseTable, Kinds, LifeInv
    <2>2. QED  BY <1>3, <1>5, <2>1 DEF PhaseFn
  <1>7. CASE kind = "sl" /\ ~ Sent(d, "sl") /\ ~ Sent(d, "tp")
    <2>1. PhaseOf(d) = "filled" /\ PhaseOf(d)' = "stopped"
      BY <1>3, <1>4, <1>7, PhaseTableHolds DEF PhaseTable, Kinds
    <2>2. Lifecycle!Advance(d, {"filled"}, PhaseOf(d)')
      BY <1>5, <2>1, PhaseMoves
    <2>3. Lifecycle!Protect(d)
      BY <1>3, <2>1, <2>2 DEF Lifecycle!Protect
    <2>4. QED  BY <2>3 DEF Lifecycle!LifecycleNext
  <1>8. CASE kind = "tp" /\ ~ Sent(d, "tp")
    <2>1. PhaseOf(d) = "stopped" /\ PhaseOf(d)' = "bracketed"
      BY <1>3, <1>4, <1>8, PhaseTableHolds DEF PhaseTable, Kinds
    <2>2. Lifecycle!Advance(d, {"stopped"}, PhaseOf(d)')
      BY <1>5, <2>1, PhaseMoves
    <2>3. Lifecycle!Target(d)
      BY <1>3, <2>1, <2>2 DEF Lifecycle!Target
    <2>4. QED  BY <2>3 DEF Lifecycle!LifecycleNext
  <1>9. QED  BY <1>6, <1>7, <1>8 DEF Kinds

\* The sweep withdraws an entry that is due.
LEMMA WithdrawStep ==
  ASSUME IInv, LifeInv, CancelEntry
  PROVE  [Lifecycle!LifecycleNext]_<<PhaseFn, net>>
  <1>1. cur \in Decisions /\ entry[cur] \in {"new", "part"} /\ UNCHANGED <<queue, leg, net>>
    BY DEF CancelEntry, Goto, GotoExiting, Move, IInv, CurInv, redisVars
  <1> PICK d \in Decisions : d = cur
    BY <1>1
  <1>2. entry \in [Decisions -> EntryStatus] /\ d \notin queue
    BY <1>1 DEF IInv, TypeOK, StateTypeOK, LifeInv
  <1>3. \A e \in Decisions, k \in Kinds : Sent(e, k)' <=> Sent(e, k)
    BY <1>1, SentKept
  <1>4. CASE entry' = entry
    BY <1>1, <1>3, <1>4, PhaseStays DEF PhaseFn
  <1>5. CASE entry' = [entry EXCEPT ![d] = "cancelled"]
    <2>1. \A e \in Decisions : e # d => PhaseOf(e)' = PhaseOf(e)
      BY <1>1, <1>2, <1>3, <1>5, PhaseStays
    <2>2. PhaseOf(d) \in {"resting", "part"} /\ PhaseOf(d)' = "cancelled"
      BY <1>1, <1>2, <1>5, PhaseTableHolds DEF PhaseTable
    <2>3. Lifecycle!Advance(d, {"resting", "part"}, PhaseOf(d)')
      BY <2>1, <2>2, PhaseMoves
    <2>4. Lifecycle!Withdraw(d)
      BY <1>1, <2>2, <2>3 DEF Lifecycle!Withdraw
    <2>5. QED  BY <2>4 DEF Lifecycle!LifecycleNext
  <1>6. QED  BY <1>4, <1>5 DEF CancelEntry

\* A reduce-only order executes: no trade advances.
LEMMA ReduceStep ==
  ASSUME UNCHANGED <<queue, entry>>, \A l \in LegIds : leg'[l] # "none" <=> leg[l] # "none",
         NEW s \in Symbols, net' = net \/ (net[s] > 0 /\ net' = [net EXCEPT ![s] = Reduced(@)])
  PROVE  [Lifecycle!LifecycleNext]_<<PhaseFn, net>>
  <1>1. PhaseFn' = PhaseFn
    BY PhaseQuiet
  <1>2. CASE net' = net
    BY <1>1, <1>2
  <1>3. CASE net[s] > 0 /\ net' = [net EXCEPT ![s] = Reduced(@)]
    <2>1. Lifecycle!Reduce(s)
      BY <1>1, <1>3 DEF Lifecycle!Reduce, Reduced, PhaseFn
    <2>2. QED  BY <2>1 DEF Lifecycle!LifecycleNext
  <1>4. QED  BY <1>2, <1>3

\* The steps that are none of the trade's.
LEMMA QuietStep ==
  ASSUME UNCHANGED <<queue, entry, leg, net>>
  PROVE  [Lifecycle!LifecycleNext]_<<PhaseFn, net>>
  BY PhaseQuiet

\* The initial states map to initial states.
LEMMA InitRefines == Init => Lifecycle!LifecycleInit
  BY PhaseTableHolds DEF Init, Idle, StateInit, Lifecycle!LifecycleInit, PhaseTable

\* A step of the loop is one of the abstract steps or a stutter.
LEMMA EngineStepRefines ==
  ASSUME IInv, LifeInv, EngineStep
  PROVE  [Lifecycle!LifecycleNext]_<<PhaseFn, net>>
  <1> USE DEF Goto, GotoExiting, Move, stateVars, exchangeVars, redisVars
  <1>1. CASE Execute
    <2>1. ASSUME NEW d \in Decisions \cup Closes, Dequeue(d)
          PROVE  [Lifecycle!LifecycleNext]_<<PhaseFn, net>>
      BY <2>1, DequeueStep
    <2>2. CASE Reject \/ Validate \/ EntryRefused \/ SaveEntry \/ Register \/ MonitorFilled
               \/ MonitorStops \/ NothingToDo
      BY <2>2, QuietStep
      DEF Reject, Validate, EntryRefused, SaveEntry, Register, MonitorFilled, MonitorStops,
          NothingToDo, vars, engineVars
    <2>3. QED  BY <1>1, <2>1, <2>2, SubmitStep DEF Execute
  <1>2. CASE Protect
    <2>1. CASE PlaceLeg("sl", "placeSL", "saveSL", OnStopFailure)
      BY <2>1, PlaceStep DEF PlaceLeg, ProtectSteps, Kinds
    <2>2. CASE PlaceLeg("tp", "placeTP", "saveTP", Caller)
      <3>1. pc = "placeTP" /\ Sent(cur, "sl")
        BY <2>2 DEF PlaceLeg, IInv, TargetInv, Standing, Sent, Kept
      <3>2. QED  BY <2>2, <3>1, PlaceStep DEF ProtectSteps, Kinds
    <2>3. CASE LegNotPlaced("placeSL", OnStopFailure) \/ LegNotPlaced("placeTP", Caller)
      BY <2>3, QuietStep DEF LegNotPlaced
    <2>4. CASE EmergencyClose
      <3>1. cur \in Decisions /\ SymbolOf[cur] \in Symbols
        BY <2>4, StateAssumption DEF EmergencyClose, IInv, CurInv, ProtectSteps
      <3>2. QED  BY <2>4, <3>1, ReduceStep DEF EmergencyClose
    <2>5. CASE Persist \/ SaveStop \/ SaveTakeProfit \/ EmergencyRefused \/ EmergencyRemove
      BY <2>5, QuietStep
      DEF Persist, SaveStop, SaveTakeProfit, SaveLeg, EmergencyRefused, EmergencyRemove, RemovePosition
    <2>6. QED  BY <1>2, <2>1, <2>2, <2>3, <2>4, <2>5 DEF Protect, PlaceStop, PlaceTakeProfit
  <1>3. CASE Sweep
    <2>1. CASE StartSweep \/ EndSweep \/ CancelRefused \/ DropPending
      BY <2>1, QuietStep DEF StartSweep, EndSweep, CancelRefused, DropPending
    <2>2. ASSUME NEW d \in Decisions, PollFilled(d) \/ PollDue(d) \/ PollTerminal(d) \/ PollLeave(d)
          PROVE  [Lifecycle!LifecycleNext]_<<PhaseFn, net>>
      BY <2>2, QuietStep DEF PollFilled, PollDue, PollTerminal, PollLeave, Poll
    <2>3. QED  BY <1>3, <2>1, <2>2, WithdrawStep DEF Sweep
  <1>4. CASE Close
    <2>1. CASE CloseSubmit
      <3>1. cur \in Decisions /\ SymbolOf[cur] \in Symbols
        BY <2>1, StateAssumption DEF CloseSubmit, IInv, CurInv, CloseSteps
      <3>2. QED  BY <2>1, <3>1, ReduceStep DEF CloseSubmit
    <2>2. CASE CloseCancel
      <3>1. leg \in [LegIds -> LegStatus]
        BY DEF IInv, TypeOK, StateTypeOK
      <3>2. \A l \in LegIds : leg'[l] # "none" <=> leg[l] # "none"
        BY <2>2, <3>1 DEF CloseCancel
      <3>3. QED  BY <2>2, <3>2, PhaseQuiet DEF CloseCancel
    <2>3. CASE CloseRead \/ CloseRefused \/ CloseForget \/ CloseCancelled \/ CloseRemove
      BY <2>3, QuietStep
      DEF CloseRead, CloseRefused, CloseForget, CloseCancelled, CloseRemove, RemovePosition
    <2>4. QED  BY <1>4, <2>1, <2>2, <2>3 DEF Close
  <1>5. CASE Reconcile
    <2>1. ASSUME NEW d \in Decisions, Verify(d)
          PROVE  [Lifecycle!LifecycleNext]_<<PhaseFn, net>>
      BY <2>1, QuietStep DEF Verify
    <2>2. CASE ReconcileOrders \/ ReconcileFails \/ VerifyFails \/ Reconciled
      BY <2>2, QuietStep DEF ReconcileOrders, ReconcileFails, VerifyFails, Reconciled
    <2>3. QED  BY <1>5, <2>1, <2>2 DEF Reconcile
  <1>6. QED  BY <1>1, <1>2, <1>3, <1>4, <1>5 DEF EngineStep

\* So is every step, the exchange's and a crash included.
LEMMA StepRefines == IInv /\ LifeInv /\ [Next]_vars => [Lifecycle!LifecycleNext]_<<PhaseFn, net>>
  <1> SUFFICES ASSUME IInv, LifeInv, [Next]_vars
               PROVE  [Lifecycle!LifecycleNext]_<<PhaseFn, net>>
    OBVIOUS
  <1>1. CASE Crash \/ UNCHANGED vars
    BY <1>1, QuietStep DEF Crash, vars, stateVars, engineVars, exchangeVars, redisVars
  <1>2. ASSUME NEW d \in Decisions, EntryFillsPart(d) \/ EntryFills(d), UNCHANGED engineVars
        PROVE  [Lifecycle!LifecycleNext]_<<PhaseFn, net>>
    BY <1>2, FillStep
  <1>3. ASSUME NEW d \in Decisions, ExpiryPasses(d), UNCHANGED engineVars
        PROVE  [Lifecycle!LifecycleNext]_<<PhaseFn, net>>
    BY <1>3, QuietStep DEF ExpiryPasses, exchangeVars, engineVars
  <1>4. ASSUME NEW l \in LegIds, LegTriggers(l) \/ LegExpires(l), UNCHANGED engineVars
        PROVE  [Lifecycle!LifecycleNext]_<<PhaseFn, net>>
    <2>1. leg \in [LegIds -> LegStatus] /\ LegSymbol(l) \in Symbols
      BY <1>4, LegDecision, StateAssumption DEF IInv, TypeOK, StateTypeOK, LegSymbol
    <2>2. /\ \A m \in LegIds : leg'[m] # "none" <=> leg[m] # "none"
          /\ UNCHANGED <<queue, entry>>
          /\ net' = net \/ (net[LegSymbol(l)] > 0 /\ net' = [net EXCEPT ![LegSymbol(l)] = Reduced(@)])
      BY <1>4, <2>1 DEF LegTriggers, LegExpires, engineVars
    <2>3. QED  BY <2>1, <2>2, ReduceStep
  <1>5. QED  BY <1>1, <1>2, <1>3, <1>4, EngineStepRefines DEF Next, Environment

\* The engine implements the life of a trade, across crashes and restarts.
THEOREM EngineImplementsLifecycle == Spec => ImplementsLifecycle
  <1>1. IInv /\ LifeInv /\ [Next]_vars => [Lifecycle!LifecycleNext]_(Lifecycle!lifecycleVars)
    BY StepRefines DEF Lifecycle!lifecycleVars, PhaseFn
  <1>2. QED
    BY <1>1, InitRefines, Inductive, LifeInductive, PTL
    DEF Spec, ImplementsLifecycle, Lifecycle!LifecycleSpec
=============================================================================
