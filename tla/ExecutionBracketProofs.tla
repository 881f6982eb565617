------------------------ MODULE ExecutionBracketProofs ------------------------
(***************************************************************************)
(* What the execution engine keeps in order as long as nothing fails, for  *)
(* any number of decisions, symbols and slots: a position has one bracket, *)
(* no protective order outlives its position, and the sweep knows every    *)
(* resting pullback limit.                                                 *)
(*                                                                         *)
(* None of this is inductive.  CleanInv follows a trade from the answer to *)
(* its entry order, through the pending entry or the monitor, to its stop, *)
(* its target and its close, and says at each await which orders of the    *)
(* position there may be and where they are recorded.                      *)
(***************************************************************************)
EXTENDS ExecutionRefinementProofs, FiniteSetTheorems

\* No protective order of d was ever sent.
Bare(d) == \A l \in LegIds : l[1] = d => leg[l] = "none"

\* One order of a kind per position.
OnceInv ==
  \A l, m \in LegIds :
    leg[l] # "none" /\ leg[m] # "none" /\ l[1] = m[1] /\ l[2] = m[2] => l = m

\* What the loop is about to protect is bare, up to the leg it has placed.
BareInv ==
  /\ pc \in {"saveResting", "saveFilled", "register", "monitor", "persist", "placeSL",
             "emergency", "emergencyRemove"} => Bare(cur)
  /\ pc \in {"saveSL", "placeTP"} => \A l \in LegsOf(cur, "tp") : leg[l] = "none"

\* A pending entry was sent and is bare, unless the sweep has it in hand; execute
\* has no pending entry in hand.
PendingInv ==
  /\ \A d \in pending :
       /\ entry[d] # "none"
       /\ Bare(d) \/ (cur = d /\ src = "sweep" /\ pc \in ProtectSteps \cup {"dropPending"})
  /\ pc \in EntrySteps \/ (pc \in ProtectSteps /\ src = "execute") => cur \notin pending
  /\ src = "sweep" => batch \subseteq pending /\ (pc # "poll" => cur \notin batch)

\* A resting pullback limit is pending, or about to be registered; what the
\* sweep drops does not rest.
TrackInv ==
  /\ \A d \in Pullback \cap RestingEntries :
       d \in pending \/ (cur = d /\ pc \in {"saveResting", "register"})
  /\ pc \in {"saveResting", "register", "monitor"} => entry[cur] # "none"
  /\ pc = "dropPending" => cur \notin RestingEntries

\* A resting leg is linked, or about to be; a close withdraws all of them,
\* and forgets none that rests.
LinkInv ==
  /\ \A l \in RestingLegs : l \in linked \/ (pc \in {"saveSL", "saveTP"} /\ l = fresh)
  /\ pc \in {"closeCancel", "closeForget"} => \A l \in RestingLegs : l[1] = cur => l \in work
  /\ pc = "closeForget" => fresh \notin RestingLegs
  /\ pc = "closeRemove" => \A l \in RestingLegs : l[1] # cur

\* A resting leg belongs to a stored position.
SavedInv ==
  /\ \A l \in RestingLegs : l[1] \in saved
  /\ pc \in {"placeSL", "saveSL", "placeTP", "saveTP"} => cur \in saved

CleanInv == OnceInv /\ BareInv /\ PendingInv /\ TrackInv /\ LinkInv /\ SavedInv

\* While nothing has failed, this holds.
Clean == faults = 0 => CleanInv
-----------------------------------------------------------------------------
(* A failing call or a crash is never forgotten.                           *)
LEMMA FaultsGrow == IInv /\ [Next]_vars => faults' >= faults
  <1> SUFFICES ASSUME IInv, [Next]_vars  PROVE faults' >= faults
    OBVIOUS
  <1> USE DEF Call, Cost, stateVars, Goto, GotoExiting, Move
  <1>1. faults \in Nat
    BY StateAssumption DEF IInv, TypeOK, StateTypeOK
  <1>2. CASE Execute
    BY <1>1, <1>2 DEF Execute, Dequeue, Reject, Validate, SubmitEntry, EntryRefused, SaveEntry,
       Register, MonitorFilled, MonitorStops, NothingToDo, vars
  <1>3. CASE Protect
    BY <1>1, <1>3 DEF Protect, Persist, PlaceStop, SaveStop, PlaceTakeProfit, SaveTakeProfit,
       PlaceLeg, LegNotPlaced, SaveLeg, EmergencyClose, EmergencyRefused, EmergencyRemove,
       RemovePosition
  <1>4. CASE Sweep
    BY <1>1, <1>4 DEF Sweep, StartSweep, EndSweep, CancelEntry, CancelRefused, DropPending,
       PollFilled, PollDue, PollTerminal, PollLeave, Poll
  <1>5. CASE Close
    BY <1>1, <1>5 DEF Close, CloseRead, CloseSubmit, CloseRefused, CloseCancel, CloseForget,
       CloseCancelled, CloseRemove, RemovePosition
  <1>6. CASE Reconcile
    BY <1>1, <1>6 DEF Reconcile, ReconcileOrders, ReconcileFails, VerifyFails, Reconciled, Verify
  <1>7. CASE Crash \/ UNCHANGED vars
    BY <1>1, <1>7 DEF Crash, vars
  <1>8. CASE Environment
    BY <1>1, <1>8 DEF Environment, EntryFillsPart, EntryFills, ExpiryPasses, LegTriggers, LegExpires
  <1>9. QED  BY <1>2, <1>3, <1>4, <1>5, <1>6, <1>7, <1>8 DEF Next, EngineStep

(* Executing a decision: submit, verify, store (execution/engine.py).      *)
LEMMA ExecuteClean ==
  ASSUME IInv, LifeInv, CleanInv, faults = 0, faults' = 0, Execute
  PROVE  CleanInv'
  <1> USE DEF IInv, CurInv, SrcInv, EntrySteps, ProtectSteps, SweepSteps, CloseSteps,
              stateVars, exchangeVars, redisVars, Goto, GotoExiting, Move,
              CleanInv, OnceInv, BareInv, PendingInv, TrackInv, LinkInv, SavedInv, Bare, LegsOf,
              RestingEntries, RestingLegs
  <1>1. ASSUME NEW d \in Decisions \cup Closes, Dequeue(d)  PROVE CleanInv'
    BY <1>1, SMTT(30) DEF Dequeue, LifeInv
  <1>2. CASE Reject \/ Validate \/ EntryRefused \/ MonitorStops \/ MonitorFilled
    BY <1>2, SMTT(30) DEF Reject, Validate, EntryRefused, MonitorStops, MonitorFilled
  <1>3. CASE SubmitEntry
    BY <1>3, SMTT(30) DEF SubmitEntry, Call, Cost, Outcomes, Lands, LifeInv, TypeOK, StateTypeOK
  <1>4. CASE SaveEntry
    BY <1>4, SMTT(30) DEF SaveEntry, Call, Cost, Outcomes, Lands
  <1>5. CASE Register
    BY <1>5, SMTT(30) DEF Register, Call, Cost, Outcomes, Lands
  <1>6. CASE NothingToDo
    BY <1>6, SMTT(30) DEF NothingToDo, vars, engineVars, localVars
  <1>7. QED  BY <1>1, <1>2, <1>3, <1>4, <1>5, <1>6 DEF Execute

(* The placement code sends the one stop-loss, then the one take-profit.   *)
LEMMA ProtectClean ==
  ASSUME IInv, LifeInv, CleanInv, faults = 0, faults' = 0, Protect
  PROVE  CleanInv'
  <1> USE DEF IInv, CurInv, SrcInv, EntrySteps, ProtectSteps, SweepSteps, CloseSteps,
              stateVars, exchangeVars, redisVars, Goto, GotoExiting, Move,
              CleanInv, OnceInv, BareInv, PendingInv, TrackInv, LinkInv, SavedInv, Bare, LegsOf,
              RestingEntries, RestingLegs
  <1> USE DEF Call, Cost, Outcomes, Lands, Caller, OnStopFailure
  <1>1. src # "reconcile"
    BY DEF ReconcileInv
  <1>2. CASE Persist
    BY <1>1, <1>2, SMTT(30) DEF Persist
  <1>3. CASE PlaceStop
    BY <1>1, <1>3, SMTT(30) DEF PlaceStop, PlaceLeg, LegNotPlaced, Unused, LifeInv, TypeOK, StateTypeOK
  <1>4. CASE SaveStop
    BY <1>1, <1>4, SMTT(30) DEF SaveStop, SaveLeg, LifeInv
  <1>5. CASE PlaceTakeProfit
    BY <1>1, <1>5, SMTT(30) DEF PlaceTakeProfit, PlaceLeg, LegNotPlaced, Unused, LifeInv, TypeOK, StateTypeOK
  <1>6. CASE SaveTakeProfit
    BY <1>1, <1>6, SMTT(30) DEF SaveTakeProfit, SaveLeg, LifeInv
  <1>7. CASE EmergencyClose \/ EmergencyRefused
    BY <1>1, <1>7, SMTT(30) DEF EmergencyClose, EmergencyRefused, LifeInv
  <1>8. CASE EmergencyRemove
    BY <1>1, <1>8, SMTT(30) DEF EmergencyRemove, RemovePosition, LifeInv
  <1>9. QED  BY <1>2, <1>3, <1>4, <1>5, <1>6, <1>7, <1>8 DEF Protect

(* The sweep takes up a pending entry that is still bare, and drops it once *)
(* it rests no longer.                                                     *)
LEMMA SweepClean ==
  ASSUME IInv, LifeInv, CleanInv, faults = 0, faults' = 0, Sweep
  PROVE  CleanInv'
  <1> USE DEF IInv, CurInv, SrcInv, EntrySteps, ProtectSteps, SweepSteps, CloseSteps,
              stateVars, exchangeVars, redisVars, Goto, GotoExiting, Move,
              CleanInv, OnceInv, BareInv, PendingInv, TrackInv, LinkInv, SavedInv, Bare, LegsOf,
              RestingEntries, RestingLegs
  <1> USE DEF Call, Cost, Outcomes, Lands
  <1>1. CASE StartSweep \/ EndSweep
    BY <1>1, SMTT(30) DEF StartSweep, EndSweep
  <1>2. CASE CancelEntry
    BY <1>2, SMTT(30) DEF CancelEntry, TypeOK, StateTypeOK
  <1>3. CASE CancelRefused
    BY <1>3, SMTT(30) DEF CancelRefused
  <1>4. CASE DropPending
    BY <1>4, SMTT(30) DEF DropPending
  <1>5. ASSUME NEW d \in Decisions, PollFilled(d) \/ PollDue(d) \/ PollTerminal(d)  PROVE CleanInv'
    BY <1>5, SMTT(30) DEF PollFilled, PollDue, PollTerminal, Poll
  <1>6. ASSUME NEW d \in Decisions, PollLeave(d)  PROVE CleanInv'
    BY <1>6, SMTT(30) DEF PollLeave
  <1>7. QED  BY <1>1, <1>2, <1>3, <1>4, <1>5, <1>6 DEF Sweep

(* A close finds every resting leg of its position linked, and withdraws it *)
(* before it forgets the position.                                         *)
LEMMA CloseClean ==
  ASSUME IInv, LifeInv, CleanInv, faults = 0, faults' = 0, Close
  PROVE  CleanInv'
  <1> USE DEF IInv, CurInv, SrcInv, EntrySteps, ProtectSteps, SweepSteps, CloseSteps,
              stateVars, exchangeVars, redisVars, Goto, GotoExiting, Move,
              CleanInv, OnceInv, BareInv, PendingInv, TrackInv, LinkInv, SavedInv, Bare, LegsOf,
              RestingEntries, RestingLegs
  <1> USE DEF Call, Cost, Outcomes, Lands
  <1>1. CASE CloseRead
    BY <1>1, SMTT(30) DEF CloseRead
  <1>2. CASE CloseSubmit
    BY <1>2, SMTT(30) DEF CloseSubmit
  <1>3. CASE CloseRefused
    BY <1>3, SMTT(30) DEF CloseRefused
  <1>4. CASE CloseCancel
    BY <1>4, SMTT(30) DEF CloseCancel, TypeOK, StateTypeOK
  <1>5. CASE CloseForget
    BY <1>5, SMTT(30) DEF CloseForget, TypeOK, StateTypeOK
  <1>6. CASE CloseCancelled
    BY <1>6, SMTT(30) DEF CloseCancelled
  <1>7. CASE CloseRemove
    BY <1>7, SMTT(30) DEF CloseRemove, RemovePosition
  <1>8. QED  BY <1>1, <1>2, <1>3, <1>4, <1>5, <1>6, <1>7 DEF Close

(* Reconciliation follows a crash, which is a fault.                       *)
LEMMA ReconcileNotClean ==
  ASSUME IInv, faults = 0, Reconcile
  PROVE  FALSE
  BY DEF Reconcile, ReconcileOrders, ReconcileFails, VerifyFails, Reconciled, Verify, Goto,
     GotoExiting, Move, IInv, SrcInv, ReconcileInv

(* What the exchange does to orders: none appears, an entry that stops     *)
(* resting is not in the hands of the sweep's last step.                   *)
LEMMA EnvironmentClean ==
  ASSUME IInv, LifeInv, CleanInv, faults = 0, faults' = 0, Environment, UNCHANGED engineVars
  PROVE  CleanInv'
  <1> USE DEF IInv, CurInv, SrcInv, EntrySteps, ProtectSteps, SweepSteps, CloseSteps,
              stateVars, exchangeVars, redisVars, Goto, GotoExiting, Move,
              CleanInv, OnceInv, BareInv, PendingInv, TrackInv, LinkInv, SavedInv, Bare, LegsOf,
              RestingEntries, RestingLegs
  <1> USE DEF engineVars, localVars
  <1>1. entry \in [Decisions -> EntryStatus] /\ leg \in [LegIds -> LegStatus]
    BY DEF TypeOK, StateTypeOK
  <1>2. ASSUME NEW d \in Decisions, EntryFillsPart(d) \/ EntryFills(d)  PROVE CleanInv'
    <2>1. UNCHANGED <<leg, redisVars, queue, pc, cur, fresh, src, batch, work>>
      BY <1>2 DEF EntryFillsPart, EntryFills
    <2>2. /\ \A e \in Decisions : entry[e] # "none" => entry'[e] # "none"
          /\ \A e \in Decisions : entry'[e] \in {"new", "part"} => entry[e] \in {"new", "part"}
      BY <1>1, <1>2 DEF EntryFillsPart, EntryFills
    <2>3. pending \subseteq Decisions
      BY DEF TypeOK, StateTypeOK
    <2>4. QED  BY <2>1, <2>2, <2>3, SMTT(30)
  <1>3. ASSUME NEW d \in Decisions, ExpiryPasses(d)  PROVE CleanInv'
    BY <1>1, <1>3, SMTT(30) DEF ExpiryPasses
  <1>4. ASSUME NEW l \in LegIds, LegTriggers(l) \/ LegExpires(l)  PROVE CleanInv'
    <2>1. UNCHANGED <<entry, redisVars, queue, pc, cur, fresh, src, batch, work>>
      BY <1>4 DEF LegTriggers, LegExpires
    <2>2. \A m \in LegIds : leg'[m] # leg[m] => leg[m] = "new" /\ leg'[m] \in {"filled", "expired"}
      BY <1>1, <1>4 DEF LegTriggers, LegExpires
    <2>3. QED  BY <2>1, <2>2, SMTT(30)
  <1>5. QED  BY <1>2, <1>3, <1>4 DEF Environment

(* Nothing is open and nothing is stored before the first decision.        *)
LEMMA InitClean == Init => Clean
  BY DEF Init, Idle, StateInit, Clean, CleanInv, OnceInv, BareInv, PendingInv, TrackInv, LinkInv,
     SavedInv, Bare, LegsOf, RestingEntries, RestingLegs, EntrySteps, ProtectSteps

(* A step of something else.                                               *)
LEMMA StutterClean == CleanInv /\ UNCHANGED vars => CleanInv'
  BY DEF vars, stateVars, exchangeVars, redisVars, engineVars, localVars, CleanInv, OnceInv, BareInv,
     PendingInv, TrackInv, LinkInv, SavedInv, Bare, LegsOf, RestingEntries, RestingLegs

(* Until the first fault, the bookkeeping of every trade is in order.      *)
THEOREM CleanHolds == Spec => []Clean
  <1>1. IInv /\ LifeInv /\ Clean /\ [Next]_vars => Clean'
    <2> SUFFICES ASSUME IInv, LifeInv, Clean, [Next]_vars, faults' = 0
                 PROVE  CleanInv'
      BY DEF Clean
    <2>1. faults \in Nat
      BY StateAssumption DEF IInv, TypeOK, StateTypeOK
    <2>2. faults = 0 /\ CleanInv
      BY <2>1, FaultsGrow DEF Clean
    <2>3. ~ Crash
      BY <2>2 DEF Crash, Call, Cost
    <2>4. QED
      BY <2>2, <2>3, ExecuteClean, ProtectClean, SweepClean, CloseClean, ReconcileNotClean,
         EnvironmentClean, StutterClean
      DEF Next, EngineStep
  <1>2. QED  BY <1>1, InitClean, Inductive, LifeInductive, PTL DEF Spec

(* When nothing fails, a position never gets a second stop-loss or a       *)
(* second take-profit, although the sweep, execute and the fills           *)
(* interleave (process_pending_entries, _on_order_filled).                 *)
THEOREM OneBracketHolds == Spec => []OneBracket
  <1>1. Clean => OneBracket
    <2> SUFFICES ASSUME Clean, faults = 0, NEW d \in Decisions, NEW k \in Kinds
                 PROVE  Cardinality({l \in LegsOf(d, k) : leg[l] # "none"}) <= 1
      BY DEF OneBracket
    <2> DEFINE sent == {l \in LegsOf(d, k) : leg[l] # "none"}
    <2>1. \A l, m \in sent : l = m
      BY DEF Clean, CleanInv, OnceInv, LegsOf
    <2>2. CASE sent = {}
      BY <2>2, FS_EmptySet
    <2>3. CASE sent # {}
      <3>1. PICK l \in sent : sent = {l}
        BY <2>1, <2>3
      <3>2. QED  BY <3>1, FS_Singleton
    <2>4. QED  BY <2>2, <2>3
  <1>2. QED  BY <1>1, CleanHolds, PTL

(* When nothing fails, a protective order never outlives, on the exchange, *)
(* the position it protects (_close_position, _cancel_linked_orders).      *)
THEOREM NoOrphanLegsHolds == Spec => []NoOrphanLegs
  <1>1. Clean => NoOrphanLegs
    BY DEF Clean, CleanInv, SavedInv, NoOrphanLegs
  <1>2. QED  BY <1>1, CleanHolds, PTL

(* When nothing fails, every pullback limit resting on the exchange is     *)
(* under the sweep (_register_pending_entry, _process_pending_entry).      *)
THEOREM PullbackTrackedHolds == Spec => []PullbackTracked
  <1>1. Clean => PullbackTracked
    BY DEF Clean, CleanInv, TrackInv, PullbackTracked, AtRest
  <1>2. QED  BY <1>1, CleanHolds, PTL
=============================================================================
