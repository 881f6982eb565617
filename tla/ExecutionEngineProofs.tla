------------------------ MODULE ExecutionEngineProofs ------------------------
(***************************************************************************)
(* Proofs about ExecutionEngine, for any number of decisions, symbols,     *)
(* slots, failing calls and crashes.                                       *)
(*                                                                         *)
(* IInv is inductive.  Its heart is CoverInv: until a second fault, every  *)
(* stored position has a standing stop-loss, was exited, or is in hand.    *)
(* The other parts say what "in hand" needs: who called the placement code *)
(* (SrcInv), what it works on (CurInv, FreshInv), why a leg may be         *)
(* withdrawn (CloseInv) and what a restart finds (ReconcileInv).  There is *)
(* one lemma per group of actions and one step per action.                 *)
(***************************************************************************)
EXTENDS ExecutionEngine, TLAPS

-----------------------------------------------------------------------------
(* Taking a decision from the queue touches no leg and no stored position. *)
LEMMA ExecuteKeeps == IInv /\ Execute => IInv'
  <1> USE StateAssumption, EngineAssumption
  <1> USE DEF IInv, TypeOK, StateTypeOK, CurInv, SrcInv, FreshInv, CloseInv,
        ReconcileInv, TargetInv, CoverInv, InHand, Standing, Kept, EntryStatus,
        LegStatus, Steps, EntrySteps, ProtectSteps, SweepSteps, CloseSteps,
        LegIds, Kinds, LegsOf
  <1>1. \A d \in Decisions \cup Closes : IInv /\ Dequeue(d) => IInv'
    BY SMTT(30) DEF Dequeue, stateVars, exchangeVars, redisVars
  <1>2. IInv /\ Reject => IInv'
    BY SMTT(30) DEF Reject, Goto, stateVars, GotoExiting, exchangeVars,
                   redisVars, Move
  <1>3. IInv /\ Validate => IInv'
    BY SMTT(30) DEF Validate, Goto, ExposureAllowed, stateVars, GotoExiting,
                   exchangeVars, redisVars, Move
  <1>4. IInv /\ SubmitEntry => IInv'
    BY SMTT(30) DEF SubmitEntry, Outcomes, Call, Goto, Lands, redisVars, Cost,
                   GotoExiting, Move
  <1>5. IInv /\ EntryRefused => IInv'
    BY SMTT(30) DEF EntryRefused, Goto, stateVars, GotoExiting, exchangeVars,
                   redisVars, Move
  <1>6. IInv /\ SaveEntry => IInv'
    BY SMTT(30) DEF SaveEntry, Outcomes, Call, Goto, Lands, exchangeVars,
                   Cost, GotoExiting, Move
  <1>7. IInv /\ Register => IInv'
    BY SMTT(30) DEF Register, Outcomes, Call, Goto, Lands, exchangeVars, Cost,
                   GotoExiting, Move
  <1>8. IInv /\ MonitorFilled => IInv'
    BY SMTT(30) DEF MonitorFilled, Goto, stateVars, GotoExiting, exchangeVars,
                   redisVars, Move
  <1>9. IInv /\ MonitorStops => IInv'
    BY SMTT(30) DEF MonitorStops, Goto, stateVars, GotoExiting, exchangeVars,
                   redisVars, Move
  <1>10. IInv /\ NothingToDo => IInv'
    BY SMTT(30) DEF NothingToDo, vars, stateVars, engineVars, exchangeVars,
                   redisVars, localVars
  <1> QED  BY <1>1, <1>2, <1>3, <1>4, <1>5, <1>6, <1>7, <1>8, <1>9, <1>10 DEF Execute

-----------------------------------------------------------------------------
(* The placement code: a position leaves its hands with a stop or exited.  *)
LEMMA ProtectKeeps == IInv /\ Protect => IInv'
  <1> USE StateAssumption, EngineAssumption
  <1> USE DEF IInv, TypeOK, StateTypeOK, CurInv, SrcInv, FreshInv, CloseInv,
        ReconcileInv, TargetInv, CoverInv, InHand, Standing, Kept, EntryStatus,
        LegStatus, Steps, EntrySteps, ProtectSteps, SweepSteps, CloseSteps,
        LegIds, Kinds, LegsOf
  <1>1. IInv /\ Persist => IInv'
    BY SMTT(30) DEF Persist, Outcomes, Call, Lands, exchangeVars, Cost
  <1>2. IInv /\ PlaceStop => IInv'
    BY SMTT(30) DEF PlaceStop, PlaceLeg, OnStopFailure, LegNotPlaced, Unused,
                   Call, Move, redisVars, Goto, GotoExiting, exchangeVars,
                   Cost
  <1>3. IInv /\ SaveStop => IInv'
    BY SMTT(30) DEF SaveStop, SaveLeg, Caller, OnStopFailure, Outcomes, Call,
                   Move, Lands, exchangeVars, Cost
  <1>4. IInv /\ PlaceTakeProfit => IInv'
    <2>1. IInv /\ LegNotPlaced("placeTP", Caller) => IInv'
      <3>1. IInv /\ pc = "placeTP" => Caller \in {"idle", "dropPending", "verify"}
        BY DEF Caller
      <3>2. IInv /\ LegNotPlaced("placeTP", Caller) => TypeOK'
        <4> SUFFICES ASSUME IInv, LegNotPlaced("placeTP", Caller)
                     PROVE  TypeOK'
          OBVIOUS
        <4>1. faults' \in 0..MaxFaults
          BY DEF LegNotPlaced, Call, Cost
        <4>2. pc' \in Steps /\ cur' \in Decisions \cup {None}
              /\ src' \in {"execute", "sweep", "reconcile"} /\ tpToo' \in BOOLEAN
          BY <3>1, ZenonT(30) DEF LegNotPlaced, Goto, GotoExiting, Move
        <4>3. exited' \in SUBSET Decisions
          BY DEF LegNotPlaced, Goto, GotoExiting, Move
        <4> QED
          BY <4>1, <4>2, <4>3 DEF LegNotPlaced, Goto, GotoExiting, exchangeVars,
             redisVars
      <3>3. IInv /\ LegNotPlaced("placeTP", Caller)
              => (CurInv /\ SrcInv /\ FreshInv /\ CloseInv)'
        BY SMTT(30) DEF LegNotPlaced, Caller, Goto, GotoExiting, Move, Call,
           Cost, exchangeVars, redisVars
      <3>4. IInv /\ LegNotPlaced("placeTP", Caller)
              => (ReconcileInv /\ TargetInv /\ CoverInv)'
        BY SMTT(30) DEF LegNotPlaced, Caller, Goto, GotoExiting, Move, Call,
           Cost, exchangeVars, redisVars
      <3> QED  BY <3>2, <3>3, <3>4
    <2>2. IInv /\ PlaceLeg("tp", "placeTP", "saveTP", Caller) => IInv'
      <3> SUFFICES ASSUME IInv, PlaceLeg("tp", "placeTP", "saveTP", Caller)
                   PROVE  IInv'
        OBVIOUS
      <3>1. PICK r \in {"ok", "lost"}, l \in Unused(cur, "tp") :
              /\ Call(r)
              /\ Move("placeTP", IF r = "ok" THEN "saveTP" ELSE Caller)
              /\ fresh' = IF r = "ok" THEN l ELSE fresh
              /\ leg' = [leg EXCEPT ![l] = "new"]
              /\ UNCHANGED <<entry, net, redisVars, due, queue, batch, work, exited>>
        BY DEF PlaceLeg
      <3>2. l \in LegIds /\ leg[l] = "none"
        BY DEF Unused
      <3>3. TypeOK'
        BY <3>1, <3>2 DEF Caller, Move, Call, Cost, redisVars
      <3>4. (CurInv /\ SrcInv /\ FreshInv /\ CloseInv /\ ReconcileInv /\ TargetInv)'
        BY <3>1, SMTT(30) DEF Unused, Caller, Move, Call, Cost, redisVars
      <3>5. CoverInv'
        BY <3>1, SMTT(30) DEF Unused, Caller, Move, Call, Cost, redisVars
      <3> QED  BY <3>3, <3>4, <3>5
    <2> QED  BY <2>1, <2>2 DEF PlaceTakeProfit
  <1>5. IInv /\ SaveTakeProfit => IInv'
    BY SMTT(30) DEF SaveTakeProfit, SaveLeg, Caller, Outcomes, Call, Move,
                   Lands, exchangeVars, Cost
  <1>6. IInv /\ EmergencyClose => IInv'
    BY SMTT(30) DEF EmergencyClose, Outcomes, Call, GotoExiting, Caller,
                   Lands, Reduced, redisVars, Cost, Move
  <1>7. IInv /\ EmergencyRefused => IInv'
    BY SMTT(30) DEF EmergencyRefused, GotoExiting, Caller, stateVars, Move,
                   exchangeVars, redisVars
  <1>8. IInv /\ EmergencyRemove => IInv'
    BY SMTT(30) DEF EmergencyRemove, RemovePosition, Caller, Outcomes, Call,
                   Goto, Lands, exchangeVars, Cost, GotoExiting, Move
  <1> QED  BY <1>1, <1>2, <1>3, <1>4, <1>5, <1>6, <1>7, <1>8 DEF Protect

-----------------------------------------------------------------------------
(* The sweep hands filled entries to the placement code.                   *)
LEMMA SweepKeeps == IInv /\ Sweep => IInv'
  <1> USE StateAssumption, EngineAssumption
  <1> USE DEF IInv, TypeOK, StateTypeOK, CurInv, SrcInv, FreshInv, CloseInv,
        ReconcileInv, TargetInv, CoverInv, InHand, Standing, Kept, EntryStatus,
        LegStatus, Steps, EntrySteps, ProtectSteps, SweepSteps, CloseSteps,
        LegIds, Kinds, LegsOf
  <1>1. IInv /\ StartSweep => IInv'
    BY SMTT(30) DEF StartSweep, stateVars, exchangeVars, redisVars
  <1>2. IInv /\ EndSweep => IInv'
    BY SMTT(30) DEF EndSweep, Goto, stateVars, GotoExiting, exchangeVars,
                   redisVars, Move
  <1>3. IInv /\ CancelEntry => IInv'
    BY SMTT(30) DEF CancelEntry, Outcomes, Call, Goto, Lands, redisVars, Cost,
                   GotoExiting, Move
  <1>4. IInv /\ CancelRefused => IInv'
    BY SMTT(30) DEF CancelRefused, Goto, stateVars, GotoExiting, exchangeVars,
                   redisVars, Move
  <1>5. IInv /\ DropPending => IInv'
    BY SMTT(30) DEF DropPending, Outcomes, Call, Goto, Lands, exchangeVars,
                   Cost, GotoExiting, Move
  <1>6. \A d \in Decisions : IInv /\ PollFilled(d) => IInv'
    BY SMTT(30) DEF PollFilled, Poll, stateVars, exchangeVars, redisVars
  <1>7. \A d \in Decisions : IInv /\ PollDue(d) => IInv'
    BY SMTT(30) DEF PollDue, Poll, stateVars, exchangeVars, redisVars
  <1>8. \A d \in Decisions : IInv /\ PollTerminal(d) => IInv'
    BY SMTT(30) DEF PollTerminal, Poll, stateVars, exchangeVars, redisVars
  <1>9. \A d \in Decisions : IInv /\ PollLeave(d) => IInv'
    BY SMTT(30) DEF PollLeave, Call, exchangeVars, redisVars, Cost
  <1> QED  BY <1>1, <1>2, <1>3, <1>4, <1>5, <1>6, <1>7, <1>8, <1>9 DEF Sweep

-----------------------------------------------------------------------------
(* A close marks the position exited before it withdraws a leg.            *)
LEMMA CloseKeeps == IInv /\ Close => IInv'
  <1> USE StateAssumption, EngineAssumption
  <1> USE DEF IInv, TypeOK, StateTypeOK, CurInv, SrcInv, FreshInv, CloseInv,
        ReconcileInv, TargetInv, CoverInv, InHand, Standing, Kept, EntryStatus,
        LegStatus, Steps, EntrySteps, ProtectSteps, SweepSteps, CloseSteps,
        LegIds, Kinds, LegsOf
  <1>1. IInv /\ CloseRead => IInv'
    BY SMTT(30) DEF CloseRead, stateVars, exchangeVars, redisVars
  <1>2. IInv /\ CloseSubmit => IInv'
    BY SMTT(30) DEF CloseSubmit, Outcomes, Call, Move, Lands, Reduced,
                   redisVars, Cost
  <1>3. IInv /\ CloseRefused => IInv'
    BY SMTT(30) DEF CloseRefused, GotoExiting, stateVars, Move, exchangeVars,
                   redisVars
  <1>4. IInv /\ CloseCancel => IInv'
    BY SMTT(30) DEF CloseCancel, Outcomes, Call, Cost, Lands, redisVars
  <1>5. IInv /\ CloseForget => IInv'
    BY SMTT(30) DEF CloseForget, Outcomes, Call, Cost, Lands, exchangeVars
  <1>6. IInv /\ CloseCancelled => IInv'
    BY SMTT(30) DEF CloseCancelled, Goto, stateVars, GotoExiting,
                   exchangeVars, redisVars, Move
  <1>7. IInv /\ CloseRemove => IInv'
    BY SMTT(30) DEF CloseRemove, RemovePosition, Outcomes, Call, Goto, Lands,
                   exchangeVars, Cost, GotoExiting, Move
  <1> QED  BY <1>1, <1>2, <1>3, <1>4, <1>5, <1>6, <1>7 DEF Close

-----------------------------------------------------------------------------
(* Reconciliation takes every stored position in hand.                     *)
LEMMA ReconcileKeeps == IInv /\ Reconcile => IInv'
  <1> USE StateAssumption, EngineAssumption
  <1> USE DEF IInv, TypeOK, StateTypeOK, CurInv, SrcInv, FreshInv, CloseInv,
        ReconcileInv, TargetInv, CoverInv, InHand, Standing, Kept, EntryStatus,
        LegStatus, Steps, EntrySteps, ProtectSteps, SweepSteps, CloseSteps,
        LegIds, Kinds, LegsOf
  <1>1. IInv /\ ReconcileOrders => IInv'
    BY SMTT(30) DEF ReconcileOrders, RestingEntries, RestingLegs, exchangeVars
  <1>2. IInv /\ ReconcileFails => IInv'
    BY SMTT(30) DEF ReconcileFails, Goto, Call, RestingLegs, RestingEntries,
                   exchangeVars, GotoExiting, Cost, Move
  <1>3. IInv /\ Reconciled => IInv'
    BY SMTT(30) DEF Reconciled, Goto, stateVars, GotoExiting, exchangeVars,
                   redisVars, Move
  <1>4. \A d \in Decisions : IInv /\ Verify(d) => IInv'
    BY SMTT(30) DEF Verify, Linked, stateVars, exchangeVars, redisVars
  <1>5. IInv /\ VerifyFails => IInv'
    BY SMTT(30) DEF VerifyFails, Move, Call, Cost, exchangeVars, redisVars
  <1> QED  BY <1>1, <1>2, <1>3, <1>4, <1>5 DEF Reconcile

-----------------------------------------------------------------------------
(* The exchange and the clock withdraw no leg.                             *)
LEMMA EnvironmentKeeps ==
  IInv /\ Environment /\ UNCHANGED engineVars => IInv'
  <1> USE StateAssumption, EngineAssumption
  <1> USE DEF IInv, TypeOK, StateTypeOK, CurInv, SrcInv, FreshInv, CloseInv,
        ReconcileInv, TargetInv, CoverInv, InHand, Standing, Kept, EntryStatus,
        LegStatus, Steps, EntrySteps, ProtectSteps, SweepSteps, CloseSteps,
        LegIds, Kinds, LegsOf, engineVars, localVars
  <1> SUFFICES ASSUME IInv, Environment, UNCHANGED engineVars
               PROVE  IInv'
    OBVIOUS
  <1>1. ASSUME NEW d \in Decisions, EntryFillsPart(d)
        PROVE  IInv'
    <2>1. SymbolOf[d] \in Symbols /\ net[SymbolOf[d]] + 1 \in Nat
      OBVIOUS
    <2>2. net' \in [Symbols -> Nat]
      BY <1>1, <2>1 DEF EntryFillsPart
    <2>3. entry' \in [Decisions -> EntryStatus]
      BY <1>1 DEF EntryFillsPart
    <2> QED  BY <1>1, <2>2, <2>3, SMTT(30) DEF EntryFillsPart, redisVars
  <1>2. ASSUME NEW d \in Decisions, EntryFills(d)
        PROVE  IInv'
    <2> DEFINE units == IF entry[d] = "new" THEN Qty ELSE Qty - 1
    <2>1. SymbolOf[d] \in Symbols /\ net[SymbolOf[d]] + units \in Nat
      OBVIOUS
    <2>2. net' \in [Symbols -> Nat]
      BY <1>2, <2>1 DEF EntryFills
    <2>3. entry' \in [Decisions -> EntryStatus]
      BY <1>2 DEF EntryFills
    <2> QED  BY <1>2, <2>2, <2>3, SMTT(30) DEF EntryFills, redisVars
  <1>3. ASSUME NEW d \in Decisions, ExpiryPasses(d)
        PROVE  IInv'
    BY <1>3, SMTT(30) DEF ExpiryPasses, exchangeVars, redisVars
  <1>4. ASSUME NEW l \in LegIds, LegTriggers(l)
        PROVE  IInv'
    BY <1>4, SMTT(30) DEF LegTriggers, LegSymbol, Reduced, redisVars
  <1>5. ASSUME NEW l \in LegIds, LegExpires(l)
        PROVE  IInv'
    BY <1>5, SMTT(30) DEF LegExpires, LegSymbol, redisVars
  <1> QED  BY <1>1, <1>2, <1>3, <1>4, <1>5 DEF Environment

(* A crash drops what is in hand, and a restart takes it up again.         *)
LEMMA CrashKeeps == IInv /\ Crash => IInv'
  BY StateAssumption, EngineAssumption, SMTT(30)
  DEF IInv, TypeOK, StateTypeOK, CurInv, SrcInv, FreshInv, CloseInv,
      ReconcileInv, TargetInv, CoverInv, InHand, Standing, Kept, Steps,
      EntrySteps, ProtectSteps, SweepSteps, CloseSteps, Crash, Call, Cost,
      exchangeVars, redisVars

\* A step of nobody changes nothing the invariant reads.
LEMMA StutterKeeps == IInv /\ UNCHANGED vars => IInv'
  BY DEF IInv, TypeOK, StateTypeOK, CurInv, SrcInv, FreshInv, CloseInv,
      ReconcileInv, TargetInv, CoverInv, InHand, Standing, vars, stateVars,
      exchangeVars, redisVars, engineVars, localVars, LegsOf

\* Nothing is stored, placed or in hand yet.
LEMMA InitHolds == Init => IInv
  BY StateAssumption, EngineAssumption
  DEF Init, StateInit, Idle, IInv, TypeOK, StateTypeOK, CurInv, SrcInv,
      FreshInv, CloseInv, ReconcileInv, TargetInv, CoverInv, EntryStatus,
      LegStatus, Steps, EntrySteps, ProtectSteps, SweepSteps, CloseSteps
-----------------------------------------------------------------------------
(* The inductive invariant holds in every reachable state.                 *)
THEOREM Inductive == Spec => []IInv
  <1>1. IInv /\ [Next]_vars => IInv'
    BY ExecuteKeeps, ProtectKeeps, SweepKeeps, CloseKeeps, ReconcileKeeps,
       EnvironmentKeeps, CrashKeeps, StutterKeeps
    DEF Next, EngineStep
  <1> QED  BY InitHolds, <1>1, PTL DEF Spec

(* Type correctness: in particular exposure never turns negative, however  *)
(* reduce-only orders and fills interleave.                                *)
THEOREM TypeCorrect == Spec => []TypeOK
  <1>1. IInv => TypeOK
    BY DEF IInv
  <1> QED  BY Inductive, <1>1, PTL

(* With at most one failing call or crash, the loop at the top of its      *)
(* cycle leaves no stored position unprotected unless it was exited        *)
(* (_on_order_filled, _emergency_close, _verify_protective_orders).        *)
THEOREM Protected == Spec => []OpenPositionsAreProtected
  <1>1. IInv => OpenPositionsAreProtected
    <2> SUFFICES ASSUME IInv, AtRest, faults <= 1, NEW d \in saved \ exited
                 PROVE  Standing(d, "sl")
      BY DEF OpenPositionsAreProtected
    <2>1. ~ InHand(d)
      BY DEF IInv, SrcInv, InHand, AtRest
    <2>2. ~ faults >= 2
      BY DEF IInv, TypeOK, StateTypeOK
    <2> QED  BY <2>1, <2>2 DEF IInv, CoverInv
  <1> QED  BY Inductive, <1>1, PTL
-----------------------------------------------------------------------------
(* Whatever fails, a take-profit is sent only for a position whose         *)
(* stop-loss stands (_place_protective_orders, _place_protective_subset).  *)
THEOREM StopFirst == Spec => StopBeforeTarget
  <1> USE DEF LegIds, LegsOf, Kinds
  <1>1. \/ Execute \/ Sweep \/ Reconcile \/ Crash => leg' = leg
    BY DEF Execute, Dequeue, Reject, Validate, SubmitEntry, EntryRefused,
       SaveEntry, Register, MonitorFilled, MonitorStops, NothingToDo, Sweep,
       StartSweep, EndSweep, CancelEntry, CancelRefused, DropPending,
       PollFilled, PollDue, PollTerminal, PollLeave, Poll, Reconcile,
       ReconcileOrders, ReconcileFails, VerifyFails, Reconciled, Verify, Crash, Goto,
       vars, stateVars, exchangeVars
  <1>2. IInv /\ Close => \A l \in LegIds : leg[l] = "none" => leg'[l] # "new"
    BY DEF Close, CloseRead, CloseSubmit, CloseRefused, CloseCancel,
       CloseForget, CloseCancelled, CloseRemove, RemovePosition, stateVars,
       exchangeVars, IInv, TypeOK, StateTypeOK
  <1>3. IInv /\ Environment
          => \A l \in LegIds : leg[l] = "none" => leg'[l] # "new"
    BY DEF Environment, EntryFillsPart, EntryFills, ExpiryPasses, LegTriggers,
       LegExpires, exchangeVars, IInv, TypeOK, StateTypeOK
  <1>4. IInv /\ Protect /\ ~ PlaceTakeProfit
          => \A l \in LegIds : l[2] = "tp" /\ leg[l] = "none" => leg'[l] # "new"
    BY DEF Protect, Persist, PlaceStop, PlaceLeg, Unused, LegNotPlaced,
       SaveStop, SaveTakeProfit, SaveLeg, EmergencyClose, EmergencyRefused,
       EmergencyRemove, RemovePosition, stateVars, exchangeVars,
       IInv, TypeOK, StateTypeOK
  <1>5. IInv /\ PlaceTakeProfit
          => \A l \in LegIds :
               leg[l] = "none" /\ leg'[l] = "new" => Standing(l[1], "sl")
    BY DEF PlaceTakeProfit, PlaceLeg, Unused, LegNotPlaced, exchangeVars,
       Goto, GotoExiting, Move, IInv, TypeOK, StateTypeOK, CurInv, TargetInv,
       ProtectSteps
  <1>6. IInv /\ [Next]_vars =>
          [\A d \in Decisions : \A l \in LegsOf(d, "tp") :
             leg[l] = "none" /\ leg'[l] = "new" => Standing(d, "sl")]_vars
    <2> SUFFICES ASSUME IInv, Next, NEW d \in Decisions,
                        NEW l \in LegsOf(d, "tp"), leg[l] = "none", leg'[l] = "new"
                 PROVE  Standing(d, "sl")
      OBVIOUS
    <2>1. PlaceTakeProfit
      BY <1>1, <1>2, <1>3, <1>4 DEF Next, EngineStep
    <2> QED  BY <2>1, <1>5
  <1> QED  BY Inductive, <1>6, PTL DEF Spec, StopBeforeTarget
=============================================================================
