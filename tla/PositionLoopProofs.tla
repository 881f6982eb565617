-------------------------- MODULE PositionLoopProofs --------------------------
(***************************************************************************)
(* Proofs about PositionLoop, for any sizes, any number of slots, stop     *)
(* levels, CLOSE decisions, failing calls and cut-off cycles.              *)
(*                                                                         *)
(* LoopInv holds whatever fails: which action each await belongs to, that  *)
(* the loop's snapshot stays the record until the loop itself writes, and  *)
(* what the quantities in play can be.  MoveInv, OnceInv and CleanInv are  *)
(* inductive relative to it, each for one of the properties.               *)
(***************************************************************************)
EXTENDS PositionLoop, TLAPS

MoveSteps == {"listStops", "placeMoved", "saveMoved", "cancelOld"}
PartSteps == {"sellPart", "flag", "placeStop", "saveStop", "placeTarget", "saveTarget"}
SaveSteps == {"saveMoved", "saveStop", "saveTarget"}

\* Each await is reached by its own actions, a save with an order to save, a
\* partial exit for a position that had none.
ActInv ==
  /\ pc \in MoveSteps => act = "move"
  /\ pc \in PartSteps => act = "partial"
  /\ pc \in {"sellAll", "remove"} => act = "exit"
  /\ pc \in {"listAll", "cancelAll"} => act \in {"partial", "exit"}
  /\ pc = "update" => act \in {"move", "partial"}
  /\ pc \in SaveSteps => fresh \in Slots
  /\ pc \notin {"idle", "evaluate"} /\ act = "partial" => ~pos.done

\* Only the loop writes the record, so its snapshot stays current up to the
\* flag it stores itself.
SnapInv ==
  pc # "idle" =>
    \/ rec = pos
    \/ /\ pc \in {"listAll", "cancelAll", "placeStop", "saveStop", "placeTarget",
                  "saveTarget", "update"}
       /\ act = "partial"
       /\ rec = [pos EXCEPT !.done = TRUE]

\* A position has its opening size until its one partial exit.
Sizes == {Size, Size - Part}

SizeInv ==
  /\ rec.qty \in Sizes /\ (~rec.done => rec.qty = Size)
  /\ pos.qty \in Sizes /\ (~pos.done => pos.qty = Size)
  /\ \A l \in Slots : legs[l].size \in Sizes
  /\ cpc = "submit" => cqty \in Sizes
  /\ cpc \in {"list", "cancel", "remove", "done"} => qty <= Part

LoopInv == TypeOK /\ ActInv /\ SnapInv /\ SizeInv

\* From the moment the new stop is placed, a live stop is not to be withdrawn,
\* unless the exposure is no longer what the cycle saw.
MoveInv ==
  pc \in {"saveMoved", "cancelOld"} /\ qty >= pos.qty =>
    \E l \in Live("sl") : l \notin work

\* Between a partial sale and the flag that says so there is room for one fault.
OnceInv ==
  faults <= 1 /\ timeouts = 0 =>
    /\ sold <= 1
    /\ sold = 1 =>
         \/ rec.done
         \/ pc = "flag"
         \/ pc = "update" /\ act = "partial" /\ faults = 1
-----------------------------------------------------------------------------
Quiet == faults = 0 /\ timeouts = 0

StopAt(price) == \E l \in Live("sl") : legs[l].level = price

\* The record and every order cover the exposure, and an exit ends it.
CoverInv ==
  /\ qty <= rec.qty
  /\ \A l \in Slots : legs[l].live => qty <= legs[l].size
  /\ pc \in PartSteps \ {"sellPart"} \/ (pc \in {"listAll", "cancelAll", "update"} /\ act = "partial")
       => qty <= Remaining
  /\ pc \in {"listAll", "cancelAll", "remove"} /\ act = "exit" => qty = 0
  /\ cpc = "submit" => qty <= cqty
  /\ cpc \in {"list", "cancel", "remove", "done"} => qty = 0
  /\ ~stored => qty = 0

\* Which price an open position has a live stop at.
StopInv ==
  qty > 0 =>
    /\ pc \in {"idle", "evaluate", "listStops", "placeMoved", "sellPart", "sellAll"}
         => StopAt(rec.stop)
    /\ pc \in {"saveMoved", "cancelOld"}
         => \E l \in Live("sl") : legs[l].level = level /\ l \notin work
    /\ pc = "update" /\ act = "move" => StopAt(level)
    /\ pc \in {"saveStop", "placeTarget", "saveTarget"} \/ (pc = "update" /\ act = "partial")
         => StopAt(pos.stop)

CleanInv == Quiet => CoverInv /\ StopInv

\* Before a CLOSE is taken up, every live order is linked or about to be, and a
\* cycle that withdraws them all has them in hand.
NoCloseInv ==
  closes = Closes =>
    /\ cpc = "idle"
    /\ Quiet =>
         /\ \A l \in Slots : legs[l].live => l \in linked \/ (pc \in SaveSteps /\ l = fresh)
         /\ pc = "cancelAll" => \A l \in Slots : legs[l].live => l \in work
         /\ pc = "remove" \/ ~stored => \A l \in Slots : ~legs[l].live
         /\ ~stored => pc = "idle"
-----------------------------------------------------------------------------
(* The parts that hold whatever fails.                                     *)

(* An opened position, with its stop and its target, before the first cycle. *)
LEMMA InitLoop == Init => LoopInv
  BY LoopAssumption
  DEF Init, LoopInv, TypeOK, ActInv, SnapInv, SizeInv, Sizes, Record, Leg, Actions, LoopSteps,
      CloseSteps, MoveSteps, PartSteps, SaveSteps

(* What placing, and withdrawing or executing, an order does to the orders. *)
LEMMA LegPlaced ==
  ASSUME legs \in [Slots -> Leg], NEW l \in Slots, NEW kind \in {"sl", "tp"},
         NEW lvl \in 0..MaxLevel, NEW size \in 0..Size,
         legs' = [legs EXCEPT ![l] = [kind |-> kind, level |-> lvl, size |-> size, live |-> TRUE]]
  PROVE  /\ legs' \in [Slots -> Leg]
         /\ \A m \in Slots : m # l => legs'[m] = legs[m]
         /\ legs'[l].live = TRUE /\ legs'[l].kind = kind
         /\ legs'[l].level = lvl /\ legs'[l].size = size
  BY DEF Leg

(* An order that is withdrawn, executed or expired is not live any more.   *)
LEMMA LegEnded ==
  ASSUME legs \in [Slots -> Leg], NEW l \in Slots, legs' = [legs EXCEPT ![l].live = FALSE]
  PROVE  /\ legs' \in [Slots -> Leg]
         /\ \A m \in Slots : legs'[m].kind = legs[m].kind /\ legs'[m].level = legs[m].level
                              /\ legs'[m].size = legs[m].size
         /\ \A m \in Slots : legs'[m].live <=> legs[m].live /\ m # l
  BY DEF Leg

(* The fields of a stored position.                                        *)
LEMMA RecordFields ==
  \A r \in Record : r.stop \in 0..MaxLevel /\ r.qty \in 0..Size /\ r.done \in BOOLEAN
  BY DEF Record

(* The records the loop writes: a flag, a moved stop.                      *)
LEMMA FlagWritten ==
  ASSUME NEW r \in Record, NEW w, w = [r EXCEPT !.done = TRUE]
  PROVE  w \in Record /\ w.stop = r.stop /\ w.qty = r.qty /\ w.done = TRUE
  BY DEF Record

(* update_position with the moved stop.                                    *)
LEMMA StopWritten ==
  ASSUME NEW r \in Record, NEW s \in 0..MaxLevel, NEW w, w = [r EXCEPT !.stop = s]
  PROVE  w \in Record /\ w.stop = s /\ w.qty = r.qty /\ w.done = r.done
  BY DEF Record

(* What a cycle decides, and the actions that place, sell and store.       *)
LEMMA CycleLoop == LoopInv /\ Cycle => LoopInv'
  <1> SUFFICES ASSUME LoopInv, Cycle  PROVE LoopInv'
    OBVIOUS
  <1> USE LoopAssumption
  <1> USE DEF LoopInv, TypeOK, ActInv, SnapInv, SizeInv, Sizes, Actions, LoopSteps,
      CloseSteps, MoveSteps, PartSteps, SaveSteps, exchangeVars, storeVars, closeVars, Step
  <1>1. CASE Snapshot
    BY <1>1, SMTT(30) DEF Snapshot
  <1>2. CASE NothingStored
    BY <1>2, SMTT(30) DEF NothingStored, vars, loopVars
  <1>3. CASE NoAction \/ Move \/ PartialExit \/ FullExit
    BY <1>3, RecordFields, SMTT(30) DEF NoAction, Move, PartialExit, FullExit, Evaluate
  <1>4. CASE ListStops \/ ListAll
    BY <1>4, SMTT(30) DEF ListStops, ListAll, List, Call, Cost
  <1>5. ASSUME NEW kind \in {"sl", "tp"}, NEW lvl \in 0..MaxLevel, NEW size \in Sizes,
               NEW from \in LoopSteps, NEW to, NEW failed, Place(kind, lvl, size, from, to, failed),
               <<from, to, failed>> \in {<<"placeMoved", "saveMoved", "update">>,
                                        <<"placeStop", "saveStop", "idle">>,
                                        <<"placeTarget", "saveTarget", "idle">>}
        PROVE  LoopInv'
    <2>1. size \in 0..Size
      BY DEF Sizes
    <2>2. /\ legs' \in [Slots -> Leg] /\ \A l \in Slots : legs'[l].size \in Sizes
          /\ UNCHANGED <<qty, storeVars, closeVars, pos, act, level, sold, timeouts>>
          /\ faults' \in 0..MaxFaults
          /\ \/ pc' = to /\ fresh' \in Slots /\ work' = work
             \/ pc' = failed /\ fresh' \in Slots \cup {None} /\ work' = {}
      <3>0. Free \subseteq Slots
        BY DEF Free
      <3>1. CASE legs' = legs
        BY <1>5, <3>0, <3>1 DEF Place, Call, Cost
      <3>2. ASSUME NEW l \in Free,
                   legs' = [legs EXCEPT ![l] = [kind |-> kind, level |-> lvl, size |-> size, live |-> TRUE]]
            PROVE  legs' \in [Slots -> Leg] /\ \A m \in Slots : legs'[m].size \in Sizes
        <4>1. l \in Slots
          BY DEF Free
        <4>2. /\ legs' \in [Slots -> Leg] /\ legs'[l].size = size
              /\ \A m \in Slots : m # l => legs'[m] = legs[m]
          <5>1. legs \in [Slots -> Leg]
            OBVIOUS
          <5> HIDE DEF LoopInv
          <5>2. QED  BY <2>1, <3>2, <4>1, <5>1, LegPlaced, Zenon
        <4>3. QED  BY <4>2
      <3>3. QED  BY <1>5, <3>1, <3>2 DEF Place, Call, Cost
    <2>3. pc = from
      BY <1>5 DEF Place
    <2>4. QED  BY <1>5, <2>2, <2>3, SMTT(30)
  <1>6. CASE PlaceMoved \/ PlaceStop \/ PlaceTarget
    <2>1. pos.stop \in 0..MaxLevel /\ pos.qty \in Sizes
      BY RecordFields
    <2>2. pc \in {"placeStop", "placeTarget"} => Remaining \in Sizes
      BY DEF Remaining
    <2>3. QED  BY <1>5, <1>6, <2>1, <2>2 DEF PlaceMoved, PlaceStop, PlaceTarget, Place
  <1>7. CASE SaveMoved \/ SaveStop \/ SaveTarget
    BY <1>7, SMTT(30) DEF SaveMoved, SaveStop, SaveTarget, Save, Call, Cost, Outcomes, Lands
  <1>8. CASE CancelOld \/ CancelAll
    <2>1. /\ legs' \in [Slots -> Leg] /\ \A l \in Slots : legs'[l].size \in Sizes
      BY <1>8, LegEnded DEF CancelOld, CancelAll, Cancel
    <2>2. QED  BY <1>8, <2>1, SMTT(30) DEF CancelOld, CancelAll, Cancel, Cost, Outcomes, Lands
  <1>9. CASE OldCancelled \/ AllCancelled
    BY <1>9, SMTT(30) DEF OldCancelled, AllCancelled, Cancelled
  <1>10. CASE SellPart \/ SellAll
    BY <1>10, SMTT(30) DEF SellPart, SellAll, Sell, Call, Cost, Outcomes, Lands, Less
  <1>11. CASE Flag
    <2>1. \A w : w = [pos EXCEPT !.done = TRUE] => w \in Record /\ w.qty = pos.qty /\ w.done = TRUE
      BY FlagWritten
    <2>2. stored' \in BOOLEAN
      BY <1>11 DEF Flag, Write
    <2>3. /\ pc = "flag" /\ faults' \in 0..MaxFaults
          /\ \/ pc' \in {"listAll", "update"} /\ rec' = [pos EXCEPT !.done = TRUE]
             \/ pc' = "update" /\ rec' = rec
          /\ UNCHANGED <<exchangeVars, linked, pos, act, level, work, fresh, sold, closeVars, timeouts>>
      BY <1>11 DEF Flag, Write, Call, Cost, Outcomes, Lands
    <2>4. TypeOK'
      BY <2>1, <2>2, <2>3
    <2>5. ActInv'
      BY <2>3
    <2>6. SnapInv'
      BY <2>3
    <2>7. SizeInv'
      BY <2>1, <2>3
    <2>8. QED  BY <2>4, <2>5, <2>6, <2>7
  <1>12. CASE Update
    <2>1. Updated \in Record /\ Updated.qty \in Sizes /\ (~Updated.done => Updated.qty = Size)
      <3>1. CASE act = "move"
        BY <3>1, StopWritten DEF Updated
      <3>2. CASE act # "move"
        <4>1. act = "partial" /\ pos.qty = Size /\ Remaining = Size - Part /\ Remaining \in 0..Size
          BY <1>12, <3>2 DEF Update, Write, Remaining
        <4>2. Updated = [pos EXCEPT !.qty = Remaining, !.done = TRUE]
          BY <3>2 DEF Updated
        <4>3. Updated \in Record /\ Updated.qty = Remaining /\ Updated.done = TRUE
          <5> HIDE DEF LoopInv, TypeOK, ActInv, SnapInv, SizeInv
          <5>1. pos \in Record
            BY DEF LoopInv, TypeOK
          <5>2. QED  BY <4>1, <4>2, <5>1 DEF Record
        <4>4. QED  BY <4>1, <4>3
      <3>3. QED  BY <3>1, <3>2
    <2>2. stored' \in BOOLEAN /\ (rec' = rec \/ rec' = Updated)
      BY <1>12 DEF Update, Write
    <2>3. QED  BY <1>12, <2>1, <2>2, SMTT(30) DEF Update, Write, Call, Cost, Outcomes, Lands
  <1>13. CASE Remove
    <2>1. stored' \in BOOLEAN
      BY <1>13 DEF Remove
    <2>2. /\ pc' = "idle" /\ faults' \in 0..MaxFaults
          /\ UNCHANGED <<exchangeVars, rec, linked, pos, act, level, work, fresh, sold, closeVars, timeouts>>
      BY <1>13 DEF Remove, Call, Cost, Outcomes
    <2>3. QED  BY <2>1, <2>2, SMTT(30)
  <1>14. QED
    BY <1>1, <1>2, <1>3, <1>4, <1>5, <1>6, <1>7, <1>8, <1>9, <1>10, <1>11, <1>12, <1>13 DEF Cycle

(* A CLOSE sells what the record says, and then has sold all but a part.   *)
LEMMA CloseLoop == LoopInv /\ Close => LoopInv'
  <1> SUFFICES ASSUME LoopInv, Close  PROVE LoopInv'
    OBVIOUS
  <1> USE LoopAssumption
  <1> USE DEF LoopInv, TypeOK, ActInv, SnapInv, SizeInv, Sizes, Actions, LoopSteps, CloseSteps,
      exchangeVars, storeVars, loopVars, Closer, Call, Cost, Outcomes, Lands
  <1>1. CASE CloseRead
    BY <1>1, RecordFields, SMTT(30) DEF CloseRead
  <1>2. CASE CloseSubmit
    BY <1>2, SMTT(30) DEF CloseSubmit, Less
  <1>3. CASE CloseList \/ CloseCancelled
    BY <1>3, SMTT(30) DEF CloseList, CloseCancelled
  <1>4. CASE CloseCancel
    <2>1. legs' \in [Slots -> Leg] /\ \A l \in Slots : legs'[l].size \in Sizes
      BY <1>4, LegEnded DEF CloseCancel
    <2>2. QED  BY <1>4, <2>1, SMTT(30) DEF CloseCancel
  <1>5. CASE CloseRemove
    <2>1. stored' \in BOOLEAN
      BY <1>5 DEF CloseRemove
    <2>2. /\ cpc = "remove" /\ cpc' = "done" /\ faults' \in 0..MaxFaults
          /\ UNCHANGED <<exchangeVars, rec, linked, cqty, cwork, closes, loopVars, sold, timeouts>>
      BY <1>5 DEF CloseRemove
    <2>3. QED  BY <2>1, <2>2, SMTT(30)
  <1>6. QED  BY <1>1, <1>2, <1>3, <1>4, <1>5 DEF Close

(* The exchange only ends orders and reduces; a timeout only lets go.      *)
LEMMA OutsideLoop ==
  LoopInv /\ (Timeout \/ UNCHANGED vars \/ \E l \in Slots : Trigger(l) \/ Expire(l)) => LoopInv'
  <1> USE LoopAssumption
  <1> USE DEF LoopInv, TypeOK, ActInv, SnapInv, SizeInv, Sizes, Actions, LoopSteps, CloseSteps,
      MoveSteps, PartSteps, SaveSteps, exchangeVars, storeVars, loopVars, closeVars
  <1>1. LoopInv /\ Timeout => LoopInv'
    BY SMTT(30) DEF Timeout
  <1>2. LoopInv /\ UNCHANGED vars => LoopInv'
    BY DEF vars
  <1>3. ASSUME LoopInv, NEW l \in Slots, Trigger(l) \/ Expire(l)
        PROVE  LoopInv'
    <2>1. legs' \in [Slots -> Leg] /\ \A m \in Slots : legs'[m].size \in Sizes
      BY <1>3, LegEnded DEF Trigger, Expire
    <2>2. QED  BY <1>3, <2>1, SMTT(30) DEF Trigger, Expire, Less
  <1>4. QED  BY <1>1, <1>2, <1>3

(* Whatever calls fail and cycles are cut off, the loop and the CLOSE keep *)
(* their places and the record keeps to the sizes there are.               *)
THEOREM LoopHolds == Spec => []LoopInv
  <1>1. LoopInv /\ [Next]_vars => LoopInv'
    BY CycleLoop, CloseLoop, OutsideLoop DEF Next
  <1>2. QED  BY InitLoop, <1>1, PTL DEF Spec
-----------------------------------------------------------------------------
(* Moving the stop.  A part is less than what it leaves (partial_exit_size *)
(* is 0.3 in schemas.py and 0.25 in config.yaml), so that whoever sells    *)
(* what the record says, an order or a CLOSE, leaves less than it says.    *)

(* Nothing the loop, a CLOSE or the exchange does opens more.              *)
LEMMA ExposureFalls == LoopInv /\ [Next]_vars => qty' \in 0..qty
  <1> SUFFICES ASSUME LoopInv, [Next]_vars  PROVE qty' \in 0..qty
    OBVIOUS
  <1>1. /\ qty \in Nat /\ Part \in Nat /\ pos.qty \in Nat /\ (cpc = "submit" => cqty \in Nat)
        /\ \A l \in Slots : legs[l].size \in Nat
    BY LoopAssumption DEF LoopInv, TypeOK, SizeInv, Sizes
  <1>2. CASE UNCHANGED qty
    BY <1>1, <1>2
  <1>3. CASE SellPart \/ SellAll \/ CloseSubmit
    BY <1>1, <1>3 DEF SellPart, SellAll, Sell, CloseSubmit, Closer, Less
  <1>4. ASSUME NEW l \in Slots, Trigger(l)
        PROVE  qty' \in 0..qty
    BY <1>1, <1>4 DEF Trigger, Less
  <1>5. QED
    BY <1>2, <1>3, <1>4
    DEF Next, Cycle, Close, Snapshot, NothingStored, NoAction, Move, PartialExit, FullExit, Evaluate,
        ListStops, ListAll, List, PlaceMoved, PlaceStop, PlaceTarget, Place, SaveMoved, SaveStop,
        SaveTarget, Save, CancelOld, CancelAll, Cancel, OldCancelled, AllCancelled, Cancelled, Flag,
        Update, Write, Remove, Timeout, Expire, CloseRead, CloseList, CloseCancel, CloseCancelled,
        CloseRemove, exchangeVars, vars

(* A stop is withdrawn only after another was placed (_execute_move_stop), *)
(* and what may remove the new one also reduces the exposure.              *)
LEMMA MoveInvKept ==
  ASSUME 2 * Part < Size, LoopInv, MoveInv, [Next]_vars
  PROVE  MoveInv'
  <1> SUFFICES ASSUME pc' \in {"saveMoved", "cancelOld"}, qty' >= pos'.qty
               PROVE  \E l \in Live("sl")' : l \notin work'
    BY DEF MoveInv
  <1> USE DEF exchangeVars, storeVars, loopVars, closeVars, Step
  <1>1. /\ legs \in [Slots -> Leg] /\ work \subseteq Slots /\ qty \in Nat /\ qty' \in 0..qty
        /\ pos.qty > Part /\ \A l \in Slots : legs[l].size > Part /\ legs[l].size + Part >= Size
        /\ qty <= Size /\ Part \in Nat /\ Size \in Nat /\ pos.qty \in Nat
        /\ \A l \in Slots : legs[l].size \in Nat
    BY ExposureFalls, LoopAssumption DEF LoopInv, TypeOK, SizeInv, Sizes
  <1>2. CASE PlaceMoved
    <2>1. pc' = "saveMoved" /\ pos' = pos /\ level \in 0..MaxLevel /\ pos.qty \in 0..Size
      BY <1>2 DEF PlaceMoved, Place, LoopInv, TypeOK, SizeInv, Record
    <2>2. PICK l \in Free : legs' = [legs EXCEPT ![l] = [kind |-> "sl", level |-> level,
                                                       size |-> pos.qty, live |-> TRUE]]
                             /\ work' = work
      BY <1>2, <2>1 DEF PlaceMoved, Place
    <2>3. l \in Slots /\ l \notin work
      BY DEF Free
    <2>4. legs'[l].live = TRUE /\ legs'[l].kind = "sl"
      BY <1>1, <2>1, <2>2, <2>3, LegPlaced
    <2>5. QED  BY <2>2, <2>3, <2>4 DEF Live
  <1>3. CASE SaveMoved
    BY <1>3 DEF SaveMoved, Save, MoveInv, Live
  <1>4. CASE CancelOld
    <2>1. PICK w \in Live("sl") : w \notin work
      BY <1>1, <1>4 DEF CancelOld, Cancel, MoveInv
    <2>2. PICK l \in work : legs' = legs \/ legs' = [legs EXCEPT ![l].live = FALSE]
      BY <1>4 DEF CancelOld, Cancel
    <2>3. w \in Slots /\ legs[w].live /\ legs[w].kind = "sl" /\ w # l
      BY <2>1, <2>2 DEF Live
    <2>4. legs'[w] = legs[w]
      BY <1>1, <2>2, <2>3
    <2>5. work' \subseteq work
      BY <1>4 DEF CancelOld, Cancel
    <2>6. QED  BY <2>1, <2>3, <2>4, <2>5 DEF Live
  <1>5. CASE CloseCancel
    BY <1>1, <1>5 DEF CloseCancel, Closer, LoopInv, SizeInv
  <1>6. ASSUME NEW l \in Slots, Trigger(l) \/ Expire(l)
        PROVE  \E m \in Live("sl")' : m \notin work'
    <2>1. qty' <= Part
      BY <1>1, <1>6 DEF Trigger, Expire, Less
    <2>2. QED  BY <1>1, <1>6, <2>1 DEF Trigger, Expire
  <1>7. CASE UNCHANGED <<legs, pc, pos, work>>
    BY <1>1, <1>7 DEF MoveInv, Live
  <1>8. QED
    BY <1>2, <1>3, <1>4, <1>5, <1>6, <1>7
    DEF Next, Cycle, Close, Snapshot, NothingStored, NoAction, Move, PartialExit, FullExit, Evaluate,
        ListStops, ListAll, List, PlaceStop, PlaceTarget, Place, SaveStop, SaveTarget, Save,
        CancelAll, Cancel, OldCancelled, AllCancelled, Cancelled, SellPart, SellAll, Sell, Flag,
        Update, Write, Remove, Timeout, CloseRead, CloseSubmit, CloseList, CloseCancelled,
        CloseRemove, Closer, vars

(* Whatever fails and wherever a cycle is cut off, moving the stop of a    *)
(* position that still has the exposure the cycle saw never withdraws its  *)
(* last live stop, although a CLOSE cancels orders meanwhile               *)
(* (_move_stop_loss).                                                      *)
THEOREM MoveKeepsAStopHolds ==
  ASSUME 2 * Part < Size
  PROVE  Spec => MoveKeepsAStop
  <1>1. Init => MoveInv
    BY DEF Init, MoveInv
  <1>2. LoopInv /\ MoveInv /\ [Next]_vars => MoveInv'
    BY MoveInvKept
  <1>3. LoopInv /\ MoveInv /\ [Next]_vars =>
          [pc = "cancelOld" /\ qty >= pos.qty /\ qty' = qty /\ Live("sl") # {}
             => Live("sl")' # {}]_vars
    <2> SUFFICES ASSUME LoopInv, MoveInv, Next, pc = "cancelOld", qty >= pos.qty, qty' = qty
                 PROVE  Live("sl")' # {}
      OBVIOUS
    <2> USE DEF exchangeVars, storeVars, loopVars, closeVars, Step
    <2>1. PICK w \in Live("sl") : w \notin work
      BY DEF MoveInv
    <2>2. /\ legs \in [Slots -> Leg] /\ qty \in Nat /\ pos.qty \in Nat /\ Part \in Nat /\ pos.qty > Part /\ qty > 0
          /\ \A l \in Slots : legs[l].size \in Nat /\ legs[l].size > 0
      BY LoopAssumption DEF LoopInv, TypeOK, SizeInv, Sizes
    <2>3. w \in Slots /\ legs[w].live /\ legs[w].kind = "sl"
      BY DEF Live
    <2>4. CASE CancelOld
      <3>1. PICK l \in work : legs' = legs \/ legs' = [legs EXCEPT ![l].live = FALSE]
        BY <2>4 DEF CancelOld, Cancel
      <3>2. legs'[w] = legs[w]
        BY <2>1, <2>2, <2>3, <3>1
      <3>3. QED  BY <2>3, <3>2 DEF Live
    <2>5. CASE CloseCancel
      BY <2>2, <2>5 DEF CloseCancel, Closer, LoopInv, SizeInv
    <2>6. ASSUME NEW l \in Slots, Trigger(l) \/ Expire(l)
          PROVE  FALSE
      BY <2>2, <2>6 DEF Trigger, Expire, Less
    <2>7. CASE UNCHANGED legs
      BY <2>3, <2>7 DEF Live
    <2>8. QED
      BY <2>4, <2>5, <2>6, <2>7
      DEF Next, Cycle, Close, Snapshot, NothingStored, NoAction, Move, PartialExit, FullExit, Evaluate,
          ListStops, ListAll, List, PlaceMoved, PlaceStop, PlaceTarget, Place, SaveMoved, SaveStop,
          SaveTarget, Save, CancelAll, Cancel, OldCancelled, AllCancelled, Cancelled, SellPart, SellAll,
          Sell, Flag, Update, Write, Remove, Timeout, CloseRead, CloseSubmit, CloseList,
          CloseCancelled, CloseRemove, Closer
  <1>4. QED  BY <1>1, <1>2, <1>3, LoopHolds, PTL DEF Spec, MoveKeepsAStop
-----------------------------------------------------------------------------
(* Faults and timeouts are never forgotten.                                *)
LEMMA FaultsGrow ==
  LoopInv /\ [Next]_vars => faults' \in Nat /\ faults' >= faults /\ timeouts' \in Nat /\ timeouts' >= timeouts
  <1> SUFFICES ASSUME LoopInv, [Next]_vars
               PROVE  faults' \in Nat /\ faults' >= faults /\ timeouts' \in Nat /\ timeouts' >= timeouts
    OBVIOUS
  <1>1. faults \in Nat /\ timeouts \in Nat
    BY LoopAssumption DEF LoopInv, TypeOK
  <1>2. \A r : Call(r) => faults' \in Nat /\ faults' >= faults
    BY <1>1 DEF Call, Cost
  <1> USE DEF Call, Cost, closeVars, Step, Closer
  <1>3. CASE Cycle
    <2>1. timeouts' = timeouts
      BY <1>3
      DEF Cycle, Snapshot, NothingStored, NoAction, Move, PartialExit, FullExit, Evaluate, ListStops,
          ListAll, List, PlaceMoved, PlaceStop, PlaceTarget, Place, SaveMoved, SaveStop, SaveTarget,
          Save, CancelOld, CancelAll, Cancel, OldCancelled, AllCancelled, Cancelled, SellPart,
          SellAll, Sell, Flag, Update, Write, Remove, vars
    <2>2. CASE CancelOld \/ CancelAll
      BY <1>1, <2>2 DEF CancelOld, CancelAll, Cancel
    <2>3. CASE SellPart \/ SellAll \/ Flag \/ Update \/ Remove
      <3>1. CASE SellPart
        BY <1>1, <3>1 DEF SellPart, Sell
      <3>2. CASE SellAll
        BY <1>1, <3>2 DEF SellAll, Sell
      <3>3. CASE Flag \/ Update \/ Remove
        <4> HIDE DEF Call
        <4>1. timeouts' = timeouts /\ \E r \in Outcomes : Call(r)
          BY <3>3 DEF Flag, Update, Write, Remove
        <4>2. QED  BY <1>1, <1>2, <4>1
      <3>4. QED  BY <2>3, <3>1, <3>2, <3>3
    <2>4. CASE PlaceMoved \/ PlaceStop \/ PlaceTarget
      BY <1>1, <2>4 DEF PlaceMoved, PlaceStop, PlaceTarget, Place
    <2>5. CASE ListStops \/ ListAll \/ SaveMoved \/ SaveStop \/ SaveTarget
      BY <1>1, <2>5 DEF ListStops, ListAll, List, SaveMoved, SaveStop, SaveTarget, Save
    <2>6. CASE UNCHANGED faults
      BY <1>1, <2>1, <2>6
    <2>7. QED
      BY <1>1, <1>3, <2>1, <2>2, <2>3, <2>4, <2>5, <2>6
      DEF Cycle, Snapshot, NothingStored, NoAction, Move, PartialExit, FullExit, Evaluate, OldCancelled,
          AllCancelled, Cancelled, vars
  <1>4. CASE Close
    <2>1. CASE CloseCancel
      BY <1>1, <2>1 DEF CloseCancel
    <2>2. CASE CloseSubmit \/ CloseList \/ CloseRemove
      <3> HIDE DEF Call
      <3>1. timeouts' = timeouts /\ (faults' = faults \/ \E r \in Outcomes : Call(r))
        BY <2>2 DEF CloseSubmit, CloseList, CloseRemove, Outcomes
      <3>2. QED  BY <1>1, <1>2, <3>1
    <2>3. CASE CloseRead \/ CloseCancelled
      BY <1>1, <2>3 DEF CloseRead, CloseCancelled
    <2>4. QED  BY <1>4, <2>1, <2>2, <2>3 DEF Close
  <1>5. CASE Timeout \/ UNCHANGED vars \/ \E l \in Slots : Trigger(l) \/ Expire(l)
    BY <1>1, <1>5 DEF Timeout, Trigger, Expire, vars
  <1>6. QED  BY <1>3, <1>4, <1>5 DEF Next

(* One fault at the most leaves the partial sale, its flag or the update   *)
(* that follows it, and each of them says that it was done.                *)
LEMMA OnceInvKept ==
  ASSUME LoopInv, OnceInv, [Next]_vars
  PROVE  OnceInv'
  <1> SUFFICES ASSUME faults' <= 1, timeouts' = 0
               PROVE  /\ sold' <= 1
                      /\ sold' = 1 => \/ rec'.done
                                      \/ pc' = "flag"
                                      \/ pc' = "update" /\ act' = "partial" /\ faults' = 1
    BY DEF OnceInv
  <1> USE DEF exchangeVars, storeVars, loopVars, closeVars, Step, Call, Cost, Outcomes, Lands
  <1>1. /\ faults \in Nat /\ faults <= 1 /\ timeouts = 0 /\ faults' \in Nat /\ faults' >= faults
        /\ sold \in Nat /\ sold <= 1
        /\ sold = 1 => rec.done \/ pc = "flag" \/ (pc = "update" /\ act = "partial" /\ faults = 1)
    BY FaultsGrow, LoopAssumption DEF LoopInv, TypeOK, OnceInv
  <1>2. pos \in Record /\ rec \in Record /\ level \in 0..MaxLevel
    BY DEF LoopInv, TypeOK
  <1>3. CASE SellPart \/ SellAll
    <2>1. CASE SellPart
      <3>1. act = "partial" /\ ~rec.done /\ sold = 0
        BY <1>1, <2>1 DEF SellPart, Sell, LoopInv, ActInv, SnapInv, PartSteps
      <3>2. QED  BY <1>1, <2>1, <3>1 DEF SellPart, Sell
    <2>2. CASE SellAll
      BY <1>1, <2>2 DEF SellAll, Sell, LoopInv, ActInv
    <2>3. QED  BY <1>3, <2>1, <2>2
  <1>4. CASE Flag
    <2>1. \A w : w = [pos EXCEPT !.done = TRUE] => w.done = TRUE
      BY <1>2, FlagWritten
    <2>2. act = "partial"
      BY <1>4 DEF Flag, Write, LoopInv, ActInv, PartSteps
    <2>3. QED  BY <1>1, <1>4, <2>1, <2>2 DEF Flag, Write
  <1>5. CASE Update
    <2>1. Updated.done = IF act = "move" THEN pos.done ELSE TRUE
      BY <1>2 DEF Updated, Record
    <2>2. act = "move" => rec = pos
      BY <1>5 DEF Update, Write, LoopInv, SnapInv
    <2>3. /\ pc = "update" /\ sold' = sold /\ act \in {"move", "partial"}
          /\ rec' = Updated \/ (rec' = rec /\ faults' = faults + 1)
      BY <1>5 DEF Update, Write, LoopInv, ActInv
    <2>4. CASE rec' = Updated
      <3>1. CASE act = "move"
        BY <1>1, <2>1, <2>2, <2>3, <2>4, <3>1
      <3>2. CASE act = "partial"
        BY <1>1, <2>1, <2>3, <2>4, <3>2
      <3>3. QED  BY <2>3, <3>1, <3>2
    <2>5. CASE rec' = rec /\ faults' = faults + 1
      BY <1>1, <2>3, <2>5
    <2>6. QED  BY <2>3, <2>4, <2>5
  <1>6. CASE UNCHANGED <<rec, sold>> /\ pc # "flag" /\ pc # "update"
    BY <1>1, <1>6
  <1>7. CASE UNCHANGED <<rec, sold, pc, act>>
    BY <1>1, <1>7
  <1>8. CASE Timeout
    BY <1>1, <1>8 DEF Timeout
  <1>9. QED
    BY <1>3, <1>4, <1>5, <1>6, <1>7, <1>8
    DEF Next, Cycle, Close, Snapshot, NothingStored, NoAction, Move, PartialExit, FullExit, Evaluate,
        ListStops, ListAll, List, PlaceMoved, PlaceStop, PlaceTarget, Place, SaveMoved, SaveStop,
        SaveTarget, Save, CancelOld, CancelAll, Cancel, OldCancelled, AllCancelled, Cancelled,
        Remove, CloseRead, CloseSubmit, CloseList, CloseCancel, CloseCancelled, CloseRemove, Closer,
        Trigger, Expire, vars

(* One failing call, in cycles that are not cut off, never makes the loop  *)
(* sell a second partial exit (_partial_exit).                             *)
THEOREM PartialExitOnceHolds == Spec => []PartialExitOnce
  <1>1. Init => OnceInv
    BY DEF Init, OnceInv
  <1>2. LoopInv /\ OnceInv /\ [Next]_vars => OnceInv'
    BY OnceInvKept
  <1>3. OnceInv => PartialExitOnce
    BY DEF OnceInv, PartialExitOnce
  <1>4. QED  BY <1>1, <1>2, <1>3, LoopHolds, PTL DEF Spec
-----------------------------------------------------------------------------
(* As long as nothing fails.                                               *)

(* Only the loop's own sales lower what it has to cover.                   *)
LEMMA CoverKept ==
  ASSUME LoopInv, CoverInv, Quiet, Quiet', [Next]_vars
  PROVE  CoverInv'
  <1> USE DEF exchangeVars, storeVars, loopVars, closeVars, Step, Closer, Call, Cost, Outcomes, Lands,
              Quiet, PartSteps
  <1>1. /\ qty \in Nat /\ qty' \in 0..qty /\ Part \in Nat /\ Size \in Nat /\ Part < Size
        /\ rec.qty \in Nat /\ pos.qty \in Nat /\ pos.qty >= Size - Part /\ (~pos.done => pos.qty = Size)
        /\ cqty \in Nat /\ pos \in Record /\ rec \in Record /\ level \in 0..MaxLevel
        /\ legs \in [Slots -> Leg] /\ \A l \in Slots : legs[l].size \in Nat
    BY ExposureFalls, LoopAssumption DEF LoopInv, TypeOK, SizeInv, Sizes
  <1>2. /\ pc # "idle" => rec.qty = pos.qty
        /\ pc # "idle" /\ pc # "evaluate" /\ act = "partial" => Remaining = Size - Part /\ pos.qty = Size
    <2>1. \A w : w = [pos EXCEPT !.done = TRUE] => w.qty = pos.qty
      BY <1>1, FlagWritten
    <2>2. QED  BY <1>1, <2>1 DEF LoopInv, SnapInv, ActInv, Remaining
  <1>3. CASE Snapshot \/ NothingStored \/ NoAction \/ Move \/ PartialExit \/ FullExit
    BY <1>1, <1>3
    DEF Snapshot, NothingStored, vars, NoAction, Move, PartialExit, FullExit, Evaluate, CoverInv, Remaining
  <1>4. CASE ListStops \/ ListAll
    BY <1>1, <1>4 DEF ListStops, ListAll, List, CoverInv, Remaining
  <1>5. CASE SaveMoved \/ SaveStop \/ SaveTarget
    BY <1>1, <1>5 DEF SaveMoved, SaveStop, SaveTarget, Save, CoverInv, Remaining, LoopInv, ActInv, MoveSteps
  <1>6. CASE OldCancelled \/ AllCancelled
    BY <1>1, <1>6 DEF OldCancelled, AllCancelled, Cancelled, CoverInv, Remaining, LoopInv, ActInv, MoveSteps
  <1>7. CASE CancelOld \/ CancelAll
    <2>1. \A l \in Slots : legs'[l].live => legs[l].live /\ legs'[l].size = legs[l].size
      <3>1. PICK l \in Slots : legs' = legs \/ legs' = [legs EXCEPT ![l].live = FALSE]
        BY <1>7 DEF CancelOld, CancelAll, Cancel, LoopInv, TypeOK
      <3>2. QED  BY <1>1, <3>1, LegEnded
    <2>2. QED  BY <1>1, <1>7, <2>1 DEF CancelOld, CancelAll, Cancel, CoverInv, Remaining
  <1>8. CASE PlaceMoved
    <2>1. CASE legs' = legs
      BY <1>1, <1>8, <2>1 DEF PlaceMoved, Place, CoverInv, LoopInv, ActInv, MoveSteps
    <2>2. ASSUME NEW l \in Free, legs' = [legs EXCEPT ![l] = [kind |-> "sl", level |-> level,
                                                     size |-> pos.qty, live |-> TRUE]]
          PROVE  CoverInv'
      <3>1. l \in Slots /\ pos.qty \in 0..Size
        BY <1>1, RecordFields DEF Free
      <3>2. legs'[l].size = pos.qty /\ \A m \in Slots : m # l => legs'[m] = legs[m]
        BY <1>1, <2>2, <3>1, LegPlaced
      <3>3. qty <= pos.qty
        BY <1>2, <1>8 DEF PlaceMoved, Place, CoverInv
      <3>4. QED
        BY <1>1, <1>8, <3>2, <3>3 DEF PlaceMoved, Place, CoverInv, LoopInv, ActInv, MoveSteps
    <2>3. QED  BY <1>8, <2>1, <2>2 DEF PlaceMoved, Place
  <1>9. CASE PlaceStop \/ PlaceTarget
    <2>1. pos' = pos /\ act' = act /\ qty' = qty /\ act = "partial" /\ Remaining \in 0..Size
          /\ qty <= Remaining /\ UNCHANGED <<storeVars, closeVars>>
      BY <1>1, <1>2, <1>9 DEF PlaceStop, PlaceTarget, Place, CoverInv, LoopInv, ActInv
    <2>2. CASE legs' = legs
      BY <1>1, <1>9, <2>1, <2>2 DEF PlaceStop, PlaceTarget, Place, CoverInv, Remaining
    <2>3. ASSUME NEW l \in Free, NEW kind \in {"sl", "tp"}, NEW lvl \in 0..MaxLevel,
                 legs' = [legs EXCEPT ![l] = [kind |-> kind, level |-> lvl,
                                             size |-> Remaining, live |-> TRUE]]
          PROVE  CoverInv'
      <3>1. l \in Slots
        BY DEF Free
      <3>2. legs'[l].size = Remaining /\ \A m \in Slots : m # l => legs'[m] = legs[m]
        BY <1>1, <2>1, <2>3, <3>1, LegPlaced
      <3>3. pc' \in {"saveStop", "saveTarget", "idle"}
        BY <1>9 DEF PlaceStop, PlaceTarget, Place
      <3>4. QED
        BY <1>1, <2>1, <3>2, <3>3 DEF CoverInv, Remaining
    <2>4. pos.stop \in 0..MaxLevel /\ 0 \in 0..MaxLevel
      BY <1>1, RecordFields, LoopAssumption
    <2>5. QED  BY <1>9, <2>2, <2>3, <2>4 DEF PlaceStop, PlaceTarget, Place
  <1>10. CASE SellPart
    BY <1>1, <1>2, <1>10 DEF SellPart, Sell, Less, CoverInv, Remaining, LoopInv, ActInv
  <1>11. CASE SellAll
    BY <1>1, <1>2, <1>11 DEF SellAll, Sell, Less, CoverInv, Remaining, LoopInv, ActInv
  <1>12. CASE Flag
    <2>1. \A w : w = [pos EXCEPT !.done = TRUE] => w.qty = pos.qty
      BY <1>1, FlagWritten
    <2>2. /\ pc = "flag" /\ pc' = "listAll" /\ act = "partial" /\ stored' = TRUE
          /\ rec' = [pos EXCEPT !.done = TRUE]
          /\ UNCHANGED <<exchangeVars, linked, pos, act, closeVars>>
      BY <1>1, <1>12 DEF Flag, Write, LoopInv, ActInv
    <2>3. rec'.qty = rec.qty
      BY <1>2, <2>1, <2>2
    <2>4. QED  BY <1>1, <2>2, <2>3 DEF CoverInv, Remaining
  <1>13. CASE Update
    <2>1. /\ pc = "update" /\ pc' = "idle" /\ act \in {"move", "partial"} /\ stored' = TRUE
          /\ rec' = Updated /\ UNCHANGED <<exchangeVars, linked, pos, act, closeVars>>
      BY <1>1, <1>13 DEF Update, Write, LoopInv, ActInv
    <2>2. qty <= rec'.qty
      <3>1. CASE act = "move"
        <4>1. Updated.qty = pos.qty
          BY <1>1, <3>1, StopWritten DEF Updated
        <4>2. QED  BY <1>2, <2>1, <4>1 DEF CoverInv
      <3>2. CASE act = "partial"
        <4>1. Updated.qty = Remaining
          BY <1>1, <3>2 DEF Updated, Record
        <4>2. QED  BY <2>1, <3>2, <4>1 DEF CoverInv
      <3>3. QED  BY <2>1, <3>1, <3>2
    <2>3. QED  BY <1>1, <2>1, <2>2 DEF CoverInv, Remaining
  <1>14. CASE Remove
    BY <1>1, <1>14 DEF Remove, CoverInv, LoopInv, ActInv
  <1>15. CASE CloseRead
    BY <1>1, <1>15 DEF CloseRead, CoverInv, Remaining
  <1>16. CASE CloseSubmit
    BY <1>1, <1>16 DEF CloseSubmit, Less, CoverInv, Remaining
  <1>17. CASE CloseList \/ CloseCancelled
    BY <1>1, <1>17 DEF CloseList, CloseCancelled, CoverInv, Remaining
  <1>18. CASE CloseCancel
    <2>1. \A l \in Slots : legs'[l].live => legs[l].live /\ legs'[l].size = legs[l].size
      <3>1. PICK l \in Slots : legs' = legs \/ legs' = [legs EXCEPT ![l].live = FALSE]
        BY <1>18 DEF CloseCancel, LoopInv, TypeOK
      <3>2. QED  BY <1>1, <3>1, LegEnded
    <2>2. QED  BY <1>1, <1>18, <2>1 DEF CloseCancel, CoverInv, Remaining
  <1>19. CASE CloseRemove
    BY <1>1, <1>19 DEF CloseRemove, CoverInv, Remaining
  <1>20. ASSUME NEW l \in Slots, Trigger(l) \/ Expire(l)
         PROVE  CoverInv'
    <2>1. \A m \in Slots : legs'[m].live => legs[m].live /\ legs'[m].size = legs[m].size
      BY <1>1, <1>20, LegEnded DEF Trigger, Expire
    <2>2. QED  BY <1>1, <1>20, <2>1 DEF Trigger, Expire, CoverInv, Remaining
  <1>21. CASE UNCHANGED vars
    BY <1>21 DEF vars, CoverInv, Remaining
  <1>22. ~ Timeout
    BY <1>1 DEF Timeout
  <1>23. QED
    BY <1>3, <1>4, <1>5, <1>6, <1>7, <1>8, <1>9, <1>10, <1>11, <1>12, <1>13, <1>14, <1>15, <1>16,
       <1>17, <1>18, <1>19, <1>20, <1>21, <1>22
    DEF Next, Cycle, Close

(* An action that replaces or withdraws the stop does not let go of the    *)
(* position before another one is live at the price to be recorded.        *)
LEMMA StopKept ==
  ASSUME LoopInv, CoverInv, StopInv, Quiet, Quiet', [Next]_vars
  PROVE  StopInv'
  <1> USE DEF exchangeVars, storeVars, loopVars, closeVars, Step, Closer, Call, Cost, Outcomes, Lands,
              Quiet, PartSteps
  <1> SUFFICES ASSUME qty' > 0
               PROVE  StopInv'
    BY DEF StopInv
  <1>1. /\ qty \in Nat /\ qty' \in 0..qty /\ qty > 0
        /\ pos \in Record /\ rec \in Record /\ level \in 0..MaxLevel
        /\ legs \in [Slots -> Leg] /\ work \subseteq Slots
        /\ \A l \in Slots : legs[l].size \in Nat
    BY ExposureFalls, LoopAssumption DEF LoopInv, TypeOK, SizeInv, Sizes
  <1>2. pc # "idle" => rec.stop = pos.stop
    <2>1. \A w : w = [pos EXCEPT !.done = TRUE] => w.stop = pos.stop
      BY <1>1, FlagWritten
    <2>2. QED  BY <2>1 DEF LoopInv, SnapInv
  <1>3. CASE UNCHANGED <<legs, rec, pos, level, pc, act, work>>
    BY <1>1, <1>3 DEF StopInv, StopAt, Live
  <1>4. CASE Snapshot \/ NoAction \/ Move \/ PartialExit \/ FullExit
    BY <1>1, <1>4 DEF Snapshot, NoAction, Move, PartialExit, FullExit, Evaluate, StopInv, StopAt, Live
  <1>5. CASE ListStops \/ ListAll
    BY <1>1, <1>5 DEF ListStops, ListAll, List, StopInv, StopAt, Live
  <1>6. CASE PlaceMoved
    <2>1. /\ pc = "placeMoved" /\ pc' = "saveMoved" /\ level' = level /\ work' = work /\ act' = act
          /\ \E l \in Free : legs' = [legs EXCEPT ![l] = [kind |-> "sl", level |-> level,
                                                           size |-> pos.qty, live |-> TRUE]]
      BY <1>1, <1>6 DEF PlaceMoved, Place
    <2>2. PICK l \in Free : legs' = [legs EXCEPT ![l] = [kind |-> "sl", level |-> level,
                                                        size |-> pos.qty, live |-> TRUE]]
      BY <2>1
    <2>3. l \in Slots /\ l \notin work /\ pos.qty \in 0..Size
      BY <1>1, RecordFields DEF Free
    <2>4. legs'[l].live = TRUE /\ legs'[l].kind = "sl" /\ legs'[l].level = level
      BY <1>1, <2>2, <2>3, LegPlaced
    <2>5. QED  BY <2>1, <2>3, <2>4 DEF StopInv, Live
  <1>7. CASE SaveMoved
    BY <1>1, <1>7 DEF SaveMoved, Save, StopInv, Live
  <1>8. CASE CancelOld
    <2>1. PICK w \in Live("sl") : legs[w].level = level /\ w \notin work
      BY <1>1, <1>8 DEF CancelOld, Cancel, StopInv
    <2>2. PICK l \in work : legs' = legs \/ legs' = [legs EXCEPT ![l].live = FALSE]
      BY <1>8 DEF CancelOld, Cancel
    <2>3. w \in Slots /\ legs'[w] = legs[w]
      BY <1>1, <2>1, <2>2 DEF Live
    <2>4. work' \subseteq work /\ pc' = "cancelOld" /\ level' = level /\ act' = act
      BY <1>1, <1>8 DEF CancelOld, Cancel
    <2>5. QED  BY <2>1, <2>3, <2>4 DEF StopInv, Live
  <1>9. CASE OldCancelled
    BY <1>1, <1>9 DEF OldCancelled, Cancelled, StopInv, StopAt, Live, LoopInv, ActInv, MoveSteps
  <1>10. CASE SellPart \/ SellAll
    BY <1>1, <1>10 DEF SellPart, SellAll, Sell, Less, StopInv, CoverInv, LoopInv, ActInv
  <1>11. CASE Flag \/ CancelAll \/ AllCancelled \/ Remove
    <2>1. CASE Flag
      <3>1. pc' = "listAll"
        BY <1>1, <2>1 DEF Flag, Write
      <3>2. QED  BY <3>1 DEF StopInv
    <2>2. CASE CancelAll
      <3>1. pc' = "cancelAll"
        BY <1>1, <2>2 DEF CancelAll, Cancel
      <3>2. QED  BY <3>1 DEF StopInv
    <2>3. CASE AllCancelled
      <3>1. pc' \in {"placeStop", "remove"}
        BY <2>3 DEF AllCancelled, Cancelled
      <3>2. QED  BY <3>1 DEF StopInv
    <2>4. CASE Remove
      <3>1. pc = "remove" /\ act = "exit"
        BY <2>4 DEF Remove, LoopInv, ActInv
      <3>2. QED  BY <1>1, <3>1 DEF CoverInv
    <2>5. QED  BY <1>11, <2>1, <2>2, <2>3, <2>4
  <1>12. CASE PlaceStop
    <2>1. /\ pc = "placeStop" /\ pc' = "saveStop" /\ pos' = pos /\ act' = act
          /\ \E l \in Free : legs' = [legs EXCEPT ![l] = [kind |-> "sl", level |-> pos.stop,
                                                           size |-> Remaining, live |-> TRUE]]
      BY <1>1, <1>12 DEF PlaceStop, Place
    <2>2. PICK l \in Free : legs' = [legs EXCEPT ![l] = [kind |-> "sl", level |-> pos.stop,
                                                        size |-> Remaining, live |-> TRUE]]
      BY <2>1
    <2>3. l \in Slots /\ pos.stop \in 0..MaxLevel
      BY <1>1, RecordFields DEF Free
    <2>4. Remaining \in 0..Size
      BY <2>1, LoopAssumption DEF Remaining, LoopInv, ActInv, SizeInv
    <2>5. legs'[l].live = TRUE /\ legs'[l].kind = "sl" /\ legs'[l].level = pos.stop
      BY <1>1, <2>2, <2>3, <2>4, LegPlaced
    <2>6. QED  BY <2>1, <2>3, <2>5 DEF StopInv, StopAt, Live
  <1>13. CASE PlaceTarget
    <2>1. /\ pc = "placeTarget" /\ pc' = "saveTarget" /\ pos' = pos /\ act' = act
          /\ \E l \in Free : legs' = [legs EXCEPT ![l] = [kind |-> "tp", level |-> 0,
                                                           size |-> Remaining, live |-> TRUE]]
      BY <1>1, <1>13 DEF PlaceTarget, Place
    <2>2. PICK l \in Free : legs' = [legs EXCEPT ![l] = [kind |-> "tp", level |-> 0,
                                                        size |-> Remaining, live |-> TRUE]]
      BY <2>1
    <2>3. PICK w \in Live("sl") : legs[w].level = pos.stop
      BY <1>1, <2>1 DEF StopInv, StopAt
    <2>4. w \in Slots /\ legs'[w] = legs[w]
      BY <1>1, <2>2, <2>3 DEF Live, Free
    <2>5. QED  BY <2>1, <2>3, <2>4 DEF StopInv, StopAt, Live
  <1>14. CASE SaveStop \/ SaveTarget
    BY <1>1, <1>14 DEF SaveStop, SaveTarget, Save, StopInv, StopAt, Live, LoopInv, ActInv
  <1>15. CASE Update
    <2>1. /\ pc = "update" /\ pc' = "idle" /\ act \in {"move", "partial"}
          /\ rec' = Updated /\ legs' = legs
      BY <1>1, <1>15 DEF Update, Write, LoopInv, ActInv
    <2>2. StopAt(Updated.stop)
      <3>1. CASE act = "move"
        <4>1. Updated.stop = level
          BY <1>1, <3>1, StopWritten DEF Updated
        <4>2. QED  BY <1>1, <2>1, <3>1, <4>1 DEF StopInv
      <3>2. CASE act = "partial"
        <4>1. Updated.stop = pos.stop
          BY <1>1, <3>2 DEF Updated, Record
        <4>2. QED  BY <1>1, <2>1, <3>2, <4>1 DEF StopInv
      <3>3. QED  BY <2>1, <3>1, <3>2
    <2>3. QED  BY <2>1, <2>2 DEF StopInv, StopAt, Live
  <1>16. CASE CloseCancel \/ CloseSubmit
    <2>1. ~ CloseCancel
      BY <1>1 DEF CloseCancel, CoverInv
    <2>2. ~ CloseSubmit
      <3> SUFFICES ASSUME CloseSubmit  PROVE FALSE
        OBVIOUS
      <3>1. cpc = "submit" /\ qty' = Less(cqty)
        BY <1>1 DEF CloseSubmit
      <3>2. cqty \in Nat /\ qty <= cqty
        BY <3>1 DEF CoverInv, LoopInv, TypeOK
      <3>3. QED  BY <1>1, <3>1, <3>2 DEF Less
    <2>3. QED  BY <1>16, <2>1, <2>2
  <1>17. ~ (\E l \in Slots : Trigger(l) \/ Expire(l))
    BY <1>1 DEF Trigger, Expire, Less, CoverInv
  <1>18. ~ Timeout
    BY <1>1 DEF Timeout
  <1>19. QED
    BY <1>3, <1>4, <1>5, <1>6, <1>7, <1>8, <1>9, <1>10, <1>11, <1>12, <1>13, <1>14, <1>15, <1>16, <1>17,
       <1>18
    DEF Next, Cycle, Close, NothingStored, CloseRead, CloseList, CloseCancelled, CloseRemove, vars

(* The opened position is covered by its record and its stop is as recorded. *)
LEMMA InitClean == Init => CleanInv
  <1> SUFFICES ASSUME Init  PROVE CoverInv /\ StopInv
    BY DEF CleanInv
  <1>1. /\ qty = Size /\ Size \in Nat /\ stored = TRUE /\ rec = [stop |-> 0, qty |-> Size, done |-> FALSE]
        /\ pc = "idle" /\ cpc = "idle"
    BY LoopAssumption DEF Init
  <1>2. PICK s, t \in Slots :
          /\ s # t
          /\ legs = [l \in Slots |-> [kind |-> IF l = t THEN "tp" ELSE "sl", level |-> 0,
                                     size |-> Size, live |-> l \in {s, t}]]
    BY DEF Init
  <1>3. \A l \in Slots : legs[l].size = Size
    BY <1>2
  <1>4. CoverInv
    BY <1>1, <1>3 DEF CoverInv, PartSteps
  <1>5. s \in Live("sl") /\ legs[s].level = 0
    BY <1>2 DEF Live
  <1>6. QED  BY <1>1, <1>4, <1>5 DEF StopInv, StopAt

(* While nothing fails, the record covers the exposure and the stop that   *)
(* lies there is the recorded one.                                         *)
THEOREM CleanHolds == Spec => []CleanInv
  <1>1. LoopInv /\ CleanInv /\ [Next]_vars => CleanInv'
    <2> SUFFICES ASSUME LoopInv, CleanInv, [Next]_vars, Quiet'
                 PROVE  (CoverInv /\ StopInv)'
      BY DEF CleanInv
    <2>1. Quiet
      BY FaultsGrow DEF Quiet, LoopInv, TypeOK
    <2>2. QED  BY <2>1, CoverKept, StopKept DEF CleanInv
  <1>2. QED  BY <1>1, InitClean, LoopHolds, PTL DEF Spec

(* While nothing fails, an open position at rest has a live stop-loss at   *)
(* the recorded price and for the whole exposure, although a CLOSE, moves, *)
(* partial exits and triggering orders interleave (_move_stop_loss,        *)
(* _partial_exit).                                                         *)
THEOREM StopMatchesRecordHolds == Spec => []StopMatchesRecord
  <1>1. LoopInv /\ CleanInv => StopMatchesRecord
    <2> SUFFICES ASSUME LoopInv, CleanInv, AtRest, faults = 0, timeouts = 0, stored, qty > 0
                 PROVE  \E l \in Live("sl") : legs[l].level = rec.stop /\ legs[l].size >= qty
      BY DEF StopMatchesRecord
    <2>1. StopAt(rec.stop) /\ CoverInv
      BY DEF CleanInv, Quiet, AtRest, StopInv
    <2>2. qty \in Nat /\ \A l \in Slots : legs[l].size \in Nat
      BY LoopAssumption DEF LoopInv, TypeOK, SizeInv, Sizes
    <2>3. QED  BY <2>1, <2>2 DEF StopAt, Live, CoverInv
  <1>2. QED  BY <1>1, CleanHolds, LoopHolds, PTL

(* While nothing fails, the record is never short of the exposure, so the  *)
(* full exit it will lead to leaves nothing behind                         *)
(* (_build_updated_position).                                              *)
THEOREM RecordCoversExposureHolds == Spec => []RecordCoversExposure
  <1>1. LoopInv /\ CleanInv => RecordCoversExposure
    BY LoopAssumption DEF CleanInv, Quiet, CoverInv, RecordCoversExposure, LoopInv, TypeOK
  <1>2. QED  BY <1>1, CleanHolds, LoopHolds, PTL
-----------------------------------------------------------------------------
(* Before a CLOSE is taken up.                                             *)

(* What a full exit withdraws is all there is.                             *)
LEMMA NoCloseKept ==
  ASSUME LoopInv, CoverInv, NoCloseInv, Quiet, Quiet', closes = Closes, closes' = Closes, [Next]_vars
  PROVE  NoCloseInv'
  <1> USE DEF exchangeVars, storeVars, loopVars, closeVars, Step, Call, Cost, Outcomes, Lands, Quiet,
              SaveSteps
  <1>1. /\ closes = Closes /\ cpc = "idle" /\ legs \in [Slots -> Leg] /\ work \subseteq Slots
        /\ stored \/ pc = "idle"
        /\ pos \in Record /\ level \in 0..MaxLevel
    BY DEF NoCloseInv, LoopInv, TypeOK
  <1>2. ~ Close /\ ~ Timeout
    BY <1>1, LoopAssumption
    DEF Close, CloseRead, CloseSubmit, CloseList, CloseCancel, CloseCancelled, CloseRemove, Closer,
        Timeout
  <1>3. CASE UNCHANGED vars \/ NothingStored
    BY <1>3 DEF vars, NothingStored, NoCloseInv
  <1>4. CASE Snapshot \/ NoAction \/ Move \/ PartialExit \/ FullExit \/ SellPart \/ SellAll
    BY <1>1, <1>4
    DEF Snapshot, NoAction, Move, PartialExit, FullExit, Evaluate, SellPart, SellAll, Sell, NoCloseInv
  <1>5. CASE ListStops \/ ListAll
    BY <1>1, <1>5 DEF ListStops, ListAll, List, NoCloseInv
  <1>6. CASE PlaceMoved \/ PlaceStop \/ PlaceTarget
    <2>1. /\ pc \in {"placeMoved", "placeStop", "placeTarget"} /\ UNCHANGED <<storeVars, closeVars>>
          /\ pc' \notin {"cancelAll", "remove"}
          /\ \/ legs' = legs
             \/ \E l \in Free : /\ pc' \in SaveSteps /\ fresh' = l
                               /\ \A m \in Slots : m # l => legs'[m] = legs[m]
      BY <1>1, <1>6 DEF PlaceMoved, PlaceStop, PlaceTarget, Place
    <2>2. QED  BY <1>1, <2>1 DEF NoCloseInv
  <1>7. CASE SaveMoved \/ SaveStop \/ SaveTarget
    BY <1>1, <1>7 DEF SaveMoved, SaveStop, SaveTarget, Save, NoCloseInv
  <1>8. CASE CancelOld \/ CancelAll
    <2>1. /\ pc \in {"cancelOld", "cancelAll"} /\ pc' = pc /\ UNCHANGED <<stored, rec, fresh, closeVars>>
          /\ \E l \in work : /\ legs' = [legs EXCEPT ![l].live = FALSE]
                             /\ linked' = linked \/ linked' = linked \ {l}
                             /\ work' = work \ {l}
      BY <1>1, <1>8 DEF CancelOld, CancelAll, Cancel
    <2>2. PICK l \in work : /\ legs' = [legs EXCEPT ![l].live = FALSE]
                            /\ linked' = linked \/ linked' = linked \ {l}
                            /\ work' = work \ {l}
      BY <2>1
    <2>3. \A m \in Slots : legs'[m].live <=> legs[m].live /\ m # l
      BY <1>1, <2>2, LegEnded
    <2>4. \A m \in Slots : legs'[m].live => m \in linked' /\ (pc' = "cancelAll" => m \in work')
      BY <2>1, <2>2, <2>3 DEF NoCloseInv
    <2>5. stored' /\ pc' # "remove" /\ closes' = Closes /\ cpc' = "idle"
      BY <1>1, <2>1
    <2>6. QED  BY <2>4, <2>5 DEF NoCloseInv
  <1>9. CASE OldCancelled \/ AllCancelled
    BY <1>1, <1>9 DEF OldCancelled, AllCancelled, Cancelled, NoCloseInv
  <1>10. CASE Flag \/ Update
    <2>1. /\ pc \in {"flag", "update"} /\ pc' \in {"listAll", "idle"} /\ stored' = TRUE
          /\ UNCHANGED <<exchangeVars, linked, closeVars>>
      BY <1>1, <1>10 DEF Flag, Update, Write
    <2>2. QED  BY <1>1, <2>1 DEF NoCloseInv
  <1>11. CASE Remove
    <2>1. /\ pc = "remove" /\ pc' = "idle" /\ UNCHANGED <<exchangeVars, linked, closeVars>>
      BY <1>11 DEF Remove
    <2>2. QED  BY <1>1, <2>1 DEF NoCloseInv
  <1>12. ASSUME NEW l \in Slots, Trigger(l) \/ Expire(l)
         PROVE  NoCloseInv'
    <2>1. /\ \A m \in Slots : legs'[m].live => legs[m].live
          /\ UNCHANGED <<storeVars, loopVars, closeVars>>
      BY <1>1, <1>12, LegEnded DEF Trigger, Expire
    <2>2. QED  BY <2>1 DEF NoCloseInv
  <1>13. QED
    BY <1>2, <1>3, <1>4, <1>5, <1>6, <1>7, <1>8, <1>9, <1>10, <1>11, <1>12 DEF Next, Cycle

(* A CLOSE decision that was taken up does not come back.                  *)
LEMMA ClosesFall == LoopInv /\ [Next]_vars => closes' \in {closes, closes - 1}
  BY DEF Next, Cycle, Snapshot, NothingStored, NoAction, Move, PartialExit, FullExit, Evaluate,
         ListStops, ListAll, List, PlaceMoved, PlaceStop, PlaceTarget, Place, SaveMoved, SaveStop,
         SaveTarget, Save, CancelOld, CancelAll, Cancel, OldCancelled, AllCancelled, Cancelled,
         SellPart, SellAll, Sell, Flag, Update, Write, Remove, Timeout, Trigger, Expire, Step,
         Close, CloseRead, CloseSubmit, CloseList, CloseCancel, CloseCancelled, CloseRemove, Closer,
         closeVars, vars

(* While nothing fails and no CLOSE was taken up, a position that is gone  *)
(* leaves no live order on the exchange (_full_exit,                       *)
(* _cancel_linked_orders).                                                 *)
THEOREM NothingLeftBehindHolds == Spec => []NothingLeftBehind
  <1>1. Init => NoCloseInv
    <2> SUFFICES ASSUME Init  PROVE NoCloseInv
      OBVIOUS
    <2>1. PICK s, t \in Slots :
            /\ linked = {s, t}
            /\ legs = [l \in Slots |-> [kind |-> IF l = t THEN "tp" ELSE "sl", level |-> 0,
                                       size |-> Size, live |-> l \in {s, t}]]
      BY DEF Init
    <2>2. \A l \in Slots : legs[l].live => l \in linked
      BY <2>1
    <2>3. cpc = "idle" /\ pc = "idle" /\ stored = TRUE
      BY DEF Init
    <2>4. QED  BY <2>2, <2>3 DEF NoCloseInv
  <1>2. LoopInv /\ CleanInv /\ NoCloseInv /\ [Next]_vars => NoCloseInv'
    <2> SUFFICES ASSUME LoopInv, CleanInv, NoCloseInv, [Next]_vars, closes' = Closes
                 PROVE  NoCloseInv'
      BY DEF NoCloseInv
    <2>1. closes = Closes /\ cpc = "idle"
      <3>1. closes \in 0..Closes /\ closes' \in {closes, closes - 1}
        BY ClosesFall DEF LoopInv, TypeOK
      <3>2. closes = Closes
        BY <3>1, LoopAssumption
      <3>3. QED  BY <3>2 DEF NoCloseInv
    <2>2. cpc' = "idle"
      <3>1. ~ Close
        BY <2>1, LoopAssumption
        DEF Close, CloseRead, CloseSubmit, CloseList, CloseCancel, CloseCancelled, CloseRemove, Closer
      <3>2. QED
        BY <2>1, <3>1
        DEF Next, Cycle, Snapshot, NothingStored, NoAction, Move, PartialExit, FullExit, Evaluate,
            ListStops, ListAll, List, PlaceMoved, PlaceStop, PlaceTarget, Place, SaveMoved, SaveStop,
            SaveTarget, Save, CancelOld, CancelAll, Cancel, OldCancelled, AllCancelled, Cancelled,
            SellPart, SellAll, Sell, Flag, Update, Write, Remove, Timeout, Trigger, Expire, Step,
            closeVars, vars
    <2>3. CASE Quiet'
      <3>1. Quiet
        BY <2>3, FaultsGrow DEF Quiet, LoopInv, TypeOK
      <3>2. QED  BY <2>1, <2>3, <3>1, NoCloseKept DEF CleanInv
    <2>4. CASE ~ Quiet'
      BY <2>2, <2>4 DEF NoCloseInv, Quiet
    <2>5. QED  BY <2>3, <2>4
  <1>3. NoCloseInv => NothingLeftBehind
    BY DEF NoCloseInv, NothingLeftBehind, Quiet
  <1>4. QED  BY <1>1, <1>2, <1>3, CleanHolds, LoopHolds, PTL DEF Spec
-----------------------------------------------------------------------------
(* Type correctness: neither fills, nor sales, nor stale snapshots drive a *)
(* quantity below zero or above what the position opened with.             *)
THEOREM LoopTypeCorrect == Spec => []TypeOK
  <1>1. LoopInv => TypeOK
    BY DEF LoopInv
  <1>2. QED  BY <1>1, LoopHolds, PTL
=============================================================================
