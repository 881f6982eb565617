---------------------------- MODULE TradeLifecycle ----------------------------
(***************************************************************************)
(* What the execution engine promises of a decision, with no word of       *)
(* awaits, Redis or restarts: it is executed at most once, its entry order *)
(* buys at most its quantity, no protective order is sent before the entry *)
(* has filled and no take-profit before a stop-loss, and the exposure of a *)
(* symbol moves only by these purchases and by reduce-only orders.         *)
(*                                                                         *)
(* ExecutionRefinement says how ExecutionEngine implements it, whichever   *)
(* of its calls fail and wherever it crashes.                              *)
(***************************************************************************)
EXTENDS Integers

CONSTANTS Decisions, Symbols, SymbolOf, Qty

VARIABLES
  phase,    \* how far the trade of each decision is
  exposure  \* units held per symbol

lifecycleVars == <<phase, exposure>>

Phases == {"queued", "taken", "resting", "part", "cancelled", "filled", "stopped", "bracketed"}

LifecycleTypeOK ==
  /\ phase \in [Decisions -> Phases]
  /\ exposure \in [Symbols -> Nat]

LifecycleInit ==
  /\ phase = [d \in Decisions |-> "queued"]
  /\ exposure = [s \in Symbols |-> 0]

Advance(d, from, to) ==
  /\ phase[d] \in from
  /\ phase' = [phase EXCEPT ![d] = to]

\* The decision leaves the queue, and never returns to it.
TakeUp(d) == Advance(d, {"queued"}, "taken") /\ UNCHANGED exposure

\* Its one entry order rests; it is withdrawn.
Rest(d)     == Advance(d, {"taken"}, "resting") /\ UNCHANGED exposure
Withdraw(d) == Advance(d, {"resting", "part"}, "cancelled") /\ UNCHANGED exposure

\* What the entry order still buys of the quantity, or a first part of it.
Rem(d) == IF phase[d] = "part" THEN Qty - 1 ELSE Qty
Buy(d, from, to, n) ==
  /\ Advance(d, from, to)
  /\ exposure' = [exposure EXCEPT ![SymbolOf[d]] = @ + n]
BuyPart(d) == Qty > 1 /\ Buy(d, {"resting"}, "part", 1)
BuyAll(d)  == Buy(d, {"taken", "resting", "part"}, "filled", Rem(d))

\* A first stop-loss is sent, then a first take-profit.
Protect(d) == Advance(d, {"filled"}, "stopped") /\ UNCHANGED exposure
Target(d)  == Advance(d, {"stopped"}, "bracketed") /\ UNCHANGED exposure

\* A reduce-only order of one position's size executes.
Reduce(s) ==
  /\ exposure[s] > 0
  /\ exposure' = [exposure EXCEPT ![s] = IF @ <= Qty THEN 0 ELSE @ - Qty]
  /\ UNCHANGED phase

LifecycleNext ==
  \/ \E d \in Decisions :
       TakeUp(d) \/ Rest(d) \/ Withdraw(d) \/ BuyPart(d) \/ BuyAll(d) \/ Protect(d) \/ Target(d)
  \/ \E s \in Symbols : Reduce(s)

LifecycleSpec == LifecycleInit /\ [][LifecycleNext]_lifecycleVars
=============================================================================
