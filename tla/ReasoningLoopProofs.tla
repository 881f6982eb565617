-------------------------- MODULE ReasoningLoopProofs --------------------------
(***************************************************************************)
(* Proofs about ReasoningLoop: RInv is an inductive invariant, so for      *)
(* every cadence that CadenceAssumption allows a candle sees at most one   *)
(* decision, a suspended symbol is not on cooldown in every direction and  *)
(* every entry carries its geometry.                                       *)
(*                                                                         *)
(* HInv, inductive relative to it, bounds how long a symbol is held back:  *)
(* what is left of the longest cooldown only falls, and the skips of a     *)
(* suspension come round to its interval.                                  *)
(***************************************************************************)
EXTENDS ReasoningLoop, TLAPS

\* A product of natural numbers is one: what the cooldowns are made of.
LEMMA ProductNat ==
  ASSUME NEW x \in Nat, NEW y \in Nat
  PROVE  x * y \in Nat
  OBVIOUS

\* _compute_rejection_cooldown and the bands leave a cooldown in Nat.
LEMMA CooldownAfterType ==
  ASSUME TypeOK, NEW a \in Reviews, NEW gate
  PROVE  /\ CooldownAfter(a, gate) \in [Directions -> Nat]
         /\ RejectionsAfter(a, gate) \in [Directions -> 0..MaxMultiplier]
  <1>1. RejectionsAfter(a, gate) \in [Directions -> 0..MaxMultiplier]
    BY ReasoningAssumption DEF TypeOK, RejectionsAfter, Least
  <1>2. \A d \in Directions :
          AnalystCooldown * (IF a.score <= LowBand THEN 3 ELSE 2) * RejectionsAfter(a, gate)[d] \in Nat
    <2>1. AnalystCooldown * (IF a.score <= LowBand THEN 3 ELSE 2) \in Nat
      BY CadenceAssumption
    <2>2. \A d \in Directions : RejectionsAfter(a, gate)[d] \in Nat
      BY <1>1, ReasoningAssumption
    <2>3. QED  BY <2>1, <2>2, ProductNat
  <1>3. CooldownAfter(a, gate) \in [Directions -> Nat]
    BY <1>2, ReasoningAssumption DEF TypeOK, CooldownAfter, Greatest
  <1>4. QED  BY <1>1, <1>3

\* The escalating cooldown of a WAIT that reached the threshold.
LEMMA WaitCooldownType ==
  ASSUME NEW count \in Nat, count >= WaitThreshold
  PROVE  WaitCooldown(count) \in Nat
  <1>1. count - WaitThreshold + 1 \in Nat
    BY ReasoningAssumption
  <1>2. WaitBase * (count - WaitThreshold + 1) \in Nat
    BY <1>1, ProductNat, ReasoningAssumption
  <1>3. QED  BY <1>2, ReasoningAssumption DEF WaitCooldown, Least

\* No cycle has run.
LEMMA InitRInv == Init => RInv
  BY CadenceAssumption, ReasoningAssumption
  DEF Init, RInv, TypeOK, SentThenCooling, RunsUncooled, SuspensionExcludesCooldown,
      MemoHasGeometry, EntriesHaveGeometry, Unbuilt, WaitCap

\* Every tier, a new candle and the end of a cycle keep it.
LEMMA StepRInv == RInv /\ [Next]_vars => RInv'
  <1> SUFFICES ASSUME RInv, [Next]_vars  PROVE RInv'
    OBVIOUS
  <1> USE DEF RInv, TypeOK, SentThenCooling, RunsUncooled, SuspensionExcludesCooldown,
              MemoHasGeometry, EntriesHaveGeometry, Unbuilt, Cooled
  <1>1. CASE NewBar
    BY <1>1, CadenceAssumption DEF NewBar, trackerVars, flightVars
  <1>2. CASE CoolDown
    BY <1>2, CadenceAssumption DEF CoolDown, Tick, Greatest, memoVars
  <1>3. CASE Suspend
    BY <1>3, CadenceAssumption DEF Suspend, Tick, Greatest, memoVars
  <1>4. CASE Unavailable
    BY <1>4, CadenceAssumption DEF Unavailable, Tick, Greatest, memoVars
  <1>5. CASE Start
    BY <1>5, CadenceAssumption DEF Start, Tick, Greatest, memoVars
  <1>6. CASE DepsRaise
    BY <1>6 DEF DepsRaise, trackerVars, memoVars, Quiet
  <1>7. CASE ScoutSkips
    BY <1>7, ReasoningAssumption DEF ScoutSkips, TrackSkip, Least, Greatest, Quiet
  <1>8. CASE ScoutInterested
    BY <1>8 DEF ScoutInterested, trackerVars, Quiet
  <1>9. CASE AnalystFails
    BY <1>9, ReasoningAssumption DEF AnalystFails, Finish, memoVars, Quiet
  <1>10. ASSUME NEW a \in Reviews, ReviewEnds(a), pc \in {"analyst", "trader"},
              tradeMemo' = tradeMemo, scoutMemo' = scoutMemo, analystMemo' \in Reviews \cup {None}
       PROVE  RInv'
    BY <1>10, CooldownAfterType, ReasoningAssumption DEF ReviewEnds, Finish, Quiet
  <1>11. CASE AnalystNotAsked
    BY <1>11, <1>10 DEF AnalystNotAsked, memoVars
  <1>12. ASSUME NEW a \in Reviews, AnalystStops(a)  PROVE RInv'
    BY <1>12, <1>10 DEF AnalystStops, Review
  <1>13. ASSUME NEW a \in Reviews, AnalystPasses(a)  PROVE RInv'
    BY <1>13 DEF AnalystPasses, Review, trackerVars, Quiet
  <1>14. CASE TraderFails
    BY <1>14, <1>10 DEF TraderFails, memoVars
  <1>15. CASE ShortCircuit
    BY <1>15, ReasoningAssumption DEF ShortCircuit, Decide, Decision, trackerVars, Quiet
  <1>16. CASE TradeRemembered
    BY <1>16, ReasoningAssumption DEF TradeRemembered, Remembered, Decide, Decision, trackerVars, Quiet
  <1>17. CASE GateRejects
    BY <1>17, ReasoningAssumption DEF GateRejects, Asked, Remember, Decide, Decision, trackerVars, Quiet
  <1>18. CASE TraderTimesOut
    BY <1>18, ReasoningAssumption DEF TraderTimesOut, Asked, Decide, Decision, trackerVars, Quiet
  <1>19. CASE TraderInvalid
    BY <1>19, ReasoningAssumption DEF TraderInvalid, Asked, CircuitOpen, Decide, Decision, trackerVars, Quiet
  <1>20. ASSUME NEW action \in {"enter", "close", "wait"}, TraderDecides(action)
       PROVE  RInv'
    <2>1. decided' \in Decision /\ (decided'.action = "enter" => decided'.geometry)
      <3>1. CASE action = "enter"
        BY <1>20, <3>1 DEF TraderDecides, Decide, Decision
      <3>2. CASE action # "enter"
        BY <1>20, <3>2 DEF TraderDecides, Decide, Decision
      <3>3. QED  BY <3>1, <3>2
    <2>2. QED
      BY <1>20, <2>1, ReasoningAssumption
      DEF TraderDecides, Asked, Remember, Decide, trackerVars, Quiet
  <1>21. ASSUME NEW gate \in Gates, ConcludeWait(gate)  PROVE RInv'
    BY <1>21, CooldownAfterType, WaitCooldownType, ReasoningAssumption
    DEF ConcludeWait, WaitsAfter, WaitCap, Least, Finish, memoVars, Quiet
  <1>22. ASSUME NEW gate \in Gates, ConcludeDropped(gate)  PROVE RInv'
    BY <1>22, CooldownAfterType, ReasoningAssumption DEF ConcludeDropped, Finish, memoVars, Quiet
  <1>23. ASSUME NEW gate \in Gates, ConcludeEnqueue(gate)  PROVE RInv'
    BY <1>23, CooldownAfterType, CadenceAssumption, ReasoningAssumption
    DEF ConcludeEnqueue, PostTrade, WaitCap, Finish, memoVars, Quiet
  <1>24. CASE UNCHANGED vars
    BY <1>24 DEF vars, trackerVars, memoVars, flightVars
  <1>25. QED
    BY <1>1, <1>2, <1>3, <1>4, <1>5, <1>6, <1>7, <1>8, <1>9, <1>10, <1>11, <1>12,
       <1>13, <1>14, <1>15, <1>16, <1>17, <1>18, <1>19, <1>20, <1>21, <1>22, <1>23, <1>24
    DEF Next, Cycle

\* RInv holds of every behaviour, whatever the agents answer and whenever the
\* candles close.
THEOREM RInvInvariant == Spec => []RInv
  BY InitRInv, StepRInv, PTL DEF Spec

\* The loop's state keeps its types.
THEOREM TypeInvariant == Spec => []TypeOK
  BY RInvInvariant, PTL DEF RInv

\* At most one decision is enqueued while a candle is the latest, for every
\* cadence with BarCycles <= 3 * AnalystCooldown.
THEOREM OneDecision == Spec => []OneDecisionPerBar
  <1>1. RInv => OneDecisionPerBar
    BY DEF RInv, SentThenCooling, OneDecisionPerBar
  <1>2. QED  BY <1>1, RInvInvariant, PTL

\* A suspended symbol is not on cooldown in every direction.
THEOREM SuspensionApart == Spec => []SuspensionExcludesCooldown
  <1>1. RInv => SuspensionExcludesCooldown
    BY DEF RInv
  <1>2. QED  BY <1>1, RInvInvariant, PTL

\* _build_decision_message never meets an entry without its geometry.
THEOREM GeometryPresent == Spec => []EntriesHaveGeometry
  <1>1. RInv => EntriesHaveGeometry
    BY DEF RInv
  <1>2. QED  BY <1>1, RInvInvariant, PTL

-----------------------------------------------------------------------------
(* How long a symbol is held back.                                         *)

\* A remainder is that of one division.
LEMMA OneRemainder ==
  ASSUME NEW q \in Int, NEW p \in Int, NEW b \in Nat \ {0},
         NEW r \in 0..(b - 1), NEW s \in 0..(b - 1), b * q + r = b * p + s
  PROVE  r = s
  <1>1. q = p
    OBVIOUS
  <1>2. QED  BY <1>1

\* Quotient and remainder.
LEMMA Division ==
  ASSUME NEW a \in Nat, NEW b \in Nat \ {0}
  PROVE  a % b = a - b * (a \div b) /\ a % b \in 0..(b - 1) /\ a \div b \in Int
  BY SMT

\* Counted to the next number, a remainder grows by one until it is zero: the
\* suspended cycles in a row stay below the interval (_is_suspended).
LEMMA NextRemainder ==
  ASSUME NEW a \in Nat, NEW b \in Nat \ {0}, (a + 1) % b # 0
  PROVE  (a + 1) % b = (a % b) + 1
  <1> DEFINE q == a \div b
             p == (a + 1) \div b
             r == a % b
             s == (a + 1) % b
  <1>1. r = a - b * q /\ r \in 0..(b - 1) /\ q \in Int
    BY Division
  <1>2. s = (a + 1) - b * p /\ s \in 0..(b - 1) /\ p \in Int
    <2>1. a + 1 \in Nat
      OBVIOUS
    <2>2. QED  BY <2>1, Division
  <1> HIDE DEF q, p, r, s
  <1>3. s # 0 => s - 1 \in 0..(b - 1)
    BY <1>2
  <1>4. b * q \in Int /\ b * p \in Int
    BY <1>1, <1>2
  <1>5. b * q + r = b * p + (s - 1)
    BY <1>1, <1>2, <1>4
  <1>6. s # 0 => r = s - 1
    BY <1>1, <1>2, <1>3, <1>5, OneRemainder
  <1>7. QED  BY <1>2, <1>6 DEF r, s

\* More of the same cooldown is no less of it.
LEMMA ProductGrows ==
  ASSUME NEW k \in Nat, NEW x \in Nat, NEW y \in Nat, x <= y
  PROVE  k * x <= k * y
  OBVIOUS

\* The longest cooldown is as long as that of a trade, and as any other.
LEMMA LongestCooldown ==
  /\ MaxCooldown \in Nat
  /\ WaitMax <= MaxCooldown /\ BorderlineCycles <= MaxCooldown
  /\ 3 * AnalystCooldown <= MaxCooldown
  /\ AnalystCooldown * 3 * MaxMultiplier <= MaxCooldown
  <1> DEFINE top == AnalystCooldown * 3 * MaxMultiplier
  <1>1. AnalystCooldown * 3 \in Nat /\ AnalystCooldown * 3 = 3 * AnalystCooldown
    BY CadenceAssumption
  <1>2. MaxMultiplier \in Nat /\ MaxMultiplier >= 1 /\ WaitMax \in Nat /\ BorderlineCycles \in Nat
    BY ReasoningAssumption
  <1>3. top \in Nat
    BY <1>1, <1>2, ProductNat
  <1>4. (AnalystCooldown * 3) * 1 <= top
    BY <1>1, <1>2, ProductGrows
  <1> HIDE DEF top
  <1>5. MaxCooldown = Greatest(top, Greatest(WaitMax, BorderlineCycles))
    BY DEF MaxCooldown, top
  <1>6. MaxCooldown \in Nat /\ top <= MaxCooldown /\ WaitMax <= MaxCooldown /\ BorderlineCycles <= MaxCooldown
    BY <1>2, <1>3, <1>5 DEF Greatest
  <1>7. QED  BY <1>1, <1>3, <1>4, <1>6 DEF top

\* What a review leaves of the cooldowns is within the longest.
LEMMA CooldownAfterBound ==
  ASSUME TypeOK, HeldByCooldown, NEW a \in Reviews, NEW gate, NEW d \in Directions
  PROVE  CooldownAfter(a, gate)[d] \in Nat /\ CooldownAfter(a, gate)[d] <= MaxCooldown
  <1> DEFINE n == RejectionsAfter(a, gate)[d]
             k == AnalystCooldown * (IF a.score <= LowBand THEN 3 ELSE 2)
  <1>1. n \in 0..MaxMultiplier /\ CooldownAfter(a, gate)[d] \in Nat
    BY CooldownAfterType
  <1>2. cooldown[d] \in Nat /\ cooldown[d] <= MaxCooldown
    BY DEF TypeOK, HeldByCooldown
  <1>3. k \in Nat /\ AnalystCooldown * 3 \in Nat /\ k <= AnalystCooldown * 3
    BY CadenceAssumption
  <1>4. CooldownAfter(a, gate)[d] \in {cooldown[d], k * n, Greatest(cooldown[d], BorderlineCycles)}
    BY DEF CooldownAfter
  <1> HIDE DEF n, k
  <1>5. n \in Nat /\ n <= MaxMultiplier /\ MaxMultiplier \in Nat
    BY <1>1, ReasoningAssumption
  <1>6. k * n <= k * MaxMultiplier
    BY <1>3, <1>5, ProductGrows
  <1>7. k * MaxMultiplier <= AnalystCooldown * 3 * MaxMultiplier
    <2>1. MaxMultiplier * k <= MaxMultiplier * (AnalystCooldown * 3)
      BY <1>3, <1>5, ProductGrows
    <2>2. QED  BY <1>3, <1>5, <2>1
  <1>8. k * n \in Nat /\ k * MaxMultiplier \in Nat /\ AnalystCooldown * 3 * MaxMultiplier \in Nat
    BY <1>3, <1>5, ProductNat
  <1>9. k * n <= MaxCooldown
    <2>1. /\ MaxCooldown \in Nat /\ AnalystCooldown * 3 * MaxMultiplier <= MaxCooldown
      BY LongestCooldown
    <2> DEFINE x == k * n
               y == k * MaxMultiplier
               z == AnalystCooldown * 3 * MaxMultiplier
    <2>2. /\ x <= y /\ y <= z /\ z <= MaxCooldown /\ x \in Nat /\ y \in Nat /\ z \in Nat
      BY <1>6, <1>7, <1>8, <2>1
    <2> HIDE DEF x, y, z
    <2>3. x <= MaxCooldown
      BY <2>1, <2>2
    <2>4. QED  BY <2>3 DEF x
  <1>10. Greatest(cooldown[d], BorderlineCycles) <= MaxCooldown
    BY <1>2, LongestCooldown DEF Greatest
  <1>11. QED  BY <1>1, <1>2, <1>4, <1>9, <1>10

\* Within a tier nothing of this changes but the Scout's count of SKIPs.
LEMMA HeldInPipeline ==
  ASSUME RInv, HInv, pc # "idle", held' = held,
         \A d \in Directions : cooldown'[d] \in Nat /\ cooldown'[d] <= MaxCooldown
  PROVE  HInv'
  <1>1. held' = 0
    BY DEF HInv, RunsUnheld
  <1>2. \A d \in Directions : held' + cooldown'[d] <= MaxCooldown
    BY <1>1, LongestCooldown
  <1>3. QED  BY <1>1, <1>2, LongestCooldown DEF HInv, RunsUnheld, HeldByCooldown, HeldBySkips

\* A cycle that starts ticks every cooldown.
LEMMA TickBound ==
  ASSUME RInv, HInv, Tick
  PROVE  \A d \in Directions :
           /\ cooldown[d] \in Nat /\ cooldown'[d] \in Nat /\ cooldown'[d] <= MaxCooldown
           /\ cooldown[d] > 0 => cooldown'[d] = cooldown[d] - 1
           /\ cooldown[d] = 0 => cooldown'[d] = 0
  BY LongestCooldown DEF RInv, TypeOK, HInv, HeldByCooldown, Tick, Greatest

\* A cycle that is held back uses up some of what holds it.
LEMMA StepHInv == RInv /\ HInv /\ [Next]_vars => HInv'
  <1> SUFFICES ASSUME RInv, HInv, [Next]_vars  PROVE HInv'
    OBVIOUS
  <1>1. /\ TypeOK /\ HeldByCooldown /\ MaxCooldown \in Nat
        /\ skips \in Nat /\ interval \in Nat /\ held \in Nat /\ skips' \in Nat
        /\ \A d \in Directions : cooldown[d] \in Nat /\ cooldown[d] <= MaxCooldown
    <2>1. RInv'
      BY StepRInv
    <2>2. QED  BY <2>1, LongestCooldown, ReasoningAssumption DEF RInv, TypeOK, HInv, HeldByCooldown
  <1>2. ASSUME UNCHANGED <<cooldown, skips, interval, pc, held>>  PROVE HInv'
    BY <1>2 DEF HInv, RunsUnheld, HeldByCooldown, HeldBySkips, Cooled
  <1>3. ASSUME pc # "idle", held' = held, cooldown' = cooldown  PROVE HInv'
    BY <1>1, <1>3, HeldInPipeline
  <1>4. CASE CoolDown
    <2>1. /\ Tick /\ Cooled /\ held' = held + 1 /\ skips' = skips /\ pc' = "idle"
      BY <1>4 DEF CoolDown, Tick
    <2>2. skips = 0
      BY <1>1, <2>1 DEF RInv, SuspensionExcludesCooldown
    <2>3. \A d \in Directions : /\ cooldown'[d] \in Nat /\ cooldown'[d] <= MaxCooldown
                                /\ held' + cooldown'[d] <= MaxCooldown
      BY <1>1, <2>1, TickBound DEF HeldByCooldown, Cooled
    <2>4. held' <= MaxCooldown
      BY <1>1, <2>1, <2>3, ReasoningAssumption
    <2>5. QED  BY <2>1, <2>2, <2>3, <2>4 DEF HInv, RunsUnheld, HeldByCooldown, HeldBySkips
  <1>5. CASE Suspend
    <2>1. /\ Tick /\ ~Cooled /\ interval > 0 /\ skips % interval # 0 /\ interval' = interval
          /\ held' = held + 1 /\ skips' = skips + 1 /\ pc' = "idle"
      BY <1>5 DEF Suspend, Suspended, Tick
    <2>2. PICK d \in Directions : cooldown[d] = 0
      BY <1>1, <2>1 DEF Cooled
    <2>3. ~Cooled'
      BY <1>1, <2>1, <2>2, TickBound DEF Cooled
    <2>4. HeldByCooldown'
      <3>1. skips' # 0
        BY <1>1, <2>1
      <3>2. QED  BY <2>1, <2>3, <3>1, TickBound DEF HeldByCooldown
    <2>5. skips # 0
      <3>1. 0 % interval = 0
        BY <1>1, <2>1
      <3>2. QED  BY <2>1, <3>1
    <2>6. skips - 1 \in Nat /\ (skips - 1) + 1 = skips /\ interval \in Nat \ {0}
      BY <1>1, <2>1, <2>5
    <2>7. skips % interval = ((skips - 1) % interval) + 1
      BY <2>1, <2>6, NextRemainder
    <2>8. /\ skips % interval \in Nat /\ (skips - 1) % interval \in Nat
      BY <1>1, <2>6, Division
    <2>9. held' <= skips % interval
      <3>1. CASE held = 0
        BY <2>1, <2>8, <3>1
      <3>2. CASE held > 0
        <4>1. held <= (skips - 1) % interval
          BY <1>1, <2>5, <3>2 DEF HInv, HeldBySkips
        <4>2. QED  BY <1>1, <2>1, <2>7, <2>8, <4>1
      <3>3. QED  BY <1>1, <3>1, <3>2
    <2>10. skips' - 1 = skips
      BY <1>1, <2>1
    <2>11. QED  BY <2>1, <2>4, <2>9, <2>10 DEF HInv, RunsUnheld, HeldBySkips
  <1>6. CASE Unavailable \/ Start
    <2>1. Tick /\ held' = 0
      BY <1>6 DEF Unavailable, Start
    <2>2. \A d \in Directions : /\ cooldown'[d] \in Nat /\ cooldown'[d] <= MaxCooldown
                                /\ held' + cooldown'[d] <= MaxCooldown
      BY <1>1, <2>1, TickBound
    <2>3. QED  BY <1>1, <2>1, <2>2 DEF HInv, RunsUnheld, HeldByCooldown, HeldBySkips
  <1>7. ASSUME NEW a \in Reviews, ReviewEnds(a), pc # "idle"  PROVE HInv'
    <2>1. held' = held /\ cooldown' = CooldownAfter(a, NormalGate)
      BY <1>7 DEF ReviewEnds, Finish, Quiet
    <2>2. QED  BY <1>1, <1>7, <2>1, CooldownAfterBound, HeldInPipeline
  <1>8. CASE DepsRaise \/ ScoutSkips \/ ScoutInterested \/ AnalystFails
    <2>1. pc # "idle" /\ held' = held /\ cooldown' = cooldown
      BY <1>8 DEF DepsRaise, ScoutSkips, ScoutInterested, AnalystFails, Finish, Quiet, trackerVars
    <2>2. QED  BY <1>3, <2>1
  <1>9. CASE AnalystNotAsked
    BY <1>7, <1>9 DEF AnalystNotAsked
  <1>10. ASSUME NEW a \in Reviews, AnalystStops(a)  PROVE HInv'
    BY <1>7, <1>10 DEF AnalystStops, Review
  <1>11. ASSUME NEW a \in Reviews, AnalystPasses(a)  PROVE HInv'
    <2>1. pc # "idle" /\ held' = held /\ cooldown' = cooldown
      BY <1>11 DEF AnalystPasses, Review, Quiet, trackerVars
    <2>2. QED  BY <1>3, <2>1
  <1>12. CASE TraderFails
    <2>1. pc = "trader" /\ analyst \in Reviews /\ ReviewEnds(analyst)
      BY <1>1, <1>12 DEF TraderFails, TypeOK
    <2>2. QED  BY <1>7, <2>1
  <1>13. ASSUME NEW action, NEW geometry, Decide(action, geometry)  PROVE HInv'
    <2>1. pc # "idle" /\ held' = held /\ cooldown' = cooldown
      BY <1>13 DEF Decide, Quiet, trackerVars
    <2>2. QED  BY <1>3, <2>1
  <1>14. CASE ShortCircuit \/ TradeRemembered \/ GateRejects \/ TraderTimesOut \/ TraderInvalid
    BY <1>13, <1>14 DEF ShortCircuit, TradeRemembered, GateRejects, TraderTimesOut, TraderInvalid
  <1>15. ASSUME NEW action, TraderDecides(action)  PROVE HInv'
    BY <1>13, <1>15 DEF TraderDecides
  <1>16. ASSUME NEW gate \in Gates, ConcludeWait(gate)  PROVE HInv'
    <2>1. /\ pc = "conclude" /\ held' = held /\ analyst \in Reviews
          /\ waits' = WaitsAfter(analyst)
          /\ cooldown' = [d \in Directions |->
               IF d \in Dirs(analyst) /\ waits'[d] >= WaitThreshold
               THEN WaitCooldown(waits'[d]) ELSE CooldownAfter(analyst, gate)[d]]
      BY <1>1, <1>16 DEF ConcludeWait, Finish, Quiet, TypeOK
    <2>2. ASSUME NEW d \in Directions, waits'[d] >= WaitThreshold
          PROVE  WaitCooldown(waits'[d]) \in Nat /\ WaitCooldown(waits'[d]) <= MaxCooldown
      <3>1. waits'[d] \in Nat
        BY <1>1, <2>1, ReasoningAssumption DEF WaitsAfter, WaitCap, Least, TypeOK
      <3>2. WaitCooldown(waits'[d]) \in Nat
        BY <2>2, <3>1, WaitCooldownType
      <3>3. waits'[d] - WaitThreshold + 1 \in Nat
        BY <2>2, <3>1, ReasoningAssumption
      <3>4. WaitBase * (waits'[d] - WaitThreshold + 1) \in Nat
        BY <3>3, ProductNat, ReasoningAssumption
      <3>5. WaitCooldown(waits'[d]) <= WaitMax
        BY <3>4, ReasoningAssumption DEF WaitCooldown, Least
      <3>6. QED  BY <3>2, <3>5, LongestCooldown, ReasoningAssumption
    <2>3. ASSUME NEW d \in Directions
          PROVE  cooldown'[d] \in Nat /\ cooldown'[d] <= MaxCooldown
      BY <1>1, <2>1, <2>2, CooldownAfterBound
    <2>4. QED  BY <2>1, <2>3, HeldInPipeline
  <1>17. ASSUME NEW gate \in Gates, ConcludeDropped(gate)  PROVE HInv'
    <2>1. /\ pc = "conclude" /\ held' = held /\ analyst \in Reviews
          /\ cooldown' = CooldownAfter(analyst, gate)
      BY <1>1, <1>17 DEF ConcludeDropped, Finish, Quiet, TypeOK
    <2>2. QED  BY <1>1, <2>1, CooldownAfterBound, HeldInPipeline
  <1>18. ASSUME NEW gate \in Gates, ConcludeEnqueue(gate)  PROVE HInv'
    <2>1. /\ pc = "conclude" /\ held' = held
          /\ cooldown' = [d \in Directions |-> 3 * AnalystCooldown]
      BY <1>18 DEF ConcludeEnqueue, PostTrade, Finish, Quiet
    <2>2. 3 * AnalystCooldown \in Nat
      BY CadenceAssumption
    <2>3. QED  BY <2>1, <2>2, LongestCooldown, HeldInPipeline
  <1>19. CASE NewBar \/ UNCHANGED vars
    BY <1>2, <1>19 DEF NewBar, vars, trackerVars, flightVars
  <1>20. QED
    BY <1>4, <1>5, <1>6, <1>8, <1>9, <1>10, <1>11, <1>12, <1>14, <1>15, <1>16, <1>17, <1>18, <1>19
    DEF Next, Cycle

\* Cooldowns and suspensions, in any order, hold a symbol back for no more
\* cycles in a row than the longest of either (_should_skip_symbol).
THEOREM HeldBackHolds == Spec => []HeldBackBounded
  <1>1. Init => HInv
    <2>1. ASSUME Init  PROVE HInv
      BY <2>1, LongestCooldown DEF Init, HInv, RunsUnheld, HeldByCooldown, HeldBySkips
    <2>2. QED  BY <2>1
  <1>2. RInv /\ HInv => HeldBackBounded
    <2> SUFFICES ASSUME RInv, HInv  PROVE HeldBackBounded
      OBVIOUS
    <2>1. /\ skips \in Nat /\ held \in Nat /\ interval \in Nat /\ interval <= MaxInterval
          /\ MaxInterval \in Nat \ {0} /\ MaxCooldown \in Nat
      BY LongestCooldown, ReasoningAssumption DEF RInv, TypeOK
    <2>2. CASE skips = 0 \/ held = 0
      BY <2>1, <2>2 DEF HInv, HeldByCooldown, HeldBackBounded, Greatest
    <2>3. CASE skips > 0 /\ held > 0
      <3>1. skips - 1 \in Nat /\ interval \in Nat \ {0} /\ held <= (skips - 1) % interval
        BY <2>1, <2>3 DEF HInv, HeldBySkips
      <3>2. (skips - 1) % interval \in 0..(interval - 1)
        BY <3>1, Division
      <3>3. QED  BY <2>1, <3>1, <3>2 DEF HeldBackBounded, Greatest
    <2>4. QED  BY <2>1, <2>2, <2>3
  <1>3. QED  BY InitRInv, StepRInv, <1>1, StepHInv, <1>2, PTL DEF Spec
================================================================================
