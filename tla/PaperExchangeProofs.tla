-------------------------- MODULE PaperExchangeProofs --------------------------
(***************************************************************************)
(* Proofs about PaperExchange, for any callers, prices, quantities,        *)
(* failures and restarts: the lock of the account store keeps the peak     *)
(* balance right, the account record follows the exchange, every variable  *)
(* has its type, and what is locked moves with the margins: it is never    *)
(* less than their sum, and no more where no close leaves a remainder.     *)
(*                                                                         *)
(* PInv: a caller past its read holds the lock, so nobody stores a balance *)
(* between its read of the peak and its write.  AInv: whoever is the last  *)
(* in the queue for the lock carries the balance of the moment.  TInv:     *)
(* orders are numbered without gaps and a call is about one that exists.   *)
(* The sum takes out the symbols in an order that depends only on which    *)
(* are left, so that two sums over the same symbols compare term by term.  *)
(***************************************************************************)
EXTENDS PaperExchange, SequenceTheorems, FiniteSetTheorems, TLAPS

\* The stored peak is the balance the account starts with.
LEMMA InitPInv == Init => PInv
  BY DEF Init, PInv, PeakIsHighest, PeakIsRead, Steps

\* A report that starts takes the lock or waits, and stores nothing.
LEMMA JoinKeeps ==
  ASSUME PInv, NEW c \in Callers, Join(c), step[c] \notin {"read", "write"},
         UNCHANGED <<account, highest>>
  PROVE  PInv'
  <1>1. CASE holder = None
    BY <1>1, PaperAssumption DEF Join, PInv, PeakIsHighest, PeakIsRead, Callers, Steps
  <1>2. CASE holder # None
    BY <1>2 DEF Join, PInv, PeakIsHighest, PeakIsRead, Steps
  <1>3. QED  BY <1>1, <1>2

\* The end of a report, stored or not, hands the lock to one caller at most,
\* which has read nothing yet.
LEMMA ReleaseKeeps ==
  ASSUME PInv, NEW c \in Callers, holder = c, Release(c),
         \/ UNCHANGED <<account, highest>>
         \/ /\ step[c] = "write"
            /\ account' = Stored(c) /\ highest' = Higher(highest, report[c].total)
  PROVE  PInv'
  <1>1. PeakIsHighest'
    BY DEF Stored, PInv, PeakIsHighest, PeakIsRead
  <1>2. PeakIsRead'
    <2>1. CASE waiting = <<>>
      BY <2>1 DEF Release, PInv, PeakIsRead, Steps
    <2>2. CASE waiting # <<>>
      BY <2>2 DEF Release, PInv, PeakIsRead, Steps
    <2>3. QED  BY <2>1, <2>2
  <1>3. QED  BY <1>1, <1>2 DEF PInv

\* A caller that returns or moves on outside the lock disturbs nothing.
LEMMA ElsewhereKeeps ==
  ASSUME PInv, NEW c \in Callers, NEW to \in Steps \ {"read", "write"},
         step' = [step EXCEPT ![c] = to],
         UNCHANGED <<account, highest, holder, seen>>
  PROVE  PInv'
  BY DEF PInv, PeakIsHighest, PeakIsRead, Steps

\* Nobody stores a balance between the read of the peak and its write.
LEMMA StepPInv == PInv /\ [Next]_vars => PInv'
  <1> SUFFICES ASSUME PInv, [Next]_vars  PROVE PInv'
    OBVIOUS
  <1>1. ASSUME NEW c \in Callers, ReadAccount(c)  PROVE PInv'
    BY <1>1 DEF ReadAccount, PInv, PeakIsHighest, PeakIsRead, Steps
  <1>2. ASSUME NEW c \in Callers, WriteAccount(c)  PROVE PInv'
    BY <1>2, ReleaseKeeps DEF WriteAccount
  <1>3. ASSUME NEW c \in Callers, ReportFails(c)  PROVE PInv'
    BY <1>3, ReleaseKeeps DEF ReportFails
  <1>4. ASSUME NEW c \in Callers, NEW r \in Request, Submit(c, r)  PROVE PInv'
    BY <1>4, ElsewhereKeeps DEF Submit, lockVars, Steps
  <1>5. ASSUME NEW c \in Callers, NEW s \in Symbols, PlaceProtective(c, s)  PROVE PInv'
    BY <1>5 DEF PlaceProtective, lockVars, callVars, PInv, PeakIsHighest, PeakIsRead
  <1>6. ASSUME NEW c \in Callers, NEW price \in Prices,
               \/ Rest(c, price) \/ Marketable(c, price) \/ Reject(c, price)
               \/ NotCrossed(c, price) \/ RestingRejected(c, price)
        PROVE  PInv'
    BY <1>6, ElsewhereKeeps
    DEF Rest, Marketable, Reject, NotCrossed, RestingRejected, Return, lockVars, Steps
  <1>7. ASSUME NEW c \in Callers, NEW price \in Prices, Fill(c, price)  PROVE PInv'
    BY <1>7, JoinKeeps DEF Fill
  <1>8. ASSUME NEW c \in Callers, NEW price \in Prices, FillResting(c, price)  PROVE PInv'
    BY <1>8, JoinKeeps DEF FillResting
  <1>9. ASSUME NEW c \in Callers, NEW o \in 1..MaxOrders,
               LookUp(c, o, "poll") \/ LookUp(c, o, "cancel")
        PROVE  PInv'
    BY <1>9, ElsewhereKeeps DEF LookUp, lockVars, Steps
  <1>10. ASSUME NEW c \in Callers, NEW o \in 1..MaxOrders, CancelAtOnce(c, o)  PROVE PInv'
    BY <1>10 DEF CancelAtOnce, lockVars, callVars, PInv, PeakIsHighest, PeakIsRead
  <1>11. ASSUME NEW c \in Callers, Abort(c)  PROVE PInv'
    BY <1>11, ElsewhereKeeps DEF Abort, Return, lockVars, Steps
  <1>12. ASSUME NEW c \in Callers, CutWaiting(c)  PROVE PInv'
    BY <1>12, ElsewhereKeeps DEF CutWaiting, Return, Steps
  <1>13. ASSUME NEW s \in Symbols, NEW l \in Leverages, SetLeverage(s, l)  PROVE PInv'
    BY <1>13 DEF SetLeverage, lockVars, callVars, PInv, PeakIsHighest, PeakIsRead
  <1>14. CASE Restart
    BY <1>14 DEF Restart, PInv, PeakIsHighest, PeakIsRead, Steps
  <1>15. CASE UNCHANGED vars
    BY <1>15 DEF vars, lockVars, callVars, PInv, PeakIsHighest, PeakIsRead
  <1>16. QED
    BY <1>1, <1>2, <1>3, <1>4, <1>5, <1>6, <1>7, <1>8, <1>9, <1>10, <1>11, <1>12, <1>13,
       <1>14, <1>15
    DEF Next

\* The peak that drawdowns are measured from is the highest balance that was
\* ever stored, however reports interleave, fail, are cut off or restart.
THEOREM PeakHighest == Spec => []PeakIsHighest
  <1>1. PInv => PeakIsHighest
    BY DEF PInv
  <1>2. QED  BY InitPInv, StepPInv, <1>1, PTL DEF Spec
-----------------------------------------------------------------------------
(* The account record.                                                     *)

\* The lock: one caller holds it, each of the others that report waits once.
LockInv ==
  /\ waiting \in Seq(Callers) /\ holder \in Callers \cup {None}
  /\ holder = None => waiting = <<>>
  /\ holder # None => step[holder] \in {"read", "write"}
  /\ \A i \in 1..Len(waiting) : step[waiting[i]] = "wait"
  /\ \A i, j \in 1..Len(waiting) : i # j => waiting[i] # waiting[j]

\* Who reports last has the balance as it is, unless its report was lost.
Latest == IF waiting = <<>> THEN holder ELSE waiting[Len(waiting)]
LatestInv ==
  /\ DOMAIN report = Callers
  /\ ~missed /\ holder # None =>
       report[Latest].total = balance + locked /\ report[Latest].locked = locked

AInv == PInv /\ LockInv /\ LatestInv /\ AccountCurrent

\* No caller holds the lock, waits or reports.
LEMMA InitAInv == Init => AInv
  <1> SUFFICES ASSUME Init  PROVE LockInv /\ LatestInv /\ AccountCurrent
    BY InitPInv DEF AInv
  <1>1. LockInv
    BY DEF Init, LockInv
  <1>2. LatestInv
    BY DEF Init, LatestInv
  <1>3. AccountCurrent
    BY PaperAssumption DEF Init, AccountCurrent
  <1>4. QED  BY <1>1, <1>2, <1>3

\* A report that starts has the balance as it now is, and is the latest.
LEMMA JoinLatest ==
  ASSUME AInv, PInv', NEW c \in Callers, Join(c), step[c] \notin {"wait", "read", "write"},
         UNCHANGED account
  PROVE  AInv'
  <1>1. /\ c # None /\ step \in [Callers -> Steps]
        /\ report'[c].total = balance' + locked' /\ report'[c].locked = locked'
        /\ DOMAIN report' = Callers /\ missed' = FALSE
    BY PaperAssumption DEF Join, Callers, AInv, PInv, PeakIsRead, LatestInv
  <1>2. CASE holder = None
    <2>1. /\ holder' = c /\ waiting' = <<>> /\ waiting = <<>>
          /\ step' = [step EXCEPT ![c] = "read"]
      BY <1>2 DEF Join, AInv, LockInv
    <2>2. LockInv'
      BY <1>1, <2>1 DEF LockInv
    <2>3. LatestInv' /\ AccountCurrent'
      BY <1>1, <2>1 DEF LatestInv, Latest, AccountCurrent
    <2>4. QED  BY <2>2, <2>3 DEF AInv
  <1>3. CASE holder # None
    <2>1. /\ holder' = holder /\ waiting' = Append(waiting, c)
          /\ step' = [step EXCEPT ![c] = "wait"]
      BY <1>3 DEF Join
    <2>2. /\ waiting \in Seq(Callers) /\ Len(waiting) \in Nat /\ holder \in Callers
          /\ step[holder] \in {"read", "write"}
          /\ \A i \in 1..Len(waiting) : waiting[i] \in Callers /\ waiting[i] # c
      BY <1>3 DEF AInv, LockInv
    <2>3. /\ waiting' \in Seq(Callers) /\ Len(waiting') = Len(waiting) + 1
          /\ waiting'[Len(waiting')] = c /\ waiting' # <<>>
          /\ \A i \in 1..Len(waiting) : waiting'[i] = waiting[i]
      BY <2>1, <2>2
    <2>4. \A i \in 1..Len(waiting') : step'[waiting'[i]] = "wait"
      BY <1>1, <2>1, <2>2, <2>3 DEF AInv, LockInv
    <2>5. \A i, j \in 1..Len(waiting') : i # j => waiting'[i] # waiting'[j]
      BY <2>2, <2>3 DEF AInv, LockInv
    <2>6. holder' # c /\ step'[holder'] \in {"read", "write"}
      BY <1>1, <2>1, <2>2
    <2>7. LockInv'
      BY <1>3, <2>1, <2>2, <2>3, <2>4, <2>5, <2>6 DEF LockInv
    <2>8. LatestInv' /\ AccountCurrent'
      BY <1>1, <1>3, <2>1, <2>3 DEF LatestInv, Latest, AccountCurrent
    <2>9. QED  BY <2>7, <2>8 DEF AInv
  <1>4. QED  BY <1>2, <1>3

\* A report that is over leaves the lock to the first that waits; if it was the
\* latest, it was stored, or is known to be lost.
LEMMA ReleaseLatest ==
  ASSUME AInv, PInv', NEW c \in Callers, holder = c, Release(c), UNCHANGED <<balance, locked>>,
         \/ account' = Stored(c) /\ missed' = missed
         \/ missed' = (missed \/ waiting = <<>>)
  PROVE  AInv'
  <1>1. /\ c # None /\ step \in [Callers -> Steps] /\ waiting \in Seq(Callers)
        /\ Len(waiting) \in Nat /\ step[c] \in {"read", "write"}
        /\ report' = [report EXCEPT ![c] = NoReport] /\ DOMAIN report' = Callers
    BY PaperAssumption DEF Callers, Release, AInv, PInv, PeakIsRead, LockInv, LatestInv
  <1>2. CASE waiting = <<>>
    <2>1. holder' = None /\ waiting' = <<>>
      BY <1>2 DEF Release
    <2>2. LockInv'
      BY <1>1, <2>1 DEF LockInv
    <2>3. LatestInv'
      BY <1>1, <2>1 DEF LatestInv
    <2>4. AccountCurrent'
      <3>1. ~missed => report[c].total = balance + locked /\ report[c].locked = locked
        BY <1>1, <1>2 DEF AInv, LatestInv, Latest
      <3>2. CASE account' = Stored(c) /\ missed' = missed
        BY <3>1, <3>2 DEF AccountCurrent, Stored
      <3>3. CASE missed' = (missed \/ waiting = <<>>)
        BY <1>2, <3>3 DEF AccountCurrent
      <3>4. QED  BY <3>2, <3>3
    <2>5. QED  BY <2>2, <2>3, <2>4 DEF AInv
  <1>3. CASE waiting # <<>>
    <2> DEFINE h == waiting[1]
    <2>1. /\ holder' = h /\ waiting' = Tail(waiting) /\ h \in Callers /\ h # None
          /\ step' = [d \in Callers |-> IF d = c THEN "idle"
                                       ELSE IF d = h THEN "read" ELSE step[d]]
      BY <1>1, <1>3, PaperAssumption DEF Release, Callers
    <2>2. /\ \A i \in 1..Len(waiting) : waiting[i] \in Callers /\ step[waiting[i]] = "wait"
          /\ \A i, j \in 1..Len(waiting) : i # j => waiting[i] # waiting[j]
          /\ Len(waiting) >= 1
      BY <1>1, <1>3 DEF AInv, LockInv
    <2>3. /\ waiting' \in Seq(Callers) /\ Len(waiting') = Len(waiting) - 1
          /\ \A i \in 1..Len(waiting') : waiting'[i] = waiting[i + 1] /\ i + 1 \in 1..Len(waiting)
      BY <1>1, <1>3, <2>1
    <2>4. \A i \in 1..Len(waiting) : waiting[i] # c
      BY <1>1, <2>2
    <2> HIDE DEF h
    <2>5. \A i \in 1..Len(waiting') : waiting'[i] \in Callers /\ waiting'[i] # c /\ waiting'[i] # h
      BY <1>1, <2>2, <2>3, <2>4 DEF h
    <2>6. \A i \in 1..Len(waiting') : step'[waiting'[i]] = "wait"
      BY <2>1, <2>2, <2>3, <2>5
    <2>7. \A i, j \in 1..Len(waiting') : i # j => waiting'[i] # waiting'[j]
      BY <1>1, <2>2, <2>3, SMTT(30)
    <2>8. step'[holder'] = "read" /\ holder' # c
      BY <1>1, <2>1, <2>2, <2>4 DEF h
    <2>9. LockInv'
      BY <2>1, <2>3, <2>6, <2>7, <2>8 DEF LockInv
    <2>10. Latest' = Latest /\ Latest # c /\ Latest \in Callers
      <3>1. Latest = waiting[Len(waiting)] /\ Latest # c /\ Latest \in Callers
        BY <1>1, <1>3, <2>2, <2>4 DEF Latest
      <3>2. CASE Len(waiting) = 1
        <4>1. waiting' = <<>> /\ Latest = h
          BY <2>3, <3>1, <3>2 DEF h
        <4>2. QED  BY <2>1, <3>1, <4>1 DEF Latest
      <3>3. CASE Len(waiting) # 1
        <4>1. /\ Len(waiting') \in 1..Len(waiting') /\ Len(waiting') + 1 = Len(waiting)
              /\ waiting' # <<>>
          BY <1>1, <2>2, <2>3, <3>3
        <4>2. waiting'[Len(waiting')] = waiting[Len(waiting)]
          BY <2>3, <4>1
        <4>3. QED  BY <3>1, <4>1, <4>2 DEF Latest
      <3>4. QED  BY <3>2, <3>3
    <2>11. ~missed' => ~missed
      BY <1>3
    <2>12. report'[Latest'] = report[Latest] /\ holder # None
      BY <1>1, <2>10 DEF AInv, LatestInv
    <2>13. LatestInv' /\ AccountCurrent'
      BY <1>1, <2>1, <2>11, <2>12 DEF AInv, LatestInv, AccountCurrent
    <2>14. QED  BY <2>9, <2>13 DEF AInv
  <1>4. QED  BY <1>2, <1>3

\* A caller that is not reporting goes on, or returns.
LEMMA ElsewhereLatest ==
  ASSUME AInv, PInv', NEW c \in Callers, NEW to \in Steps \ {"wait", "read", "write"},
         step' = [step EXCEPT ![c] = to], step[c] \notin {"wait", "read", "write"},
         UNCHANGED <<balance, locked, account, holder, waiting, report, missed>>
  PROVE  AInv'
  <1>1. LockInv'
    <2>1. step \in [Callers -> Steps] /\ waiting \in Seq(Callers)
      BY DEF AInv, PInv, PeakIsRead, LockInv
    <2>2. \A i \in 1..Len(waiting) : waiting[i] \in Callers /\ waiting[i] # c
      BY <2>1 DEF AInv, LockInv
    <2>3. holder # None => holder \in Callers /\ holder # c
      BY DEF AInv, LockInv
    <2>4. QED  BY <2>1, <2>2, <2>3 DEF AInv, LockInv
  <1>2. LatestInv' /\ AccountCurrent'
    BY DEF AInv, LatestInv, Latest, AccountCurrent
  <1>3. QED  BY <1>1, <1>2 DEF AInv

\* A cycle that is cut off while it waits for the lock leaves the queue.
LEMMA CutLatest ==
  ASSUME AInv, PInv', NEW c \in Callers, CutWaiting(c)
  PROVE  AInv'
  <1>1. PICK k \in 1..Len(waiting) :
          /\ waiting[k] = c
          /\ waiting' = SubSeq(waiting, 1, k - 1) \o SubSeq(waiting, k + 1, Len(waiting))
    BY DEF CutWaiting
  <1>2. /\ step[c] = "wait" /\ step' = [step EXCEPT ![c] = "idle"]
        /\ report' = [report EXCEPT ![c] = NoReport]
        /\ missed' = (missed \/ waiting[Len(waiting)] = c)
        /\ UNCHANGED <<balance, locked, account, holder>>
    BY DEF CutWaiting, Return, moneyVars
  <1>3. /\ step \in [Callers -> Steps] /\ waiting \in Seq(Callers) /\ Len(waiting) \in Nat
        /\ DOMAIN report = Callers /\ k \in Nat /\ k >= 1 /\ k <= Len(waiting)
        /\ \A i \in 1..Len(waiting) : waiting[i] \in Callers /\ step[waiting[i]] = "wait"
        /\ \A i, j \in 1..Len(waiting) : i # j => waiting[i] # waiting[j]
        /\ holder \in Callers /\ step[holder] \in {"read", "write"} /\ holder # None
    BY <1>1 DEF AInv, PInv, PeakIsRead, LockInv, LatestInv
  <1> DEFINE s == SubSeq(waiting, 1, k - 1)
             t == SubSeq(waiting, k + 1, Len(waiting))
  <1>4. /\ waiting' \in Seq(Callers) /\ Len(waiting') = Len(waiting) - 1
        /\ \A i \in 1..Len(waiting') : i < k => waiting'[i] = waiting[i]
        /\ \A i \in 1..Len(waiting') : i >= k => waiting'[i] = waiting[i + 1]
    <2>1. s \in Seq(Callers) /\ Len(s) = k - 1 /\ \A i \in 1..(k - 1) : s[i] = waiting[i]
      BY <1>3
    <2>2. /\ t \in Seq(Callers) /\ Len(t) = Len(waiting) - k
          /\ \A i \in 1..(Len(waiting) - k) : t[i] = waiting[i + k]
      BY <1>3
    <2> HIDE DEF s, t
    <2>3. waiting' = s \o t
      BY <1>1 DEF s, t
    <2>4. /\ waiting' \in Seq(Callers) /\ Len(waiting') = Len(s) + Len(t)
          /\ \A i \in 1..Len(s) : waiting'[i] = s[i]
          /\ \A i \in 1..Len(t) : waiting'[i + Len(s)] = t[i]
      <3>1. /\ s \o t \in Seq(Callers) /\ Len(s \o t) = Len(s) + Len(t)
            /\ \A i \in 1..(Len(s) + Len(t)) :
                 (s \o t)[i] = IF i <= Len(s) THEN s[i] ELSE t[i - Len(s)]
        BY <2>1, <2>2, ConcatProperties, Zenon
      <3>2. ASSUME NEW i \in 1..Len(s)  PROVE (s \o t)[i] = s[i]
        BY <1>3, <2>1, <2>2, <3>1
      <3>3. ASSUME NEW i \in 1..Len(t)  PROVE (s \o t)[i + Len(s)] = t[i]
        <4>1. i + Len(s) \in 1..(Len(s) + Len(t)) /\ ~(i + Len(s) <= Len(s)) /\ (i + Len(s)) - Len(s) = i
          BY <1>3, <2>1, <2>2
        <4>2. QED  BY <3>1, <4>1
      <3>4. QED  BY <2>3, <3>1, <3>2, <3>3
    <2>5. Len(waiting') = Len(waiting) - 1
      BY <1>3, <2>1, <2>2, <2>4
    <2>6. ASSUME NEW i \in 1..Len(waiting'), i < k  PROVE waiting'[i] = waiting[i]
      BY <1>3, <2>1, <2>4, <2>6
    <2>7. ASSUME NEW i \in 1..Len(waiting'), i >= k  PROVE waiting'[i] = waiting[i + 1]
      <3>1. /\ i - k + 1 \in 1..Len(t) /\ (i - k + 1) + Len(s) = i
            /\ i - k + 1 \in 1..(Len(waiting) - k) /\ (i - k + 1) + k = i + 1
        BY <1>3, <2>1, <2>2, <2>5, <2>7
      <3>2. waiting'[i] = t[i - k + 1] /\ t[i - k + 1] = waiting[i + 1]
        BY <2>2, <2>4, <3>1
      <3>3. QED  BY <3>2
    <2>8. QED  BY <2>4, <2>5, <2>6, <2>7
  <1> HIDE DEF s, t
  <1>5. ASSUME NEW i \in 1..Len(waiting')
        PROVE  waiting'[i] \in Callers /\ waiting'[i] # c
    <2>1. CASE i < k
      <3>1. i \in 1..Len(waiting) /\ i # k /\ waiting'[i] = waiting[i]
        BY <1>3, <1>4, <2>1
      <3>2. QED  BY <1>1, <1>3, <3>1
    <2>2. CASE i >= k
      <3>1. i + 1 \in 1..Len(waiting) /\ i + 1 # k /\ waiting'[i] = waiting[i + 1]
        BY <1>3, <1>4, <2>2
      <3>2. QED  BY <1>1, <1>3, <3>1
    <2>3. QED  BY <1>3, <2>1, <2>2
  <1>6. ASSUME NEW i \in 1..Len(waiting'), NEW j \in 1..Len(waiting'), i < j
        PROVE  waiting'[i] # waiting'[j]
    <2>1. PICK m, n \in 1..Len(waiting) : waiting'[i] = waiting[m] /\ waiting'[j] = waiting[n] /\ m < n
      <3>1. CASE j < k
        BY <1>3, <1>4, <1>6, <3>1
      <3>2. CASE i < k /\ j >= k
        <4>1. i \in 1..Len(waiting) /\ j + 1 \in 1..Len(waiting) /\ i < j + 1
          BY <1>3, <1>4, <1>6
        <4>2. QED  BY <1>4, <3>2, <4>1
      <3>3. CASE i >= k
        <4>1. i + 1 \in 1..Len(waiting) /\ j + 1 \in 1..Len(waiting) /\ i + 1 < j + 1 /\ j >= k
          BY <1>3, <1>4, <1>6, <3>3
        <4>2. QED  BY <1>4, <3>3, <4>1
      <3>4. QED  BY <1>3, <3>1, <3>2, <3>3
    <2>2. QED  BY <1>3, <2>1
  <1>7. \A i \in 1..Len(waiting') : step'[waiting'[i]] = "wait"
    <2> SUFFICES ASSUME NEW i \in 1..Len(waiting')  PROVE step'[waiting'[i]] = "wait"
      OBVIOUS
    <2>1. step[waiting'[i]] = "wait"
      BY <1>3, <1>4, SMTT(30)
    <2>2. QED  BY <1>2, <1>3, <1>5, <2>1
  <1>8. LockInv'
    <2>1. \A i, j \in 1..Len(waiting') : i # j => waiting'[i] # waiting'[j]
      <3>1. \A i, j \in 1..Len(waiting') : i # j => i < j \/ j < i
        BY <1>3, <1>4
      <3>2. QED  BY <1>6, <3>1
    <2>2. holder # c
      BY <1>2, <1>3
    <2>3. QED  BY <1>2, <1>3, <1>4, <1>7, <2>1, <2>2 DEF LockInv
  <1>9. LatestInv'
    <2>1. CASE waiting[Len(waiting)] = c
      BY <1>2, <1>3, <2>1 DEF LatestInv
    <2>2. CASE waiting[Len(waiting)] # c
      <3>1. k < Len(waiting) /\ waiting'[Len(waiting')] = waiting[Len(waiting)] /\ Len(waiting') >= 1
        <4>1. k < Len(waiting) /\ Len(waiting') \in 1..Len(waiting') /\ Len(waiting') >= k
              /\ Len(waiting') + 1 = Len(waiting)
          <5>1. k # Len(waiting)
            BY <1>1, <2>2
          <5>2. QED  BY <1>3, <1>4, <5>1
        <4>2. QED  BY <1>4, <4>1
      <3>2. Latest' = Latest /\ Latest # c /\ Latest \in Callers
        BY <1>3, <1>4, <2>2, <3>1 DEF Latest
      <3>3. QED  BY <1>2, <1>3, <2>2, <3>2 DEF AInv, LatestInv
    <2>3. QED  BY <2>1, <2>2
  <1>10. QED  BY <1>2, <1>3, <1>8, <1>9 DEF AInv, AccountCurrent

\* Each step of a caller, an abort and a restart keep the lock's queue right.
LEMMA StepAInv == AInv /\ [Next]_vars => AInv'
  <1> SUFFICES ASSUME AInv, [Next]_vars  PROVE AInv'
    OBVIOUS
  <1>1. PInv'
    BY StepPInv DEF AInv
  <1>2. ASSUME UNCHANGED <<balance, locked, step, account, holder, waiting, report, missed>>
        PROVE  AInv'
    BY <1>1, <1>2 DEF AInv, LockInv, LatestInv, Latest, AccountCurrent
  <1>3. ASSUME NEW c \in Callers, ReadAccount(c)  PROVE AInv'
    <2>1. /\ step' = [step EXCEPT ![c] = "write"] /\ step[c] = "read"
          /\ step \in [Callers -> Steps]
          /\ UNCHANGED <<balance, locked, account, holder, waiting, report, missed>>
      BY <1>3 DEF ReadAccount, AInv, PInv, PeakIsRead, moneyVars
    <2>2. \A i \in 1..Len(waiting) : waiting[i] # c
      BY <2>1 DEF AInv, LockInv
    <2>3. LockInv'
      BY <2>1, <2>2 DEF AInv, LockInv
    <2>4. QED  BY <1>1, <2>1, <2>3 DEF AInv, LatestInv, Latest, AccountCurrent
  <1>4. ASSUME NEW c \in Callers, WriteAccount(c)  PROVE AInv'
    BY <1>1, <1>4, ReleaseLatest DEF WriteAccount, moneyVars
  <1>5. ASSUME NEW c \in Callers, ReportFails(c)  PROVE AInv'
    BY <1>1, <1>5, ReleaseLatest DEF ReportFails, moneyVars
  <1>6. ASSUME NEW c \in Callers, NEW r \in Request, Submit(c, r)  PROVE AInv'
    BY <1>1, <1>6, ElsewhereLatest DEF Submit, lockVars, moneyVars, Steps
  <1>7. ASSUME NEW c \in Callers, NEW price \in Prices,
               \/ Rest(c, price) \/ Marketable(c, price) \/ Reject(c, price)
               \/ NotCrossed(c, price) \/ RestingRejected(c, price)
        PROVE  AInv'
    BY <1>1, <1>7, ElsewhereLatest
    DEF Rest, Marketable, Reject, NotCrossed, RestingRejected, Return, lockVars, moneyVars, Steps
  <1>8. ASSUME NEW c \in Callers, NEW price \in Prices, Fill(c, price)  PROVE AInv'
    BY <1>1, <1>8, JoinLatest DEF Fill
  <1>9. ASSUME NEW c \in Callers, NEW price \in Prices, FillResting(c, price)  PROVE AInv'
    BY <1>1, <1>9, JoinLatest DEF FillResting
  <1>10. ASSUME NEW c \in Callers, NEW o \in 1..MaxOrders,
                LookUp(c, o, "poll") \/ LookUp(c, o, "cancel")
         PROVE  AInv'
    BY <1>1, <1>10, ElsewhereLatest DEF LookUp, lockVars, moneyVars, Steps
  <1>11. ASSUME NEW c \in Callers, Abort(c)  PROVE AInv'
    BY <1>1, <1>11, ElsewhereLatest DEF Abort, Return, lockVars, moneyVars, Steps
  <1>12. ASSUME NEW c \in Callers, CutWaiting(c)  PROVE AInv'
    BY <1>1, <1>12, CutLatest
  <1>13. CASE Restart
    <2>1. LockInv'
      BY <1>13 DEF Restart, LockInv
    <2>2. LatestInv'
      BY <1>13 DEF Restart, LatestInv
    <2>3. AccountCurrent'
      BY <1>13, PaperAssumption DEF Restart, AccountCurrent
    <2>4. QED  BY <1>1, <2>1, <2>2, <2>3 DEF AInv
  <1>14. ASSUME NEW c \in Callers, \/ \E s \in Symbols : PlaceProtective(c, s)
                                   \/ \E o \in 1..MaxOrders : CancelAtOnce(c, o)
         PROVE  AInv'
    BY <1>2, <1>14 DEF PlaceProtective, CancelAtOnce, lockVars, callVars, moneyVars
  <1>15. CASE \E s \in Symbols, l \in Leverages : SetLeverage(s, l)
    BY <1>2, <1>15 DEF SetLeverage, lockVars, callVars, moneyVars
  <1>16. CASE UNCHANGED vars
    BY <1>2, <1>16 DEF vars, lockVars, callVars, moneyVars
  <1>17. QED
    BY <1>3, <1>4, <1>5, <1>6, <1>7, <1>8, <1>9, <1>10, <1>11, <1>12, <1>13, <1>14, <1>15, <1>16
    DEF Next

\* Once nobody reports, the account record shows the exchange's balance, in
\* whatever order the reports were stored and whatever failed before the latest
\* (_sync_balance_to_store).
THEOREM AccountCurrentHolds == Spec => []AccountCurrent
  <1>1. AInv => AccountCurrent
    BY DEF AInv
  <1>2. QED  BY InitAInv, StepAInv, <1>1, PTL DEF Spec

-----------------------------------------------------------------------------
(* Types.                                                                  *)

\* Orders are numbered in turn, and there is a number left for the one that is
\* being created: the execution loop alone creates limits.
NumberInv ==
  \E m \in 0..MaxOrders :
    /\ \A o \in 1..MaxOrders : orders[o] # None <=> o <= m
    /\ m <= issued /\ (step[Executor] = "check" => m < issued)

\* What a caller looks up is a limit order, what it fills is its request.
CallOK(c) ==
  /\ step[c] \in {"poll", "cancel"} => target[c] # 0
  /\ target[c] # 0 => orders[target[c]] # None /\ orders[target[c]].kind = "limit"
  /\ step[c] = "check" => c = Executor /\ request[c] # None /\ request[c].type = "limit"
  /\ step[c] = "fill" => request[c] # None
CallInv == \A c \in Callers : CallOK(c)

ReportTypes ==
  /\ report \in [Callers -> [total : Int, locked : Int]]
  /\ seen \in [Callers -> Int]
  /\ account \in [total : Int, locked : Int, peak : Int]

TInv == TypeOK /\ NumberInv /\ CallInv /\ ReportTypes

\* No order is issued and no call is under way.
LEMMA InitTInv == Init => TInv
  <1> SUFFICES ASSUME Init  PROVE TInv
    OBVIOUS
  <1>1. /\ balance \in Int /\ locked \in Int /\ highest \in Int /\ missed \in BOOLEAN
        /\ issued \in 0..MaxOrders /\ faults \in 0..MaxFaults /\ restarts \in 0..MaxRestarts
        /\ holder \in Callers \cup {None} /\ waiting \in Seq(Callers)
    <2>1. Initial \in Int
      BY PaperAssumption
    <2>2. balance \in Int /\ locked \in Int /\ highest \in Int /\ missed \in BOOLEAN
      <3>1. missed \in BOOLEAN
        BY DEF Init
      <3>2. balance \in Int /\ locked \in Int /\ highest \in Int
        BY <2>1 DEF Init
      <3>3. QED  BY <3>1, <3>2
    <2>3. issued \in 0..MaxOrders /\ faults \in 0..MaxFaults /\ restarts \in 0..MaxRestarts
      BY PaperAssumption DEF Init
    <2>4. holder \in Callers \cup {None} /\ waiting \in Seq(Callers)
      BY DEF Init
    <2>5. QED  BY <2>2, <2>3, <2>4
  <1>2. /\ positions \in [Symbols -> Position \cup {None}]
        /\ leverage \in [Symbols -> Leverages]
        /\ orders \in [1..MaxOrders -> Order \cup {None}]
        /\ step \in [Callers -> Steps]
        /\ request \in [Callers -> Request \cup {None}]
        /\ target \in [Callers -> 0..MaxOrders]
    BY PaperAssumption DEF Init, Steps
  <1>3. ReportTypes
    BY PaperAssumption DEF Init, ReportTypes, NoReport
  <1>4. NumberInv
    <2>1. 0 \in 0..MaxOrders
      BY PaperAssumption
    <2>2. \A o \in 1..MaxOrders : orders[o] # None <=> o <= 0
      BY PaperAssumption DEF Init
    <2>3. issued = 0 /\ step[Executor] = "idle"
      BY DEF Init, Callers
    <2>4. QED  BY <2>1, <2>2, <2>3 DEF NumberInv
  <1>5. CallInv
    BY DEF Init, CallInv, CallOK
  <1>6. QED  BY <1>1, <1>2, <1>3, <1>4, <1>5 DEF TInv, TypeOK, ReportTypes

\* What an order is worth is an amount; what it leaves of a position is one.
LEMMA QuotientNat ==
  ASSUME NEW a \in Nat, NEW b \in Nat \ {0}
  PROVE  a \div b \in Nat
  OBVIOUS

\* Amounts are products of quantities and prices.
LEMMA ProductNat ==
  ASSUME NEW a \in Nat, NEW b \in Nat
  PROVE  a * b \in Nat
  OBVIOUS

\* A product of integers is one: a profit or a loss.
LEMMA ProductInt ==
  ASSUME NEW a \in Int, NEW b \in Int
  PROVE  a * b \in Int
  OBVIOUS

\* A fill leaves integers: the balance, what is locked, the position.
LEMMA MoneyTypes ==
  ASSUME TypeOK, NEW r, r.symbol \in Symbols, r.side \in Sides, r.qty \in Quantities,
         NEW price \in Prices, ApplyBalanceChange(r, price)
  PROVE  balance' \in Int /\ locked' \in Int /\ positions' \in [Symbols -> Position \cup {None}]
  <1> DEFINE p == Existing(r)
             margin == InitialMargin(r, price)
             fee == Fee(r.qty, price)
  <1>1. /\ r.qty \in Nat /\ r.qty > 0 /\ price \in Nat /\ FeeDiv \in Nat \ {0}
        /\ leverage[r.symbol] \in Nat \ {0} /\ balance \in Int /\ locked \in Int
        /\ positions \in [Symbols -> Position \cup {None}]
        /\ p \in Position \cup {None}
    <2>1. r.qty \in Nat /\ r.qty > 0 /\ price \in Nat /\ FeeDiv \in Nat \ {0}
      <3>1. Quantities \subseteq Nat \ {0} /\ Prices \subseteq Nat \ {0} /\ FeeDiv \in Nat \ {0}
        BY PaperAssumption
      <3>2. r.qty \in Nat \ {0} /\ price \in Nat \ {0}
        BY <3>1
      <3>3. QED  BY <3>1, <3>2
    <2>2. leverage[r.symbol] \in Nat \ {0}
      BY PaperAssumption DEF TypeOK
    <2>3. balance \in Int /\ locked \in Int /\ positions \in [Symbols -> Position \cup {None}]
      BY DEF TypeOK
    <2>4. QED  BY <2>1, <2>2, <2>3 DEF Existing
  <1>2. r.qty * price \in Nat /\ price * r.qty \in Nat
    BY <1>1, ProductNat
  <1>3. margin \in Nat /\ fee \in Nat
    BY <1>1, <1>2, QuotientNat DEF InitialMargin, Fee
  <1>4. p # None => p.qty \in Nat \ {0} /\ p.entry \in Nat /\ p.margin \in Nat /\ p.side \in Sides
    BY <1>1 DEF Position
  <1>5. CASE Closes(r)
    <2>1. p # None
      BY <1>5 DEF Closes
    <2>2. CloseQty(r) \in Nat /\ Left(r) \in Nat
      BY <1>1, <1>4, <2>1 DEF CloseQty, Left
    <2>3. PerUnit(r) \in Nat
      BY <1>4, <2>1, QuotientNat DEF PerUnit
    <2>4. Returned(r) \in Nat /\ PerUnit(r) * Left(r) \in Nat
      BY <2>2, <2>3, ProductNat DEF Returned
    <2>5. Profit(r, price) \in Int
      <3>1. price - p.entry \in Int /\ CloseQty(r) \in Int
        BY <1>1, <1>4, <2>1, <2>2
      <3>2. (price - p.entry) * CloseQty(r) \in Int
        BY <3>1, ProductInt
      <3>3. QED  BY <3>2 DEF Profit
    <2>6. /\ balance' = balance + Returned(r) + Profit(r, price) - fee
          /\ locked' = locked - Returned(r)
          /\ positions' = [positions EXCEPT ![r.symbol] =
               IF Left(r) = 0 THEN None
               ELSE [p EXCEPT !.qty = Left(r), !.margin = PerUnit(r) * Left(r)]]
      BY <1>5 DEF ApplyBalanceChange, Close
    <2>7. Left(r) # 0 => [p EXCEPT !.qty = Left(r), !.margin = PerUnit(r) * Left(r)] \in Position
      <3>1. p \in Position
        BY <1>1, <2>1
      <3> HIDE DEF p
      <3>2. SUFFICES ASSUME Left(r) # 0
                     PROVE  [p EXCEPT !.qty = Left(r), !.margin = PerUnit(r) * Left(r)] \in Position
        OBVIOUS
      <3>3. Left(r) \in Nat \ {0}
        BY <2>2, <3>2
      <3>4. QED  BY <2>4, <3>1, <3>3 DEF Position
    <2> HIDE DEF p, margin, fee
    <2>8. positions' \in [Symbols -> Position \cup {None}]
      BY <1>1, <2>6, <2>7
    <2>9. QED  BY <1>1, <1>3, <2>4, <2>5, <2>6, <2>8
  <1>6. CASE ~Closes(r)
    <2> DEFINE held == IF p = None THEN [qty |-> 0, entry |-> 0, margin |-> 0] ELSE p
               total == held.qty + r.qty
               entry == (held.entry * held.qty + price * r.qty) \div total
    <2>1. held.qty \in Nat /\ held.entry \in Nat /\ held.margin \in Nat
      BY <1>4
    <2> HIDE DEF held, p
    <2>2. total \in Nat \ {0} /\ held.margin + margin \in Nat
      BY <1>1, <1>3, <2>1
    <2>3. held.entry * held.qty + price * r.qty \in Nat
      BY <1>2, <2>1, ProductNat
    <2>4. entry \in Nat
      BY <2>2, <2>3, QuotientNat
    <2>5. /\ balance' = balance - margin - fee
          /\ locked' = locked + margin
          /\ positions' = [positions EXCEPT ![r.symbol] =
               [side |-> r.side, qty |-> total, entry |-> entry, margin |-> held.margin + margin]]
      BY <1>6 DEF ApplyBalanceChange, Open, held, p
    <2> HIDE DEF total, entry, margin, fee
    <2>6. [side |-> r.side, qty |-> total, entry |-> entry, margin |-> held.margin + margin]
            \in Position
      BY <2>2, <2>4 DEF Position
    <2>7. QED  BY <1>1, <1>3, <2>5, <2>6
  <1>7. QED  BY <1>5, <1>6

\* An order that is filled or cancelled stays the order it was.
LEMMA Marked ==
  ASSUME orders \in [1..MaxOrders -> Order \cup {None}],
         NEW o \in 1..MaxOrders, orders[o] # None,
         NEW st \in {"filled", "canceled"}, st = "filled" => orders[o].kind = "limit",
         orders' = [orders EXCEPT ![o].status = st]
  PROVE  /\ orders' \in [1..MaxOrders -> Order \cup {None}]
         /\ \A i \in 1..MaxOrders : orders'[i] # None <=> orders[i] # None
         /\ \A i \in 1..MaxOrders : orders[i] # None => orders'[i].kind = orders[i].kind
  <1> DEFINE w == [orders[o] EXCEPT !.status = st]
  <1>1. orders[o] \in Order
    OBVIOUS
  <1>2. w \in Order /\ w.kind = orders[o].kind
    BY <1>1 DEF Order
  <1>3. w # None
    BY <1>2, NoneAssumption
  <1>4. orders' = [orders EXCEPT ![o] = w]
    OBVIOUS
  <1> HIDE DEF w
  <1>5. QED  BY <1>2, <1>3, <1>4

\* The orders and the calls.
CallTypes ==
  /\ orders \in [1..MaxOrders -> Order \cup {None}]
  /\ step \in [Callers -> Steps]
  /\ request \in [Callers -> Request \cup {None}]
  /\ target \in [Callers -> 0..MaxOrders]
  /\ issued \in 0..MaxOrders
OInv == CallTypes /\ NumberInv /\ CallInv

\* No order is added.
LEMMA NumberKept ==
  ASSUME CallTypes, NumberInv,
         \A o \in 1..MaxOrders : orders'[o] # None <=> orders[o] # None,
         issued' \in Nat, issued' >= issued,
         step'[Executor] = "check" => step[Executor] = "check" \/ issued' = issued + 1
  PROVE  NumberInv'
  <1>1. PICK m \in 0..MaxOrders :
          /\ \A o \in 1..MaxOrders : orders[o] # None <=> o <= m
          /\ m <= issued /\ (step[Executor] = "check" => m < issued)
    BY DEF NumberInv
  <1>2. issued \in Nat /\ m \in Nat
    BY PaperAssumption DEF CallTypes
  <1>3. m <= issued' /\ (step'[Executor] = "check" => m < issued')
    BY <1>1, <1>2
  <1>4. \A o \in 1..MaxOrders : orders'[o] # None <=> o <= m
    BY <1>1
  <1>5. QED  BY <1>3, <1>4 DEF NumberInv

\* An order is added: it has a number of its own.
LEMMA NumberTaken ==
  ASSUME CallTypes, NumberInv, NEW w \in Order, orders' = [orders EXCEPT ![NextId] = w],
         \/ step[Executor] = "check" /\ step'[Executor] # "check" /\ issued' = issued
         \/ step'[Executor] = step[Executor] /\ issued < MaxOrders /\ issued' = issued + 1
  PROVE  /\ NumberInv'
         /\ orders' \in [1..MaxOrders -> Order \cup {None}]
         /\ \A i \in 1..MaxOrders : orders[i] # None => orders'[i] = orders[i]
  <1>1. PICK m \in 0..MaxOrders :
          /\ \A o \in 1..MaxOrders : orders[o] # None <=> o <= m
          /\ m <= issued /\ (step[Executor] = "check" => m < issued)
    BY DEF NumberInv
  <1>2. issued \in Nat /\ m \in Nat /\ MaxOrders \in Nat /\ m < MaxOrders /\ w # None
    BY <1>1, PaperAssumption, NoneAssumption DEF CallTypes
  <1>3. NextId = m + 1
    <2>1. m + 1 \in 1..MaxOrders /\ orders[m + 1] = None
      BY <1>1, <1>2
    <2>2. \A i \in 1..m : orders[i] # None
      BY <1>1, <1>2
    <2>3. ASSUME NEW o \in 1..MaxOrders, orders[o] = None, \A i \in 1..(o - 1) : orders[i] # None
          PROVE  o = m + 1
      <3>1. o > m
        BY <1>1, <1>2, <2>3
      <3>2. ~(o > m + 1)
        BY <1>2, <2>1, <2>3
      <3>3. QED  BY <1>2, <3>1, <3>2
    <2>4. \A i \in 1..((m + 1) - 1) : orders[i] # None
      BY <1>2, <2>2
    <2>5. QED  BY <2>1, <2>3, <2>4 DEF NextId
  <1>4. m + 1 \in 1..MaxOrders /\ orders[m + 1] = None
    BY <1>1, <1>2
  <1>5. orders' \in [1..MaxOrders -> Order \cup {None}]
    BY <1>3, <1>4 DEF CallTypes
  <1>6. /\ orders'[m + 1] = w
        /\ \A i \in 1..MaxOrders : i # m + 1 => orders'[i] = orders[i]
    BY <1>3, <1>4 DEF CallTypes
  <1>7. \A o \in 1..MaxOrders : orders'[o] # None <=> o <= m + 1
    BY <1>1, <1>2, <1>6
  <1>8. m + 1 <= issued' /\ (step'[Executor] = "check" => m + 1 < issued')
    BY <1>1, <1>2
  <1>9. NumberInv'
    <2>1. m + 1 \in 0..MaxOrders
      BY <1>2
    <2>2. QED  BY <1>7, <1>8, <2>1 DEF NumberInv
  <1>10. QED  BY <1>4, <1>5, <1>6, <1>9

\* The call of one caller goes on; the orders the others look up stay.
LEMMA CallKept ==
  ASSUME CallTypes, CallInv, NEW c \in Callers, CallOK(c)',
         \A d \in Callers \ {c} :
           /\ step'[d] = step[d] \/ step'[d] = "read"
           /\ request'[d] = request[d] /\ target'[d] = target[d],
         \A i \in 1..MaxOrders :
           orders[i] # None => orders'[i] # None /\ orders'[i].kind = orders[i].kind
  PROVE  CallInv'
  <1> SUFFICES ASSUME NEW d \in Callers \ {c}  PROVE CallOK(d)'
    BY DEF CallInv
  <1>1. CallOK(d) /\ target[d] \in 0..MaxOrders /\ MaxOrders \in Nat
    BY PaperAssumption DEF CallInv, CallTypes
  <1>2. target[d] # 0 => target[d] \in 1..MaxOrders
    BY <1>1
  <1>3. step'[d] \in {"poll", "cancel", "check", "fill"} => step'[d] = step[d]
    OBVIOUS
  <1>4. QED  BY <1>1, <1>2, <1>3 DEF CallOK

\* A caller that starts, moves on or returns leaves the orders alone.
Moves(c, to, q, t) ==
  /\ step' = [step EXCEPT ![c] = to] /\ to \in Steps
  /\ request' = [request EXCEPT ![c] = q] /\ q \in Request \cup {None}
  /\ target' = [target EXCEPT ![c] = t] /\ t \in 0..MaxOrders
  /\ UNCHANGED orders
  /\ \/ issued' = issued /\ to # "check"
     \/ issued' = issued + 1 /\ issued < MaxOrders

\* A call that goes on without touching the orders.
LEMMA CallMoves ==
  ASSUME OInv, NEW c \in Callers, NEW to, NEW q, NEW t, Moves(c, to, q, t), CallOK(c)'
  PROVE  OInv'
  <1>1. CallTypes /\ NumberInv /\ CallInv /\ issued \in Nat /\ MaxOrders \in Nat
    BY PaperAssumption DEF OInv, CallTypes
  <1>2. CallTypes'
    BY <1>1 DEF CallTypes, Moves
  <1>3. /\ issued' \in Nat /\ issued' >= issued
        /\ step'[Executor] = "check" => step[Executor] = "check" \/ issued' = issued + 1
    BY <1>1 DEF CallTypes, Moves
  <1>4. NumberInv'
    <2>1. \A o \in 1..MaxOrders : orders'[o] # None <=> orders[o] # None
      BY DEF Moves
    <2>2. QED  BY <1>1, <1>3, <2>1, NumberKept
  <1>5. CallInv'
    <2>1. \A d \in Callers \ {c} :
            /\ step'[d] = step[d] \/ step'[d] = "read"
            /\ request'[d] = request[d] /\ target'[d] = target[d]
      BY <1>1 DEF CallTypes, Moves
    <2>2. \A i \in 1..MaxOrders :
            orders[i] # None => orders'[i] # None /\ orders'[i].kind = orders[i].kind
      BY DEF Moves
    <2>3. QED  BY <1>1, <2>1, <2>2, CallKept
  <1>6. QED  BY <1>2, <1>4, <1>5 DEF OInv

\* A report that is over, in time or not: a cancel marks the order it filled.
LEMMA ResumeKeeps ==
  ASSUME OInv, AInv, NEW c \in Callers, holder = c, Release(c), Resume(c), UNCHANGED issued
  PROVE  OInv'
  <1>1. /\ CallTypes /\ NumberInv /\ CallInv /\ MaxOrders \in Nat
        /\ waiting \in Seq(Callers) /\ target[c] \in 0..MaxOrders
    BY PaperAssumption DEF OInv, AInv, LockInv, CallTypes
  <1>2. /\ step' \in [Callers -> Steps] /\ step'[c] = "idle"
        /\ \A d \in Callers \ {c} : step'[d] = step[d] \/ step'[d] = "read"
    BY <1>1 DEF Release, CallTypes, Steps
  <1>3. /\ orders' \in [1..MaxOrders -> Order \cup {None}]
        /\ \A i \in 1..MaxOrders : orders'[i] # None <=> orders[i] # None
        /\ \A i \in 1..MaxOrders : orders[i] # None => orders'[i].kind = orders[i].kind
    <2>1. CASE target[c] = 0
      BY <1>1, <2>1 DEF Resume, CallTypes
    <2>2. CASE target[c] # 0
      <3>1. target[c] \in 1..MaxOrders /\ orders[target[c]] # None
        BY <1>1, <2>2 DEF CallInv, CallOK
      <3>2. orders' = [orders EXCEPT ![target[c]].status = "canceled"]
        BY <2>2 DEF Resume
      <3>3. QED  BY <1>1, <3>1, <3>2, Marked DEF CallTypes
    <2>3. QED  BY <2>1, <2>2
  <1>4. target' = [target EXCEPT ![c] = 0] /\ request' = request
    BY DEF Resume
  <1>5. CallTypes'
    BY <1>1, <1>2, <1>3, <1>4 DEF CallTypes
  <1>6. NumberInv'
    <2>1. Executor \in Callers /\ issued \in Nat
      BY <1>1 DEF Callers, CallTypes
    <2>2. step'[Executor] = "check" => step[Executor] = "check"
      BY <1>2, <2>1
    <2>3. QED  BY <1>1, <1>3, <2>1, <2>2, NumberKept
  <1>7. CallOK(c)'
    BY <1>1, <1>2, <1>4 DEF CallOK, CallTypes
  <1>8. CallInv'
    BY <1>1, <1>2, <1>3, <1>4, <1>7, CallKept DEF CallTypes
  <1>9. QED  BY <1>5, <1>6, <1>8 DEF OInv

\* A resting order is filled or cancelled by a call that asked for it.
LEMMA MarkKeeps ==
  ASSUME OInv, NEW c \in Callers, step[c] \in {"poll", "cancel"},
         NEW st \in {"filled", "canceled"}, orders' = [orders EXCEPT ![target[c]].status = st],
         NEW to \in {"idle", "wait", "read"}, step' = [step EXCEPT ![c] = to],
         NEW q \in {request[c], None}, request' = [request EXCEPT ![c] = q],
         NEW t \in {target[c], 0}, target' = [target EXCEPT ![c] = t],
         UNCHANGED issued
  PROVE  OInv'
  <1>1. /\ CallTypes /\ NumberInv /\ CallInv /\ MaxOrders \in Nat /\ issued \in Nat
        /\ target[c] \in 1..MaxOrders /\ orders[target[c]] # None
        /\ orders[target[c]].kind = "limit"
    BY PaperAssumption DEF OInv, CallTypes, CallInv, CallOK
  <1>2. /\ orders' \in [1..MaxOrders -> Order \cup {None}]
        /\ \A i \in 1..MaxOrders : orders'[i] # None <=> orders[i] # None
        /\ \A i \in 1..MaxOrders : orders[i] # None => orders'[i].kind = orders[i].kind
    BY <1>1, Marked DEF CallTypes
  <1>3. CallTypes'
    BY <1>1, <1>2 DEF CallTypes, Steps
  <1>4. NumberInv'
    <2>1. step'[Executor] = "check" => step[Executor] = "check"
      BY <1>1 DEF CallTypes, Callers
    <2>2. QED  BY <1>1, <1>2, <2>1, NumberKept
  <1>5. CallOK(c)'
    BY <1>1, <1>2 DEF CallOK, CallTypes
  <1>6. CallInv'
    BY <1>1, <1>2, <1>5, CallKept DEF CallTypes
  <1>7. QED  BY <1>3, <1>4, <1>6 DEF OInv

\* Orders are numbered without gaps, and a call is about an order that exists.
LEMMA StepOInv ==
  ASSUME OInv, AInv, [Next]_vars  PROVE OInv'
  <1> USE DEF lockVars, countVars
  <1>1. /\ CallTypes /\ NumberInv /\ CallInv /\ MaxOrders \in Nat /\ issued \in Nat
        /\ issued <= MaxOrders
        /\ \A c \in Callers : CallOK(c) /\ request[c] \in Request \cup {None}
                              /\ target[c] \in 0..MaxOrders /\ step[c] \in Steps
        /\ step = [c \in Callers |-> step[c]] /\ request = [c \in Callers |-> request[c]]
        /\ target = [c \in Callers |-> target[c]]
    BY PaperAssumption DEF OInv, CallTypes, CallInv
  <1>2. ASSUME UNCHANGED <<orders, step, request, target, issued>>  PROVE OInv'
    BY <1>2 DEF OInv, CallTypes, NumberInv, CallInv, CallOK
  <1>3. ASSUME NEW c \in Callers, ReadAccount(c)  PROVE OInv'
    <2>1. /\ step' = [step EXCEPT ![c] = "write"]
          /\ request' = [request EXCEPT ![c] = request[c]]
          /\ target' = [target EXCEPT ![c] = target[c]]
          /\ UNCHANGED <<orders, issued>>
      BY <1>1, <1>3 DEF ReadAccount
    <2>2. CallOK(c)'
      BY <1>1, <2>1 DEF CallOK, CallTypes
    <2>3. Moves(c, "write", request[c], target[c])
      BY <1>1, <2>1 DEF Moves, Steps
    <2>4. QED  BY <2>2, <2>3, CallMoves
  <1>4. ASSUME NEW c \in Callers, WriteAccount(c) \/ ReportFails(c)  PROVE OInv'
    BY <1>4, ResumeKeeps DEF WriteAccount, ReportFails
  <1>5. ASSUME NEW c \in Callers, NEW r \in Request, Submit(c, r)  PROVE OInv'
    <2> DEFINE to == IF r.type = "limit" THEN "check" ELSE "fill"
    <2>1. /\ step' = [step EXCEPT ![c] = to]
          /\ request' = [request EXCEPT ![c] = r]
          /\ target' = [target EXCEPT ![c] = target[c]]
          /\ UNCHANGED orders /\ issued' = issued + 1 /\ issued < MaxOrders
          /\ step[c] = "idle" /\ (c # Executor => r.reduce)
      BY <1>1, <1>5 DEF Submit
    <2>2. r.type = "limit" => c = Executor
      <3>1. r.type = "limit" => r.reduce = FALSE
        BY DEF Request
      <3>2. QED  BY <2>1, <3>1
    <2>3. r # None
      BY NoneAssumption
    <2>4. CallOK(c)'
      BY <1>1, <2>1, <2>2, <2>3 DEF CallOK, CallTypes
    <2>5. Moves(c, to, r, target[c])
      BY <1>1, <2>1 DEF Moves, Steps
    <2> HIDE DEF to
    <2>6. QED  BY <2>4, <2>5, CallMoves
  <1>6. ASSUME NEW c \in Callers, NEW price \in Prices, Rest(c, price)  PROVE OInv'
    <2> DEFINE r == request[c]
               w == [kind |-> "limit", symbol |-> r.symbol, side |-> r.side, qty |-> r.qty,
                     price |-> r.price, status |-> "new"]
    <2>1. /\ step' = [step EXCEPT ![c] = "idle"] /\ request' = [request EXCEPT ![c] = None]
          /\ target' = [target EXCEPT ![c] = 0] /\ orders' = [orders EXCEPT ![NextId] = w]
          /\ issued' = issued /\ step[c] = "check"
      BY <1>6 DEF Rest, Return
    <2>2. c = Executor /\ r \in Request /\ r.type = "limit"
      BY <1>1, <2>1 DEF CallOK
    <2>3. w \in Order
      BY <2>2 DEF Request, Order
    <2> HIDE DEF w, r
    <2>4. step[Executor] = "check" /\ step'[Executor] # "check"
      BY <1>1, <2>1, <2>2
    <2>5. /\ NumberInv' /\ orders' \in [1..MaxOrders -> Order \cup {None}]
          /\ \A i \in 1..MaxOrders : orders[i] # None => orders'[i] = orders[i]
      BY <1>1, <2>1, <2>3, <2>4, NumberTaken
    <2>6. CallTypes'
      BY <1>1, <2>1, <2>5 DEF CallTypes, Steps
    <2>7. CallOK(c)'
      BY <1>1, <2>1 DEF CallOK, CallTypes
    <2>8. CallInv'
      BY <1>1, <2>1, <2>5, <2>7, CallKept DEF CallTypes
    <2>9. QED  BY <2>5, <2>6, <2>8 DEF OInv
  <1>7. ASSUME NEW c \in Callers, NEW price \in Prices, Marketable(c, price)  PROVE OInv'
    <2>1. /\ step' = [step EXCEPT ![c] = "fill"] /\ step[c] = "check"
          /\ request' = [request EXCEPT ![c] = request[c]]
          /\ target' = [target EXCEPT ![c] = target[c]]
          /\ UNCHANGED <<orders, issued>>
      BY <1>1, <1>7 DEF Marketable, callVars
    <2>2. CallOK(c)'
      BY <1>1, <2>1 DEF CallOK, CallTypes
    <2>3. Moves(c, "fill", request[c], target[c])
      BY <1>1, <2>1 DEF Moves, Steps
    <2>4. QED  BY <2>2, <2>3, CallMoves
  <1>8. ASSUME NEW c \in Callers, Return(c), UNCHANGED <<orders, issued>>  PROVE OInv'
    <2>1. CallOK(c)'
      BY <1>1, <1>8 DEF Return, CallOK, CallTypes
    <2>2. Moves(c, "idle", None, 0)
      BY <1>1, <1>8 DEF Moves, Return, Steps
    <2>3. QED  BY <2>1, <2>2, CallMoves
  <1>9. ASSUME NEW c \in Callers, NEW price \in Prices, Fill(c, price)  PROVE OInv'
    <2>1. PICK to \in {"read", "wait"} : step' = [step EXCEPT ![c] = to]
      BY <1>9 DEF Fill, Join
    <2>2. /\ request' = [request EXCEPT ![c] = None]
          /\ target' = [target EXCEPT ![c] = target[c]]
          /\ UNCHANGED <<orders, issued>>
      BY <1>1, <1>9 DEF Fill
    <2>3. CallOK(c)'
      BY <1>1, <2>1, <2>2 DEF CallOK, CallTypes
    <2>4. Moves(c, to, None, target[c])
      BY <1>1, <2>1, <2>2 DEF Moves, Steps
    <2>5. QED  BY <2>3, <2>4, CallMoves
  <1>10. ASSUME NEW c \in Callers, NEW s \in Symbols, PlaceProtective(c, s)  PROVE OInv'
    <2> DEFINE w == [kind |-> "protective", symbol |-> s, status |-> "new"]
    <2>1. /\ orders' = [orders EXCEPT ![NextId] = w] /\ issued < MaxOrders /\ issued' = issued + 1
          /\ UNCHANGED <<step, request, target>>
      BY <1>10 DEF PlaceProtective, callVars
    <2>2. w \in Order
      BY DEF Order
    <2> HIDE DEF w
    <2>3. /\ NumberInv' /\ orders' \in [1..MaxOrders -> Order \cup {None}]
          /\ \A i \in 1..MaxOrders : orders[i] # None => orders'[i] = orders[i]
      BY <1>1, <2>1, <2>2, NumberTaken
    <2>4. CallTypes'
      BY <1>1, <2>1, <2>3 DEF CallTypes
    <2>5. CallOK(c)'
      <3>1. target[c] # 0 => target[c] \in 1..MaxOrders
        BY <1>1
      <3>2. QED  BY <1>1, <2>1, <2>3, <3>1 DEF CallOK
    <2>6. CallInv'
      BY <1>1, <2>1, <2>3, <2>5, CallKept
    <2>7. QED  BY <2>3, <2>4, <2>6 DEF OInv
  <1>11. ASSUME NEW c \in Callers, NEW o \in 1..MaxOrders, NEW to \in {"poll", "cancel"},
                LookUp(c, o, to)
         PROVE  OInv'
    <2>1. /\ step' = [step EXCEPT ![c] = to] /\ request' = [request EXCEPT ![c] = request[c]]
          /\ target' = [target EXCEPT ![c] = o] /\ UNCHANGED <<orders, issued>>
          /\ orders[o] # None /\ orders[o].kind = "limit"
      BY <1>1, <1>11 DEF LookUp, Resting
    <2>2. CallOK(c)'
      BY <1>1, <2>1 DEF CallOK, CallTypes
    <2>3. Moves(c, to, request[c], o)
      BY <1>1, <2>1 DEF Moves, Steps
    <2>4. QED  BY <2>2, <2>3, CallMoves
  <1>12. ASSUME NEW c \in Callers, NEW o \in 1..MaxOrders, CancelAtOnce(c, o)  PROVE OInv'
    <2>1. /\ orders' = [orders EXCEPT ![o].status = "canceled"] /\ orders[o] # None
          /\ UNCHANGED <<step, request, target, issued>>
      BY <1>12 DEF CancelAtOnce, callVars
    <2>2. /\ orders' \in [1..MaxOrders -> Order \cup {None}]
          /\ \A i \in 1..MaxOrders : orders'[i] # None <=> orders[i] # None
          /\ \A i \in 1..MaxOrders : orders[i] # None => orders'[i].kind = orders[i].kind
      BY <1>1, <2>1, Marked DEF CallTypes
    <2>3. CallTypes' /\ NumberInv'
      BY <1>1, <2>1, <2>2, NumberKept DEF CallTypes
    <2>4. CallOK(c)'
      <3>1. target[c] # 0 => target[c] \in 1..MaxOrders
        BY <1>1
      <3>2. QED  BY <1>1, <2>1, <2>2, <3>1 DEF CallOK
    <2>5. CallInv'
      BY <1>1, <2>1, <2>2, <2>4, CallKept
    <2>6. QED  BY <2>3, <2>5 DEF OInv
  <1>13. ASSUME NEW c \in Callers, NEW price \in Prices, NotCrossed(c, price)  PROVE OInv'
    <2>1. CASE step[c] = "cancel"
      BY <1>13, <2>1, MarkKeeps DEF NotCrossed, Return, OInv
    <2>2. CASE step[c] # "cancel"
      BY <1>8, <1>13, <2>2 DEF NotCrossed
    <2>3. QED  BY <2>1, <2>2
  <1>14. ASSUME NEW c \in Callers, NEW price \in Prices, FillResting(c, price)  PROVE OInv'
    <2>1. PICK to \in {"read", "wait"} : step' = [step EXCEPT ![c] = to]
      BY <1>14 DEF FillResting, Join
    <2>2. PICK t \in {target[c], 0} : target' = [target EXCEPT ![c] = t]
      BY <1>14 DEF FillResting
    <2>3. /\ step[c] \in {"poll", "cancel"}
          /\ orders' = [orders EXCEPT ![target[c]].status = "filled"]
          /\ request' = [request EXCEPT ![c] = request[c]] /\ UNCHANGED issued
      BY <1>1, <1>14 DEF FillResting
    <2>4. QED  BY <2>1, <2>2, <2>3, MarkKeeps
  <1>15. CASE Restart
    <2>1. CallTypes'
      BY <1>1, <1>15 DEF Restart, CallTypes, Steps
    <2>2. CallInv'
      BY <1>15 DEF Restart, CallInv, CallOK
    <2>3. NumberInv'
      <3>1. 0 \in 0..MaxOrders /\ 0 <= issued' /\ step'[Executor] # "check"
        BY <1>1, <1>15 DEF Restart, Callers
      <3>2. \A o \in 1..MaxOrders : orders'[o] # None <=> o <= 0
        BY <1>1, <1>15 DEF Restart
      <3>3. QED  BY <3>1, <3>2 DEF NumberInv
    <2>4. QED  BY <2>1, <2>2, <2>3 DEF OInv
  <1>16. ASSUME NEW c \in Callers, NEW price \in Prices, Reject(c, price) \/ RestingRejected(c, price)
         PROVE  OInv'
    BY <1>8, <1>16 DEF Reject, RestingRejected
  <1>17. ASSUME NEW c \in Callers, Abort(c) \/ CutWaiting(c)  PROVE OInv'
    BY <1>8, <1>17 DEF Abort, CutWaiting
  <1>18. CASE \E s \in Symbols, l \in Leverages : SetLeverage(s, l)
    BY <1>2, <1>18 DEF SetLeverage, callVars
  <1>19. CASE UNCHANGED vars
    BY <1>2, <1>19 DEF vars, callVars
  <1>20. QED
    BY <1>3, <1>4, <1>5, <1>6, <1>7, <1>9, <1>10, <1>11, <1>12, <1>13, <1>14, <1>15, <1>16, <1>17,
       <1>18, <1>19
    DEF Next

\* These reserve, cancel, read and report, and move no money.
LEMMA MoneyElsewhere ==
  ASSUME NEW c \in Callers,
         \/ ReadAccount(c) \/ WriteAccount(c) \/ ReportFails(c)
         \/ \E r \in Request : Submit(c, r)
         \/ \E s \in Symbols : PlaceProtective(c, s)
         \/ \E o \in 1..MaxOrders :
              LookUp(c, o, "poll") \/ LookUp(c, o, "cancel") \/ CancelAtOnce(c, o)
         \/ Abort(c) \/ CutWaiting(c)
  PROVE  UNCHANGED moneyVars
  BY DEF ReadAccount, WriteAccount, ReportFails, Submit, PlaceProtective, LookUp,
         CancelAtOnce, Abort, CutWaiting

\* Nor does an order that rests, waits for its price or is refused.
LEMMA MoneyUntouched ==
  ASSUME NEW c \in Callers, NEW price \in Prices,
         \/ Rest(c, price) \/ Marketable(c, price) \/ Reject(c, price)
         \/ NotCrossed(c, price) \/ RestingRejected(c, price)
  PROVE  UNCHANGED moneyVars
  BY DEF Rest, Marketable, Reject, NotCrossed, RestingRejected

\* A resting order that fills is a limit order that was placed.
LEMMA RestingRequest ==
  ASSUME TInv, NEW c \in Callers, NEW price \in Prices, FillResting(c, price)
  PROVE  LET r == AsRequest(target[c]) IN
           /\ r.symbol \in Symbols /\ r.side \in Sides /\ r.qty \in Quantities
           /\ orders[target[c]].price \in Prices
           /\ ApplyBalanceChange(r, orders[target[c]].price)
  <1> DEFINE o == target[c]
  <1>1. /\ step[c] \in {"poll", "cancel"}
        /\ ApplyBalanceChange(AsRequest(o), orders[o].price)
    BY DEF FillResting
  <1>2. o # 0 /\ orders[o] # None /\ orders[o].kind = "limit"
    BY <1>1 DEF TInv, CallInv, CallOK
  <1>3. o \in 1..MaxOrders
    BY <1>2, PaperAssumption DEF TInv, TypeOK
  <1>4. orders[o] \in Order
    BY <1>2, <1>3 DEF TInv, TypeOK
  <1> HIDE DEF o
  <1>5. /\ orders[o].symbol \in Symbols /\ orders[o].side \in Sides
        /\ orders[o].qty \in Quantities /\ orders[o].price \in Prices
    BY <1>2, <1>4 DEF Order
  <1>6. /\ AsRequest(o).symbol \in Symbols /\ AsRequest(o).side \in Sides
        /\ AsRequest(o).qty \in Quantities
    BY <1>5 DEF AsRequest
  <1>7. QED  BY <1>1, <1>5, <1>6 DEF o

\* Money moves when an order fills, a request's or a resting one, and when the
\* process restarts.
AmountTypes ==
  balance \in Int /\ locked \in Int /\ positions \in [Symbols -> Position \cup {None}]

\* Balance, margin and positions keep their types.
LEMMA StepAmounts ==
  ASSUME TInv, [Next]_vars  PROVE AmountTypes'
  <1>1. TypeOK /\ AmountTypes
    BY DEF TInv, TypeOK, AmountTypes
  <1>2. ASSUME UNCHANGED moneyVars  PROVE AmountTypes'
    BY <1>1, <1>2 DEF AmountTypes, moneyVars
  <1>3. ASSUME NEW c \in Callers, NEW price \in Prices, Fill(c, price)  PROVE AmountTypes'
    <2>1. request[c] \in Request /\ ApplyBalanceChange(request[c], price)
      BY <1>1, <1>3 DEF Fill, TInv, CallInv, CallOK, TypeOK
    <2>2. /\ request[c].symbol \in Symbols /\ request[c].side \in Sides
          /\ request[c].qty \in Quantities
      BY <2>1 DEF Request
    <2>3. QED  BY <1>1, <2>1, <2>2, MoneyTypes DEF AmountTypes
  <1>4. ASSUME NEW c \in Callers, NEW price \in Prices, FillResting(c, price)  PROVE AmountTypes'
    BY <1>1, <1>4, RestingRequest, MoneyTypes DEF AmountTypes
  <1>5. CASE Restart
    BY <1>5, PaperAssumption DEF Restart, AmountTypes
  <1>6. ASSUME NEW c \in Callers,
               \/ ReadAccount(c) \/ WriteAccount(c) \/ ReportFails(c)
               \/ \E r \in Request : Submit(c, r)
               \/ \E s \in Symbols : PlaceProtective(c, s)
               \/ \E o \in 1..MaxOrders :
                    LookUp(c, o, "poll") \/ LookUp(c, o, "cancel") \/ CancelAtOnce(c, o)
               \/ Abort(c) \/ CutWaiting(c)
        PROVE  UNCHANGED moneyVars
    BY <1>6, MoneyElsewhere
  <1>7. ASSUME NEW c \in Callers, NEW price \in Prices,
               \/ Rest(c, price) \/ Marketable(c, price) \/ Reject(c, price)
               \/ NotCrossed(c, price) \/ RestingRejected(c, price)
        PROVE  UNCHANGED moneyVars
    BY <1>7, MoneyUntouched
  <1>8. ASSUME NEW s \in Symbols, NEW l \in Leverages, SetLeverage(s, l)
        PROVE  UNCHANGED moneyVars
    BY <1>8 DEF SetLeverage
  <1>9. CASE UNCHANGED vars
    BY <1>2, <1>9 DEF vars
  <1>10. QED  BY <1>2, <1>3, <1>4, <1>5, <1>6, <1>7, <1>8, <1>9 DEF Next

\* What is reported is an amount, and so is the record that is stored.
AccountTypes == ReportTypes /\ highest \in Int

\* A report carries the balance of the moment it was begun.
LEMMA JoinReports ==
  ASSUME AccountTypes, balance' \in Int, locked' \in Int, NEW c \in Callers, Join(c),
         UNCHANGED <<account, highest>>
  PROVE  AccountTypes'
  <1>1. [total |-> balance' + locked', locked |-> locked'] \in [total : Int, locked : Int]
    OBVIOUS
  <1>2. QED  BY <1>1 DEF AccountTypes, ReportTypes, Join

\* The next in the queue begins with a report that was made before.
LEMMA ReleaseReports ==
  ASSUME AccountTypes, NEW c \in Callers, Release(c),
         \/ UNCHANGED <<account, highest>>
         \/ account' = Stored(c) /\ highest' = Higher(highest, report[c].total)
  PROVE  AccountTypes'
  <1>1. /\ report[c].total \in Int /\ report[c].locked \in Int /\ seen[c] \in Int
        /\ highest \in Int
    BY DEF AccountTypes, ReportTypes
  <1>2. Stored(c) \in [total : Int, locked : Int, peak : Int]
    BY <1>1 DEF Stored, Higher
  <1>3. Higher(highest, report[c].total) \in Int
    BY <1>1 DEF Higher
  <1>4. /\ report' \in [Callers -> [total : Int, locked : Int]] /\ seen' \in [Callers -> Int]
    BY DEF AccountTypes, ReportTypes, Release, NoReport
  <1>5. QED  BY <1>2, <1>3, <1>4 DEF AccountTypes, ReportTypes

\* Reports, the account record and the peaks keep their types.
LEMMA StepReports ==
  ASSUME AccountTypes, balance' \in Int, locked' \in Int, [Next]_vars  PROVE AccountTypes'
  <1>1. ASSUME UNCHANGED <<report, seen, account, highest>>  PROVE AccountTypes'
    BY <1>1 DEF AccountTypes, ReportTypes
  <1>2. ASSUME NEW c \in Callers, ReadAccount(c)  PROVE AccountTypes'
    BY <1>2 DEF ReadAccount, AccountTypes, ReportTypes
  <1>3. ASSUME NEW c \in Callers, WriteAccount(c) \/ ReportFails(c)  PROVE AccountTypes'
    <2>1. Release(c)
      BY <1>3 DEF WriteAccount, ReportFails
    <2>2. \/ UNCHANGED <<account, highest>>
          \/ account' = Stored(c) /\ highest' = Higher(highest, report[c].total)
      BY <1>3 DEF WriteAccount, ReportFails
    <2>3. QED  BY <2>1, <2>2, ReleaseReports
  <1>4. ASSUME NEW c \in Callers, NEW price \in Prices, Fill(c, price) \/ FillResting(c, price)
        PROVE  AccountTypes'
    <2>1. Join(c) /\ UNCHANGED <<account, highest>>
      BY <1>4 DEF Fill, FillResting
    <2>2. QED  BY <2>1, JoinReports
  <1>5. ASSUME NEW c \in Callers, CutWaiting(c)  PROVE AccountTypes'
    BY <1>5 DEF CutWaiting, AccountTypes, ReportTypes, NoReport
  <1>6. CASE Restart
    <2>1. report' \in [Callers -> [total : Int, locked : Int]] /\ seen' \in [Callers -> Int]
      BY <1>6 DEF Restart, NoReport
    <2>2. Initial \in Int /\ account.peak \in Int /\ highest \in Int
      BY PaperAssumption DEF AccountTypes, ReportTypes
    <2>3. /\ Higher(account.peak, Initial) \in Int /\ Higher(highest, Initial) \in Int
      BY <2>2 DEF Higher
    <2>4. account' \in [total : Int, locked : Int, peak : Int] /\ highest' \in Int
      BY <1>6, <2>2, <2>3 DEF Restart, AccountTypes, ReportTypes
    <2>5. QED  BY <2>1, <2>4 DEF AccountTypes, ReportTypes
  <1>7. ASSUME NEW c \in Callers,
               \/ \E r \in Request : Submit(c, r)
               \/ \E s \in Symbols : PlaceProtective(c, s)
               \/ \E o \in 1..MaxOrders :
                    LookUp(c, o, "poll") \/ LookUp(c, o, "cancel") \/ CancelAtOnce(c, o)
               \/ Abort(c)
        PROVE  UNCHANGED <<report, seen, account, highest>>
    BY <1>7 DEF Submit, PlaceProtective, LookUp, CancelAtOnce, Abort, lockVars
  <1>8. ASSUME NEW c \in Callers, NEW price \in Prices,
               \/ Rest(c, price) \/ Marketable(c, price) \/ Reject(c, price)
               \/ NotCrossed(c, price) \/ RestingRejected(c, price)
        PROVE  UNCHANGED <<report, seen, account, highest>>
    BY <1>8 DEF Rest, Marketable, Reject, NotCrossed, RestingRejected, lockVars
  <1>9. ASSUME NEW s \in Symbols, NEW l \in Leverages, SetLeverage(s, l)
        PROVE  UNCHANGED <<report, seen, account, highest>>
    BY <1>9 DEF SetLeverage, lockVars
  <1>10. CASE UNCHANGED vars
    BY <1>1, <1>10 DEF vars, lockVars
  <1>11. QED  BY <1>1, <1>2, <1>3, <1>4, <1>5, <1>6, <1>7, <1>8, <1>9, <1>10 DEF Next

\* What is left: the settings, the bounds and what is remembered of a lost report.
RestTypes ==
  /\ leverage \in [Symbols -> Leverages]
  /\ faults \in 0..MaxFaults /\ restarts \in 0..MaxRestarts

\* Leverages and the counters of faults and restarts keep their types.
LEMMA StepRest ==
  ASSUME RestTypes, [Next]_vars  PROVE RestTypes'
  <1> USE DEF countVars
  <1>1. MaxFaults \in Nat /\ MaxRestarts \in Nat /\ 1 \in Leverages
    BY PaperAssumption
  <1>2. ASSUME UNCHANGED <<leverage, restarts>>, faults' = faults \/ (faults < MaxFaults /\ faults' = faults + 1)
        PROVE  RestTypes'
    BY <1>1, <1>2 DEF RestTypes
  <1>3. ASSUME NEW c \in Callers,
               \/ ReadAccount(c) \/ WriteAccount(c) \/ ReportFails(c)
               \/ \E r \in Request : Submit(c, r)
               \/ \E s \in Symbols : PlaceProtective(c, s)
               \/ \E o \in 1..MaxOrders :
                    LookUp(c, o, "poll") \/ LookUp(c, o, "cancel") \/ CancelAtOnce(c, o)
               \/ Abort(c) \/ CutWaiting(c)
        PROVE  RestTypes'
    BY <1>2, <1>3 DEF ReadAccount, WriteAccount, ReportFails, Submit, PlaceProtective, LookUp,
                CancelAtOnce, Abort, CutWaiting
  <1>4. ASSUME NEW c \in Callers, NEW price \in Prices,
               \/ Rest(c, price) \/ Marketable(c, price) \/ Reject(c, price)
               \/ NotCrossed(c, price) \/ RestingRejected(c, price)
               \/ Fill(c, price) \/ FillResting(c, price)
        PROVE  RestTypes'
    BY <1>2, <1>4 DEF Rest, Marketable, Reject, NotCrossed, RestingRejected, Fill, FillResting
  <1>5. ASSUME NEW s \in Symbols, NEW l \in Leverages, SetLeverage(s, l)  PROVE RestTypes'
    BY <1>5 DEF SetLeverage, RestTypes
  <1>6. CASE Restart
    BY <1>1, <1>6 DEF Restart, RestTypes
  <1>7. CASE UNCHANGED vars
    BY <1>7 DEF vars, RestTypes
  <1>8. QED  BY <1>3, <1>4, <1>5, <1>6, <1>7 DEF Next

\* Whether the latest report was missed is a Boolean.
LEMMA StepMissed ==
  ASSUME missed \in BOOLEAN, [Next]_vars  PROVE missed' \in BOOLEAN
  <1>1. ASSUME NEW c \in Callers, \/ WriteAccount(c) \/ ReadAccount(c)
                                  \/ \E r \in Request : Submit(c, r)
                                  \/ \E s \in Symbols : PlaceProtective(c, s)
                                  \/ \E o \in 1..MaxOrders : \/ LookUp(c, o, "poll")
                                                             \/ LookUp(c, o, "cancel")
                                                             \/ CancelAtOnce(c, o)
                                  \/ Abort(c)
        PROVE  missed' = missed
    BY <1>1 DEF ReadAccount, WriteAccount, Submit, PlaceProtective, LookUp, CancelAtOnce, Abort
  <1>2. ASSUME NEW c \in Callers, ReportFails(c) \/ CutWaiting(c)  PROVE missed' \in BOOLEAN
    <2>1. CASE ReportFails(c)
      <3>1. missed' = (missed \/ waiting = <<>>)
        BY <2>1 DEF ReportFails
      <3>2. QED  BY <3>1, Zenon
    <2>2. CASE CutWaiting(c)
      <3>1. missed' = (missed \/ waiting[Len(waiting)] = c)
        BY <2>2 DEF CutWaiting
      <3>2. QED  BY <3>1, Zenon
    <2>3. QED  BY <1>2, <2>1, <2>2
  <1>3. ASSUME NEW c \in Callers, NEW price \in Prices,
               \/ Rest(c, price) \/ Marketable(c, price) \/ Reject(c, price)
               \/ NotCrossed(c, price) \/ RestingRejected(c, price)
        PROVE  missed' = missed
    BY <1>3 DEF Rest, Marketable, Reject, NotCrossed, RestingRejected
  <1>4. ASSUME NEW c \in Callers, NEW price \in Prices, Fill(c, price) \/ FillResting(c, price)
        PROVE  missed' = FALSE
    BY <1>4 DEF Fill, FillResting, Join
  <1>5. CASE Restart
    BY <1>5 DEF Restart
  <1>6. ASSUME NEW s \in Symbols, NEW l \in Leverages, SetLeverage(s, l)  PROVE missed' = missed
    BY <1>6 DEF SetLeverage
  <1>7. CASE UNCHANGED vars
    BY <1>7 DEF vars
  <1>8. QED  BY <1>1, <1>2, <1>3, <1>4, <1>5, <1>6, <1>7, Zenon DEF Next

\* All of them together.
LEMMA StepTInv ==
  ASSUME TInv, AInv, [Next]_vars  PROVE TInv'
  <1>1. OInv
    BY DEF TInv, TypeOK, OInv, CallTypes
  <1>2. OInv'
    BY <1>1, StepOInv
  <1>3. AmountTypes'
    BY StepAmounts
  <1>4. AccountTypes'
    <2>1. AccountTypes
      BY DEF TInv, TypeOK, AccountTypes
    <2>2. QED  BY <1>3, <2>1, StepReports DEF AmountTypes
  <1>5. RestTypes'
    BY StepRest DEF TInv, TypeOK, RestTypes
  <1>6. missed' \in BOOLEAN
    <2>1. missed \in BOOLEAN
      BY DEF TInv, TypeOK
    <2>2. QED  BY <2>1, StepMissed
  <1>7. (holder \in Callers \cup {None})' /\ (waiting \in Seq(Callers))'
    BY StepAInv DEF AInv, LockInv
  <1>8. account'.total \in Int /\ account'.locked \in Int /\ account'.peak \in Int
    BY <1>4 DEF AccountTypes, ReportTypes
  <1>9. TypeOK'
    BY <1>2, <1>3, <1>4, <1>5, <1>6, <1>7, <1>8, Zenon
    DEF TypeOK, OInv, CallTypes, AmountTypes, AccountTypes, RestTypes
  <1>10. QED
    BY <1>2, <1>4, <1>9 DEF TInv, OInv, AccountTypes

\* Every amount is one, every order is numbered within its bound and every
\* position holds something: what closes a position to nothing removes it, what
\* adds to one never leaves it a fraction of nothing (_apply_balance_change).
THEOREM PaperTypeCorrect == Spec => []TypeOK
  <1>1. TInv /\ AInv => TypeOK
    BY DEF TInv
  <1>2. Init => TInv /\ AInv
    BY InitTInv, InitAInv
  <1>3. TInv /\ AInv /\ [Next]_vars => (TInv /\ AInv)'
    BY StepTInv, StepAInv
  <1>4. QED  BY <1>1, <1>2, <1>3, PTL DEF Spec

-----------------------------------------------------------------------------
(* The margin that is locked.                                              *)

\* What rounding leaves of the margin when the position of s is closed in part
\* or as a whole: it stays locked and backs no position.
Drift(s) == (locked' - locked) - (Margin(s)' - Margin(s))
Remainder(s) == positions[s].margin % positions[s].qty

\* An order closes the position of s in part, or as a whole.
Reduced(s) ==
  /\ positions[s] # None /\ restarts' = restarts
  /\ positions'[s] = None \/ positions'[s].qty < positions[s].qty

\* A step leaves the margins as they are, or moves that of one symbol and the
\* locked amount together, less, when it closes something, what is left of the
\* division by the quantity that was held; a restart forgets both.
MarginMoves ==
  \/ locked' = locked /\ \A s \in Symbols : Margin(s)' = Margin(s)
  \/ locked' = 0 /\ \A s \in Symbols : Margin(s)' = 0
  \/ \E s \in Symbols :
       /\ \A t \in Symbols \ {s} : Margin(t)' = Margin(t)
       /\ Drift(s) = 0 \/ (Reduced(s) /\ Drift(s) = Remainder(s) /\ Drift(s) \in Nat)

\* A margin is its part per unit times the units, and a remainder.
LEMMA PartsOfMargin ==
  ASSUME NEW m \in Nat, NEW q \in Nat \ {0}, NEW x \in Nat, NEW y \in Nat, x + y = q
  PROVE  /\ m - ((m \div q) * x + (m \div q) * y) = m % q
         /\ m % q \in 0..(q - 1)
  <1> DEFINE u == m \div q
             r == m % q
  <1>1. r = m - q * u /\ r \in 0..(q - 1) /\ u \in Nat
    BY SMT
  <1> HIDE DEF u, r
  <1>2. u * x + u * y = q * u
    BY <1>1
  <1>3. u * x \in Nat /\ u * y \in Nat /\ q * u \in Nat
    BY <1>1, ProductNat
  <1>4. m - (u * x + u * y) = r
    BY <1>1, <1>2, <1>3
  <1>5. QED  BY <1>1, <1>4 DEF u, r

\* An order that opens or adds locks what it needs, one that closes releases
\* its part of the margin (_apply_balance_change).
LEMMA MoneyMoves ==
  ASSUME TypeOK, NEW r, r.symbol \in Symbols, r.side \in Sides, r.qty \in Quantities,
         NEW price \in Prices, ApplyBalanceChange(r, price), restarts' = restarts
  PROVE  MarginMoves
  <1> DEFINE s == r.symbol
             p == Existing(r)
             margin == InitialMargin(r, price)
  <1>1. /\ positions \in [Symbols -> Position \cup {None}] /\ locked \in Int
        /\ r.qty \in Nat \ {0} /\ p = positions[s] /\ p \in Position \cup {None}
        /\ margin \in Nat
    <2>1. r.qty \in Nat \ {0} /\ price \in Nat /\ leverage[s] \in Nat \ {0}
      BY PaperAssumption DEF TypeOK
    <2>2. r.qty * price \in Nat
      BY <2>1, ProductNat
    <2>3. margin \in Nat
      BY <2>1, <2>2, QuotientNat DEF InitialMargin
    <2>4. QED  BY <2>1, <2>3 DEF TypeOK, Existing
  <1>2. p # None => p.qty \in Nat \ {0} /\ p.margin \in Nat
    BY <1>1 DEF Position
  <1>3. Margin(s) = IF p = None THEN 0 ELSE p.margin
    BY <1>1 DEF Margin
  <1>4. ASSUME NEW w \in Position \cup {None}, positions' = [positions EXCEPT ![s] = w]
        PROVE  /\ Margin(s)' = IF w = None THEN 0 ELSE w.margin
               /\ \A t \in Symbols \ {s} : Margin(t)' = Margin(t)
    BY <1>1, <1>4 DEF Margin
  <1> HIDE DEF s, p, margin
  <1>5. CASE Closes(r)
    <2> DEFINE w == IF Left(r) = 0 THEN None
                    ELSE [p EXCEPT !.qty = Left(r), !.margin = PerUnit(r) * Left(r)]
    <2>1. p # None /\ p \in Position
      BY <1>1, <1>5 DEF Closes, p
    <2>2. /\ locked' = locked - Returned(r) /\ positions' = [positions EXCEPT ![s] = w]
          /\ CloseQty(r) \in Nat \ {0} /\ Left(r) \in Nat /\ CloseQty(r) + Left(r) = p.qty
          /\ Returned(r) = (p.margin \div p.qty) * CloseQty(r)
          /\ PerUnit(r) = p.margin \div p.qty
      <3>1. locked' = locked - Returned(r) /\ positions' = [positions EXCEPT ![s] = w]
        BY <1>5 DEF ApplyBalanceChange, Close, s, p
      <3>2. /\ Returned(r) = (p.margin \div p.qty) * CloseQty(r)
            /\ PerUnit(r) = p.margin \div p.qty
        BY DEF Returned, PerUnit, p
      <3>3. /\ CloseQty(r) = IF r.qty < p.qty THEN r.qty ELSE p.qty
            /\ Left(r) = p.qty - CloseQty(r)
        BY DEF CloseQty, Left, p
      <3>4. /\ CloseQty(r) \in Nat \ {0} /\ Left(r) \in Nat
            /\ CloseQty(r) + Left(r) = p.qty
        BY <1>1, <1>2, <2>1, <3>3
      <3>5. QED  BY <3>1, <3>2, <3>4
    <2>3. PerUnit(r) \in Nat
      BY <1>2, <2>1, <2>2, QuotientNat
    <2>4. Returned(r) \in Nat /\ PerUnit(r) * Left(r) \in Nat
      BY <2>2, <2>3, ProductNat
    <2>5. /\ w \in Position \cup {None}
          /\ (IF w = None THEN 0 ELSE w.margin) = PerUnit(r) * Left(r)
      <3>1. CASE Left(r) = 0
        BY <2>2, <2>3, <3>1
      <3>2. CASE Left(r) # 0
        <4>1. Left(r) \in Nat \ {0}
          BY <2>2, <3>2
        <4>2. w \in Position /\ w.margin = PerUnit(r) * Left(r)
          BY <2>1, <2>4, <3>2, <4>1 DEF Position
        <4>3. w # None
          BY <4>2, NoneAssumption
        <4>4. QED  BY <4>2, <4>3
      <3>3. QED  BY <3>1, <3>2
    <2> HIDE DEF w
    <2>6. /\ Margin(s)' = PerUnit(r) * Left(r) /\ Margin(s) = p.margin
          /\ \A t \in Symbols \ {s} : Margin(t)' = Margin(t)
      BY <1>3, <1>4, <2>1, <2>2, <2>5
    <2>7. /\ p.margin - ((p.margin \div p.qty) * CloseQty(r) + (p.margin \div p.qty) * Left(r))
            = p.margin % p.qty
          /\ p.margin % p.qty \in Nat
      <3>1. /\ p.margin \in Nat /\ p.qty \in Nat \ {0} /\ CloseQty(r) \in Nat
            /\ Left(r) \in Nat /\ CloseQty(r) + Left(r) = p.qty
        BY <1>2, <2>1, <2>2
      <3>2. p.margin % p.qty \in 0..(p.qty - 1) => p.margin % p.qty \in Nat
        BY <3>1
      <3>3. /\ p.margin - ((p.margin \div p.qty) * CloseQty(r) + (p.margin \div p.qty) * Left(r))
                 = p.margin % p.qty
            /\ p.margin % p.qty \in 0..(p.qty - 1)
        BY <3>1, PartsOfMargin, ZenonT(30)
      <3>4. QED  BY <3>2, <3>3, Zenon
    <2>8. p.margin - (Returned(r) + PerUnit(r) * Left(r)) = p.margin % p.qty
      BY <2>2, <2>7
    <2>9. Drift(s) = p.margin - (Returned(r) + PerUnit(r) * Left(r))
      BY <1>1, <1>2, <2>1, <2>2, <2>4, <2>6 DEF Drift
    <2>10. s \in Symbols /\ positions[s] = p
      BY <1>1 DEF s
    <2>11. Drift(s) = Remainder(s) /\ Drift(s) \in Nat
      BY <2>7, <2>8, <2>9, <2>10 DEF Remainder
    <2>12. positions'[s] = None \/ positions'[s].qty < positions[s].qty
      <3>1. positions'[s] = w
        BY <1>1, <2>2, <2>10
      <3>2. Left(r) # 0 => w.qty = Left(r)
        BY <2>1 DEF w, Position
      <3>3. Left(r) = 0 => w = None
        BY DEF w
      <3>4. Left(r) < p.qty
        BY <1>2, <2>1, <2>2
      <3>5. QED  BY <2>10, <3>1, <3>2, <3>3, <3>4
    <2>13. Reduced(s)
      BY <2>1, <2>10, <2>12 DEF Reduced
    <2>14. QED  BY <2>6, <2>10, <2>11, <2>13, Zenon DEF MarginMoves
  <1>6. CASE ~Closes(r)
    <2> DEFINE held == IF p = None THEN [qty |-> 0, entry |-> 0, margin |-> 0] ELSE p
               total == held.qty + r.qty
               w == [side |-> r.side, qty |-> total,
                     entry |-> (held.entry * held.qty + price * r.qty) \div total,
                     margin |-> held.margin + margin]
    <2>1. locked' = locked + margin /\ positions' = [positions EXCEPT ![s] = w]
      BY <1>6 DEF ApplyBalanceChange, Open, s, p, margin
    <2>2. held.margin = (IF p = None THEN 0 ELSE p.margin) /\ w.margin = held.margin + margin
      OBVIOUS
    <2>3. /\ held.qty \in Nat /\ held.entry \in Nat /\ held.margin \in Nat
          /\ total \in Nat \ {0} /\ held.margin + margin \in Nat
      BY <1>1, <1>2, <1>4 DEF Position, p
    <2>4. s \in Symbols
      BY <1>1 DEF s
    <2>5. w \in Position \cup {None} /\ w # None
      <3> DEFINE entry == (held.entry * held.qty + price * r.qty) \div total
      <3>1. price \in Nat /\ r.qty \in Nat
        BY <1>1, PaperAssumption
      <3>2. held.entry * held.qty \in Nat /\ price * r.qty \in Nat
        BY <2>3, <3>1, ProductNat
      <3>3. held.entry * held.qty + price * r.qty \in Nat
        BY <3>2
      <3>4. entry \in Nat
        BY <2>3, <3>3, QuotientNat
      <3>5. w = [side |-> r.side, qty |-> total, entry |-> entry, margin |-> held.margin + margin]
        OBVIOUS
      <3> HIDE DEF entry, total, held, w
      <3>6. w \in Position
        BY <2>3, <3>4, <3>5 DEF Position
      <3>7. QED  BY <3>6, NoneAssumption
    <2> HIDE DEF w, held
    <2>6. /\ Margin(s)' = held.margin + margin /\ Margin(s) = held.margin
          /\ \A t \in Symbols \ {s} : Margin(t)' = Margin(t)
      BY <1>3, <1>4, <2>1, <2>2, <2>5
    <2>7. held.margin \in Nat
      BY <1>2, <2>2
    <2>8. Drift(s) = 0
      BY <1>1, <2>1, <2>6, <2>7 DEF Drift
    <2>9. QED  BY <2>4, <2>6, <2>8, Zenon DEF MarginMoves
  <1>7. QED  BY <1>5, <1>6

\* Only a fill or a restart moves what is locked.
LEMMA StepMargin ==
  ASSUME TInv, [Next]_vars  PROVE [MarginMoves]_moneyVars
  <1>1. TypeOK
    BY DEF TInv
  <1>2. ASSUME NEW c \in Callers, NEW price \in Prices, Fill(c, price)  PROVE MarginMoves
    <2>1. /\ request[c] \in Request /\ ApplyBalanceChange(request[c], price)
          /\ restarts' = restarts
      BY <1>1, <1>2 DEF Fill, TInv, CallInv, CallOK, TypeOK, countVars
    <2>2. /\ request[c].symbol \in Symbols /\ request[c].side \in Sides
          /\ request[c].qty \in Quantities
      BY <2>1 DEF Request
    <2>3. QED  BY <1>1, <2>1, <2>2, MoneyMoves
  <1>3. ASSUME NEW c \in Callers, NEW price \in Prices, FillResting(c, price)  PROVE MarginMoves
    <2>1. LET r == AsRequest(target[c]) IN
            /\ r.symbol \in Symbols /\ r.side \in Sides /\ r.qty \in Quantities
            /\ orders[target[c]].price \in Prices
            /\ ApplyBalanceChange(r, orders[target[c]].price)
      BY <1>3, RestingRequest
    <2>2. restarts' = restarts
      BY <1>3 DEF FillResting, countVars
    <2>3. QED  BY <1>1, <2>1, <2>2, MoneyMoves
  <1>4. CASE Restart
    BY <1>4 DEF Restart, MarginMoves, Margin
  <1>5. ASSUME NEW c \in Callers,
               \/ ReadAccount(c) \/ WriteAccount(c) \/ ReportFails(c)
               \/ \E r \in Request : Submit(c, r)
               \/ \E s \in Symbols : PlaceProtective(c, s)
               \/ \E o \in 1..MaxOrders :
                    LookUp(c, o, "poll") \/ LookUp(c, o, "cancel") \/ CancelAtOnce(c, o)
               \/ Abort(c) \/ CutWaiting(c)
        PROVE  UNCHANGED moneyVars
    BY <1>5, MoneyElsewhere
  <1>6. ASSUME NEW c \in Callers, NEW price \in Prices,
               \/ Rest(c, price) \/ Marketable(c, price) \/ Reject(c, price)
               \/ NotCrossed(c, price) \/ RestingRejected(c, price)
        PROVE  UNCHANGED moneyVars
    BY <1>6, MoneyUntouched
  <1>7. ASSUME NEW s \in Symbols, NEW l \in Leverages, SetLeverage(s, l)
        PROVE  UNCHANGED moneyVars
    BY <1>7 DEF SetLeverage
  <1>8. CASE UNCHANGED vars
    BY <1>8 DEF vars
  <1>9. QED  BY <1>2, <1>3, <1>4, <1>5, <1>6, <1>7, <1>8 DEF Next

\* The locked amount follows the margins of the positions step by step, through
\* opening, adding, leverage changes, closes of both sizes and restarts: a close
\* leaves locked exactly what its division leaves over (_apply_balance_change).
THEOREM LockedFollowsMargins == Spec => [][MarginMoves]_moneyVars
  <1>1. Init => TInv /\ AInv
    BY InitTInv, InitAInv
  <1>2. TInv /\ AInv /\ [Next]_vars => (TInv /\ AInv)'
    BY StepTInv, StepAInv
  <1>3. TInv /\ [Next]_vars => [MarginMoves]_moneyVars
    BY StepMargin
  <1>4. QED  BY <1>1, <1>2, <1>3, PTL DEF Spec

-----------------------------------------------------------------------------
(* Sums.                                                                   *)

\* Pairs of naturals of which the first is smaller.
Below == {ss \in Nat \X Nat : ss[1] < ss[2]}

\* A set of naturals that is not empty has a least element.
LEMMA Least ==
  ASSUME NEW T \in SUBSET Nat, T # {}
  PROVE  \E n \in T : \A m \in T : n <= m
  <1>1. IsWellFoundedOn(Below, Nat)
    BY NatLessThanWellFounded, Zenon DEF OpToRel, Below
  <1>2. PICK n \in T : \A m \in T : ~ (<<m, n>> \in Below)
    BY <1>1, WFMin
  <1>3. ASSUME NEW m \in T  PROVE n <= m
    <2>1. m < n => <<m, n>> \in Below
      BY DEF Below
    <2>2. ~ (m < n)
      BY <1>2, <2>1, Zenon
    <2>3. QED  BY <2>2
  <1>4. QED  BY <1>3

\* Induction over the naturals, for a set.
LEMMA Induction ==
  ASSUME NEW T, 0 \in T, \A n \in Nat : n \in T => n + 1 \in T
  PROVE  \A n \in Nat : n \in T
  <1> SUFFICES ASSUME NEW k \in Nat, k \notin T  PROVE FALSE
    OBVIOUS
  <1> DEFINE Out == Nat \ T
  <1>1. Out \in SUBSET Nat /\ k \in Out
    OBVIOUS
  <1> HIDE DEF Out
  <1>2. PICK n \in Out : \A m \in Out : n <= m
    BY <1>1, Least
  <1>3. n # 0 /\ n - 1 \in Nat
    BY DEF Out
  <1>4. n - 1 \in T
    BY <1>2, <1>3 DEF Out
  <1>5. (n - 1) + 1 \in T
    BY <1>3, <1>4
  <1>6. QED  BY <1>3, <1>5 DEF Out

\* A sum over a set takes out one element at a time; Total(f) is the function that
\* FoldFunction builds for it, from subsets to sums.
AnyOf(U) == CHOOSE x \in U : TRUE
Remaining(U) == U \ {AnyOf(U)}
Total(f) ==
  CHOOSE sum : sum = [U \in SUBSET DOMAIN f |->
      IF U = {} THEN 0 ELSE f[AnyOf(U)] + sum[U \ {AnyOf(U)}]]

\* The subsets of S with at most n elements.
Small(S, n) == {U \in SUBSET S : Cardinality(U) <= n}

\* The fold is that of all elements.
LEMMA FoldIsTotal ==
  ASSUME NEW f  PROVE FoldFunction(+, 0, f) = Total(f)[DOMAIN f]
  BY DEF FoldFunction, FoldFunctionOnSet, MapThenFoldSet, Total, AnyOf

\* What is left of a finite set has one element less.
LEMMA RestSmaller ==
  ASSUME NEW S, IsFiniteSet(S), NEW U \in SUBSET S, U # {}
  PROVE  /\ AnyOf(U) \in S /\ AnyOf(U) \in U /\ Remaining(U) \in SUBSET S
         /\ Cardinality(U) \in Nat /\ Cardinality(Remaining(U)) = Cardinality(U) - 1
         /\ Cardinality(Remaining(U)) \in Nat
  <1>1. AnyOf(U) \in U
    BY DEF AnyOf
  <1>2. IsFiniteSet(U)
    BY FS_Subset
  <1>3. Cardinality(U) \in Nat /\ IsFiniteSet(Remaining(U)) /\ Cardinality(Remaining(U)) = Cardinality(U) - 1
    BY <1>1, <1>2, FS_RemoveElement, FS_CardinalityType DEF Remaining
  <1>4. Cardinality(Remaining(U)) \in Nat
    BY <1>3, FS_CardinalityType
  <1>5. QED  BY <1>1, <1>3, <1>4 DEF Remaining

\* sum is right on the small subsets.
Sums(sum, f, S, n) ==
  \A U \in Small(S, n) : sum[U] = IF U = {} THEN 0 ELSE f[AnyOf(U)] + sum[Remaining(U)]

\* Sums of ever larger subsets can be had, so that what Total chooses exists.
LEMMA SumsExist ==
  ASSUME NEW S, IsFiniteSet(S), NEW f \in [S -> Int]
  PROVE  \A n \in Nat : \E sum \in [SUBSET S -> Int] : Sums(sum, f, S, n)
  <1> DEFINE T == {n \in Nat : \E sum \in [SUBSET S -> Int] : Sums(sum, f, S, n)}
  <1>1. 0 \in T
    <2> DEFINE g == [U \in SUBSET S |-> 0]
    <2>1. \A U \in Small(S, 0) : U = {}
      <3> TAKE U \in Small(S, 0)
      <3>1. U # {} => Cardinality(Remaining(U)) = Cardinality(U) - 1 /\ Cardinality(Remaining(U)) \in Nat
                      /\ Cardinality(U) \in Nat
        BY RestSmaller DEF Small
      <3>2. QED  BY <3>1 DEF Small
    <2>2. g \in [SUBSET S -> Int]  OBVIOUS
    <2>3. Sums(g, f, S, 0)  BY <2>1 DEF Sums, Small
    <2>4. QED  BY <2>2, <2>3
  <1>2. ASSUME NEW n \in Nat, n \in T  PROVE n + 1 \in T
    <2>1. PICK h \in [SUBSET S -> Int] : Sums(h, f, S, n)
      BY <1>2
    <2> DEFINE g == [U \in SUBSET S |-> IF U \in Small(S, n) \/ U = {} THEN h[U] ELSE f[AnyOf(U)] + h[Remaining(U)]]
    <2>2. \A U \in SUBSET S : U # {} => f[AnyOf(U)] \in Int /\ h[Remaining(U)] \in Int
      BY RestSmaller
    <2>3. g \in [SUBSET S -> Int]
      BY <2>2
    <2>4. ASSUME NEW U \in Small(S, n + 1)
          PROVE  g[U] = IF U = {} THEN 0 ELSE f[AnyOf(U)] + g[Remaining(U)]
      <3>1. CASE U = {}
        <4>1. {} \in Small(S, n)
          BY FS_EmptySet DEF Small
        <4>2. QED  BY <2>1, <3>1, <4>1 DEF Sums, Small
      <3>2. CASE U # {}
        <4>1. U \in SUBSET S /\ Remaining(U) \in Small(S, n)
          BY <2>4, <3>2, RestSmaller DEF Small
        <4>2. g[Remaining(U)] = h[Remaining(U)]
          BY <4>1 DEF Small
        <4>3. U \in Small(S, n) => h[U] = f[AnyOf(U)] + h[Remaining(U)]
          BY <2>1, <3>2 DEF Sums
        <4>4. g[U] = f[AnyOf(U)] + h[Remaining(U)]
          BY <3>2, <4>1, <4>3
        <4> HIDE DEF g
        <4>5. QED  BY <3>2, <4>2, <4>4
      <3>3. QED  BY <3>1, <3>2
    <2> HIDE DEF g
    <2>5. Sums(g, f, S, n + 1)
      BY <2>4 DEF Sums
    <2>6. QED  BY <2>3, <2>5
  <1> HIDE DEF T
  <1>3. \A n \in Nat : n \in T
    BY <1>1, <1>2, Induction
  <1>4. QED  BY <1>3 DEF T

\* Total is what it is meant to be.
LEMMA TotalLaw ==
  ASSUME NEW S, IsFiniteSet(S), NEW f \in [S -> Int]
  PROVE  \A U \in SUBSET S :
           Total(f)[U] = IF U = {} THEN 0 ELSE f[AnyOf(U)] + Total(f)[Remaining(U)]
  <1> DEFINE Body(sum) == [U \in SUBSET DOMAIN f |->
                             IF U = {} THEN 0 ELSE f[AnyOf(U)] + sum[U \ {AnyOf(U)}]]
  <1>1. PICK h \in [SUBSET S -> Int] : Sums(h, f, S, Cardinality(S))
    BY SumsExist, FS_CardinalityType
  <1>2. \A U \in SUBSET S : U \in Small(S, Cardinality(S))
    BY FS_Subset DEF Small
  <1>3. \A U \in SUBSET S : h[U] = IF U = {} THEN 0 ELSE f[AnyOf(U)] + h[U \ {AnyOf(U)}]
    BY <1>1, <1>2 DEF Sums, Remaining
  <1>4. h = Body(h)
    <2>1. h = [U \in SUBSET S |-> h[U]] /\ DOMAIN f = S
      OBVIOUS
    <2>2. QED  BY <1>3, <2>1
  <1>5. Total(f) = Body(Total(f))
    BY <1>4 DEF Total
  <1>6. QED  BY <1>5 DEF Remaining

\* Induction, for the subsets of a finite set.
LEMMA SubsetInduction ==
  ASSUME NEW S, IsFiniteSet(S), NEW T, {} \in T,
         \A U \in SUBSET S : U # {} /\ Remaining(U) \in T => U \in T
  PROVE  \A U \in SUBSET S : U \in T
  <1> DEFINE N == {n \in Nat : Small(S, n) \subseteq T}
  <1>1. 0 \in N
    <2>1. ASSUME NEW U \in Small(S, 0)  PROVE U = {}
      <3>1. U # {} => Cardinality(Remaining(U)) = Cardinality(U) - 1 /\ Cardinality(Remaining(U)) \in Nat
                      /\ Cardinality(U) \in Nat
        BY RestSmaller DEF Small
      <3>2. QED  BY <3>1 DEF Small
    <2>2. QED  BY <2>1
  <1>2. ASSUME NEW n \in Nat, n \in N  PROVE n + 1 \in N
    <2>1. ASSUME NEW U \in Small(S, n + 1), U # {}  PROVE U \in T
      <3>1. Remaining(U) \in Small(S, n) /\ U \in SUBSET S
        BY <2>1, RestSmaller DEF Small
      <3>2. QED  BY <1>2, <2>1, <3>1
    <2>2. QED  BY <2>1
  <1> HIDE DEF N
  <1>3. Cardinality(S) \in N
    BY <1>1, <1>2, Induction, FS_CardinalityType
  <1>4. \A U \in SUBSET S : U \in Small(S, Cardinality(S))
    BY FS_Subset DEF Small
  <1>5. QED  BY <1>3, <1>4 DEF N

\* A sum of integers is one.
LEMMA TotalType ==
  ASSUME NEW S, IsFiniteSet(S), NEW f \in [S -> Int]
  PROVE  \A U \in SUBSET S : Total(f)[U] \in Int
  <1> DEFINE T == {U \in SUBSET S : Total(f)[U] \in Int}
  <1>1. {} \in T
    <2>1. Total(f)[{}] = 0
      BY TotalLaw
    <2>2. QED  BY <2>1
  <1>2. \A U \in SUBSET S : U # {} /\ Remaining(U) \in T => U \in T
    <2> TAKE U \in SUBSET S
    <2>1. U # {} => f[AnyOf(U)] \in Int
      BY RestSmaller
    <2>2. QED  BY <2>1, TotalLaw
  <1> HIDE DEF T
  <1>3. \A U \in SUBSET S : U \in T
    BY <1>1, <1>2, SubsetInduction
  <1>4. QED  BY <1>3 DEF T

\* When one summand changes the sum changes by as much: both sums take out the
\* same elements in the same order.
LEMMA TotalMoves ==
  ASSUME NEW S, IsFiniteSet(S), NEW f \in [S -> Int], NEW g \in [S -> Int], NEW t \in S,
         \A s \in S \ {t} : g[s] = f[s]
  PROVE  \A U \in SUBSET S :
           Total(g)[U] = Total(f)[U] + (IF t \in U THEN g[t] - f[t] ELSE 0)
  <1> DEFINE T == {U \in SUBSET S : Total(g)[U] = Total(f)[U] + (IF t \in U THEN g[t] - f[t] ELSE 0)}
  <1>1. {} \in T
    <2>1. Total(f)[{}] = 0 /\ Total(g)[{}] = 0
      BY TotalLaw
    <2>2. QED  BY <2>1
  <1>2. ASSUME NEW U \in SUBSET S, U # {}, Remaining(U) \in T  PROVE U \in T
    <2>1. AnyOf(U) \in U /\ AnyOf(U) \in S /\ Remaining(U) \in SUBSET S
      BY <1>2, RestSmaller
    <2>2. /\ Total(f)[U] = f[AnyOf(U)] + Total(f)[Remaining(U)]
          /\ Total(g)[U] = g[AnyOf(U)] + Total(g)[Remaining(U)]
      BY <1>2, TotalLaw
    <2>3. Total(f)[Remaining(U)] \in Int /\ f[AnyOf(U)] \in Int /\ g[AnyOf(U)] \in Int
          /\ g[t] \in Int /\ f[t] \in Int
      BY <2>1, TotalType
    <2>4. Total(g)[Remaining(U)] = Total(f)[Remaining(U)] + (IF t \in Remaining(U) THEN g[t] - f[t] ELSE 0)
      BY <1>2
    <2>5. CASE AnyOf(U) = t
      <3>1. t \in U /\ t \notin Remaining(U)
        BY <2>1, <2>5 DEF Remaining
      <3>2. QED  BY <2>2, <2>3, <2>4, <2>5, <3>1
    <2>6. CASE AnyOf(U) # t
      <3>1. (t \in U <=> t \in Remaining(U)) /\ g[AnyOf(U)] = f[AnyOf(U)]
        BY <2>1, <2>6 DEF Remaining
      <3>2. QED  BY <2>2, <2>3, <2>4, <3>1
    <2>7. QED  BY <2>5, <2>6
  <1> HIDE DEF T
  <1>3. \A U \in SUBSET S : U \in T
    BY <1>1, <1>2, SubsetInduction
  <1>4. QED  BY <1>3 DEF T

\* A sum of nothing but zeros is zero.
LEMMA TotalZero ==
  ASSUME NEW S, IsFiniteSet(S), NEW f \in [S -> Int], \A s \in S : f[s] = 0
  PROVE  \A U \in SUBSET S : Total(f)[U] = 0
  <1> DEFINE T == {U \in SUBSET S : Total(f)[U] = 0}
  <1>1. {} \in T
    BY TotalLaw
  <1>2. \A U \in SUBSET S : U # {} /\ Remaining(U) \in T => U \in T
    <2> TAKE U \in SUBSET S
    <2>1. U # {} => f[AnyOf(U)] = 0
      BY RestSmaller
    <2>2. QED  BY <2>1, TotalLaw
  <1> HIDE DEF T
  <1>3. \A U \in SUBSET S : U \in T
    BY <1>1, <1>2, SubsetInduction
  <1>4. QED  BY <1>3 DEF T

-----------------------------------------------------------------------------
(* What is locked, and what the positions have.                            *)

\* Whatever rounding does, no less is locked than the positions have as margin.
LockedCovers == locked >= FoldFunction(+, 0, [s \in Symbols |-> Margin(s)])

\* Whenever a close divides a margin by the quantity held, nothing is left over.
ClosesDivide == \A s \in Symbols : Reduced(s) => Remainder(s) = 0

\* The margins of positions p, and their sum.
Margins(p) == [s \in Symbols |-> IF p[s] = None THEN 0 ELSE p[s].margin]
Sum(p)     == Total(Margins(p))[Symbols]

\* Margins and their sum are amounts.
LEMMA SumType ==
  ASSUME IsFiniteSet(Symbols), NEW p \in [Symbols -> Position \cup {None}]
  PROVE  Margins(p) \in [Symbols -> Int] /\ Sum(p) \in Int
  <1>1. ASSUME NEW s \in Symbols  PROVE p[s] # None => p[s].margin \in Int
    BY DEF Position
  <1>2. Margins(p) \in [Symbols -> Int]
    BY <1>1 DEF Margins
  <1>3. QED  BY <1>2, TotalType DEF Sum

\* The properties are about this sum.
LEMMA SumIsFold ==
  FoldFunction(+, 0, [s \in Symbols |-> Margin(s)]) = Sum(positions)
  <1>1. [s \in Symbols |-> Margin(s)] = Margins(positions)
    BY DEF Margin, Margins
  <1>2. DOMAIN Margins(positions) = Symbols
    BY DEF Margins
  <1>3. FoldFunction(+, 0, Margins(positions)) = Total(Margins(positions))[DOMAIN Margins(positions)]
    BY FoldIsTotal
  <1>4. QED  BY <1>1, <1>2, <1>3, Zenon DEF Sum

\* What is locked beyond the margins grows by what a close leaves over, or the
\* money is new.
LEMMA SumMoves ==
  ASSUME IsFiniteSet(Symbols), TInv, AInv, [Next]_vars
  PROVE  /\ locked \in Int /\ Sum(positions) \in Int /\ locked' \in Int /\ Sum(positions') \in Int
         /\ \/ locked' = 0 /\ Sum(positions') = 0
            \/ locked' - Sum(positions') = locked - Sum(positions)
            \/ \E s \in Symbols :
                 /\ Reduced(s) /\ Remainder(s) \in Nat /\ [Next]_vars
                 /\ locked' - Sum(positions') = (locked - Sum(positions)) + Remainder(s)
  <1> DEFINE f == Margins(positions)
             g == Margins(positions')
  <1>1. TInv'
    BY StepTInv
  <1>2. /\ positions \in [Symbols -> Position \cup {None}] /\ locked \in Int
        /\ positions' \in [Symbols -> Position \cup {None}] /\ locked' \in Int
    BY <1>1 DEF TInv, TypeOK
  <1>3. /\ f \in [Symbols -> Int] /\ Sum(positions) \in Int
        /\ g \in [Symbols -> Int] /\ Sum(positions') \in Int
    BY <1>2, SumType
  <1>4. \A s \in Symbols : f[s] = Margin(s) /\ g[s] = Margin(s)'
    BY DEF Margins, Margin
  <1>5. Sum(positions) = Total(f)[Symbols] /\ Sum(positions') = Total(g)[Symbols]
    BY DEF Sum
  <1>6. [MarginMoves]_moneyVars
    BY StepMargin
  <1> HIDE DEF f, g
  <1>7. ASSUME locked' = locked, \A s \in Symbols : g[s] = f[s]
        PROVE  locked' - Sum(positions') = locked - Sum(positions)
    <2>1. g = f
      BY <1>3, <1>7
    <2>2. QED  BY <1>5, <1>7, <2>1
  <1>8. CASE locked' = locked /\ \A s \in Symbols : Margin(s)' = Margin(s)
    BY <1>2, <1>3, <1>4, <1>7, <1>8
  <1>9. CASE UNCHANGED moneyVars
    <2>1. locked' = locked /\ positions' = positions
      BY <1>9 DEF moneyVars
    <2>2. QED  BY <1>2, <1>3, <2>1
  <1>10. CASE locked' = 0 /\ \A s \in Symbols : Margin(s)' = 0
    <2>1. Total(g)[Symbols] = 0
      BY <1>3, <1>4, <1>10, TotalZero
    <2>2. QED  BY <1>2, <1>3, <1>5, <1>10, <2>1
  <1>11. ASSUME NEW s \in Symbols, \A t \in Symbols \ {s} : Margin(t)' = Margin(t),
                Drift(s) = 0 \/ (Reduced(s) /\ Drift(s) = Remainder(s) /\ Drift(s) \in Nat)
         PROVE  \/ locked' - Sum(positions') = locked - Sum(positions)
                \/ /\ Reduced(s) /\ Remainder(s) \in Nat
                   /\ locked' - Sum(positions') = (locked - Sum(positions)) + Remainder(s)
    <2>1. \A t \in Symbols \ {s} : g[t] = f[t]
      BY <1>4, <1>11
    <2>2. \A U \in SUBSET Symbols :
            Total(g)[U] = Total(f)[U] + (IF s \in U THEN g[s] - f[s] ELSE 0)
      BY <1>3, <2>1, TotalMoves
    <2>3. Sum(positions') = Sum(positions) + (g[s] - f[s])
      BY <1>5, <2>2
    <2>4. Drift(s) = (locked' - locked) - (g[s] - f[s]) /\ f[s] \in Int /\ g[s] \in Int
      BY <1>3, <1>4 DEF Drift
    <2>5. locked' - Sum(positions') = (locked - Sum(positions)) + Drift(s)
      BY <1>2, <1>3, <2>3, <2>4
    <2>6. QED  BY <1>2, <1>3, <1>11, <2>5
  <1>12. QED
    <2>1. CASE MarginMoves
      BY <1>2, <1>3, <1>8, <1>10, <1>11, <2>1 DEF MarginMoves
    <2>2. QED  BY <1>2, <1>3, <1>6, <1>9, <2>1

\* With no position nothing is locked, and the margins add up to nothing.
LEMMA InitSum ==
  ASSUME IsFiniteSet(Symbols), Init  PROVE locked = 0 /\ Sum(positions) = 0
  <1>1. positions \in [Symbols -> Position \cup {None}] /\ \A s \in Symbols : positions[s] = None
    BY DEF Init
  <1>2. Margins(positions) \in [Symbols -> Int]
    BY <1>1, SumType
  <1>3. \A s \in Symbols : Margins(positions)[s] = 0
    BY <1>1 DEF Margins
  <1>4. Sum(positions) = 0
    BY <1>2, <1>3, TotalZero DEF Sum
  <1>5. QED  BY <1>4 DEF Init

\* What is locked never falls below the margins of the positions: the rounding of
\* a close errs on the side of the lock, and no sequence of opening, adding and
\* closing, of concurrent callers or restarts, makes it release what a position
\* still needs (_apply_balance_change).
THEOREM LockedNeverShort ==
  ASSUME IsFiniteSet(Symbols)
  PROVE  Spec => []LockedCovers
  <1> DEFINE Covers == locked >= Sum(positions)
  <1>1. Init => TInv /\ AInv /\ Covers
    BY InitTInv, InitAInv, InitSum
  <1>2. TInv /\ AInv /\ Covers /\ [Next]_vars => (TInv /\ AInv /\ Covers)'
    <2> SUFFICES ASSUME TInv, AInv, Covers, [Next]_vars  PROVE locked' >= Sum(positions')
      BY StepTInv, StepAInv
    <2>1. /\ locked \in Int /\ Sum(positions) \in Int
          /\ locked' \in Int /\ Sum(positions') \in Int
      BY SumMoves
    <2>2. CASE locked' = 0 /\ Sum(positions') = 0
      BY <2>2
    <2>3. CASE locked' - Sum(positions') = locked - Sum(positions)
      BY <2>1, <2>3
    <2>4. ASSUME NEW n \in Nat, locked' - Sum(positions') = (locked - Sum(positions)) + n
          PROVE  locked' >= Sum(positions')
      BY <2>1, <2>4
    <2>5. QED  BY <2>2, <2>3, <2>4, SumMoves, Zenon
  <1>3. Covers => LockedCovers
    BY SumIsFold DEF LockedCovers
  <1> HIDE DEF Covers
  <1>4. QED  BY <1>1, <1>2, <1>3, PTL DEF Spec

\* A difference that stays zero.
LEMMA Level ==
  ASSUME NEW a \in Int, NEW b \in Int, NEW c \in Int, NEW d \in Int, a - b = 0, c - d = a - b
  PROVE  c = d
  OBVIOUS

\* Where no close leaves a remainder, what is locked is exactly the margin of the
\* open positions (_apply_balance_change).
THEOREM LockedBacksPositionsHolds ==
  ASSUME IsFiniteSet(Symbols)
  PROVE  Spec /\ [][ClosesDivide]_vars => []LockedBacksPositions
  <1> DEFINE Backed == locked = Sum(positions)
  <1>1. Init => TInv /\ AInv /\ Backed
    BY InitTInv, InitAInv, InitSum
  <1>2. TInv /\ AInv /\ Backed /\ [Next]_vars /\ [ClosesDivide]_vars => (TInv /\ AInv /\ Backed)'
    <2> SUFFICES ASSUME TInv, AInv, Backed, [Next]_vars, [ClosesDivide]_vars
                 PROVE  locked' = Sum(positions')
      BY StepTInv, StepAInv
    <2>1. CASE UNCHANGED vars
      BY <2>1 DEF vars, moneyVars
    <2>2. CASE ClosesDivide
      <3>1. /\ locked \in Int /\ Sum(positions) \in Int
            /\ locked' \in Int /\ Sum(positions') \in Int
            /\ locked - Sum(positions) = 0
        BY SumMoves
      <3>2. CASE locked' = 0 /\ Sum(positions') = 0
        BY <3>2
      <3>3. ASSUME locked' - Sum(positions') = locked - Sum(positions)
            PROVE  locked' = Sum(positions')
        BY <3>1, <3>3, Level
      <3>4. ASSUME NEW s \in Symbols, Reduced(s),
                   locked' - Sum(positions') = (locked - Sum(positions)) + Remainder(s)
            PROVE  locked' = Sum(positions')
        <4>1. Remainder(s) = 0
          BY <2>2, <3>4 DEF ClosesDivide
        <4>2. locked' - Sum(positions') = locked - Sum(positions)
          BY <3>1, <3>4, <4>1
        <4>3. QED  BY <3>1, <4>2, Level
      <3>5. QED  BY <3>2, <3>3, <3>4, SumMoves, Zenon
    <2>3. QED  BY <2>1, <2>2
  <1>3. Backed => LockedBacksPositions
    BY SumIsFold DEF LockedBacksPositions
  <1> HIDE DEF Backed
  <1>4. QED  BY <1>1, <1>2, <1>3, PTL DEF Spec
=============================================================================
