------------------------- MODULE SpendReport_proofs -------------------------
(* Theorems about SpendReport, for any keys, days, costs and top-ups: the  *)
(* figures of an answer agree although each is read on its own.            *)
EXTENDS SpendReport, Sums_proofs

-----------------------------------------------------------------------------
(* The inductive invariant. *)

Pcs == WindowNames \cup {"idle", "keys", "topups", "sum", "answer"}
Topups == [id : Nat, on : TopupDays, usd : Amounts]
Reports == [pc : Pcs, now : Nat, per : [WindowNames -> [Keys -> Nat]],
            keys : SUBSET Keys, topups : SUBSET Topups, spend : Nat,
            failed : SUBSET {"7d", "30d", "sum"}]

\* What a request has read by the time it is at pc.
WeekRead == report.pc \in {"30d", "keys", "topups", "sum", "answer"}
MonthRead == report.pc \in {"keys", "topups", "sum", "answer"}
TopupsRead == report.pc \in {"sum", "answer"}

(* The types, also of what the request has read. *)
ReportShape ==
  /\ TypeOK
  /\ report \in Reports
  /\ IsFiniteSet(topups) /\ IsFiniteSet(report.topups)
  /\ ~ TopupsRead => report.topups = {}

(* What has not been read yet is zero. *)
NotReadYet ==
  /\ report.pc = "24h" => \A w \in WindowNames, k \in Keys : report.per[w][k] = 0
  /\ report.pc \in WindowNames => \A k \in Keys : report.per["30d"][k] = 0

(* What was read of the shorter windows is still in the books when the     *)
(* longer ones are read, unless a total was lowered in between.            *)
WindowsWithin ==
  (report.pc \in {"7d", "30d"} /\ "windows" \notin lowered) =>
    \A w \in {"24h", "7d"}, k \in Keys : report.per[w][k] <= PerKeyTotals(Cutoff(w))[k]

(* So is what was read of the month when the spend is summed. *)
MonthWithin ==
  (report.pc \in {"keys", "topups", "sum"} /\ "balance" \notin lowered) =>
    \A k \in Keys : report.per["30d"][k] <= PerKeyTotals(Cutoff("30d"))[k]

(* The windows read so far are nested. *)
NestedSoFar ==
  "windows" \notin lowered =>
    /\ WeekRead /\ "7d" \notin report.failed =>
         \A k \in Keys : report.per["24h"][k] <= report.per["7d"][k]
    /\ MonthRead /\ "30d" \notin report.failed =>
         \A k \in Keys : report.per["7d"][k] <= report.per["30d"][k]

(* The least stored since a day is no more than what is stored now. *)
LeastStored ==
  report.pc \notin {"idle", "answer"} => \A d \in TopupDays : least[d] <= Stored(d)

(* The spend taken off is no less than the least. *)
SpendCoversLeast ==
  Answered({"sum"}) /\ report.topups # {} => least[Baseline] <= report.spend

ReportInv ==
  /\ ReportShape /\ NotReadYet
  /\ WindowsWithin /\ MonthWithin /\ NestedSoFar /\ LeastStored
  /\ BalanceCoversMonth /\ SpendCoversLeast

-----------------------------------------------------------------------------
(* The totals of the books b. *)

BookValues == [Keys -> [Days -> Nat]]

Totals(b, since) == [k \in Keys |-> SumOver(b[k], {d \in Days : d >= since})]
GrandTotal(b, since) == SumOver(Totals(b, since), Keys)

LEMMA TotalsOfDaily ==
  ASSUME NEW since
  PROVE  /\ PerKeyTotals(since) = Totals(daily, since)
         /\ Stored(since) = GrandTotal(daily, since)
         /\ SumSpendSince(since) = GrandTotal(daily, since)
BY DEF PerKeyTotals, SumSpendSince, Stored, Totals, GrandTotal

LEMMA DaysFinite == ASSUME NEW S \in SUBSET Days PROVE IsFiniteSet(S)
<1>1. 1 \in Int /\ MaxDay \in Int
  BY ReportAssumption DEF ReportAssumption
<1>2. IsFiniteSet(Days)
  BY <1>1, FS_Interval DEF Days
<1> QED
  BY <1>2, FiniteSubset

LEMMA TotalsType ==
  ASSUME NEW b \in BookValues, NEW since
  PROVE  Totals(b, since) \in [Keys -> Nat] /\ GrandTotal(b, since) \in Nat
<1> DEFINE S == {d \in Days : d >= since}
<1>1. ASSUME NEW k \in Keys PROVE SumOver(b[k], S) \in Nat
  <2>1. IsFiniteSet(S) /\ Counts(b[k], S)
    BY DaysFinite DEF Counts, BookValues
  <2> HIDE DEF S
  <2> QED
    BY <2>1, SumIsNat
<1>2. Totals(b, since) \in [Keys -> Nat]
  BY <1>1 DEF Totals
<1>3. IsFiniteSet(Keys) /\ Counts(Totals(b, since), Keys)
  BY <1>2, ReportAssumption DEF ReportAssumption, Counts
<1> QED
  BY <1>2, <1>3, SumIsNat DEF GrandTotal

(* Totals of more days, of books that have grown, are no smaller. *)
LEMMA TotalsGrow ==
  ASSUME NEW b \in BookValues, NEW c \in BookValues,
         \A k \in Keys, d \in Days : b[k][d] <= c[k][d],
         NEW since \in Int, NEW earlier \in Int, earlier <= since
  PROVE  /\ \A k \in Keys : Totals(b, since)[k] <= Totals(c, earlier)[k]
         /\ GrandTotal(b, since) <= GrandTotal(c, earlier)
<1> DEFINE S == {d \in Days : d >= since}
           T == {d \in Days : d >= earlier}
<1>1. ASSUME NEW k \in Keys PROVE SumOver(b[k], S) <= SumOver(c[k], T)
  <2>1. S \in SUBSET T /\ S \in SUBSET Days /\ T \in SUBSET Days
    BY DEF Days
  <2>2. /\ IsFiniteSet(S) /\ IsFiniteSet(T)
        /\ Counts(b[k], S) /\ Counts(c[k], S) /\ Counts(c[k], T)
        /\ \A d \in S : b[k][d] <= c[k][d]
    BY <2>1, DaysFinite DEF Counts, BookValues
  <2> HIDE DEF S, T
  <2>3. SumOver(b[k], S) <= SumOver(c[k], S) /\ SumOver(c[k], S) <= SumOver(c[k], T)
    BY <2>1, <2>2, SumGrows, SumOfPart
  <2>4. SumOver(b[k], S) \in Nat /\ SumOver(c[k], S) \in Nat /\ SumOver(c[k], T) \in Nat
    BY <2>2, SumIsNat
  <2> QED
    BY <2>3, <2>4
<1>2. \A k \in Keys : Totals(b, since)[k] <= Totals(c, earlier)[k]
  BY <1>1 DEF Totals
<1>3. /\ IsFiniteSet(Keys)
      /\ Counts(Totals(b, since), Keys) /\ Counts(Totals(c, earlier), Keys)
  BY TotalsType, ReportAssumption DEF ReportAssumption, Counts
<1> QED
  BY <1>2, <1>3, SumGrows DEF GrandTotal

LEMMA DailyType == ASSUME TypeOK PROVE daily \in BookValues
<1>1. 0 .. MaxCost \subseteq Nat
  OBVIOUS
<1> QED
  BY <1>1 DEF TypeOK, BookValues

-----------------------------------------------------------------------------
(* What a request reads, in which order, and from which day on. *)

LEMMA ReadOrder ==
  ReadAfter("24h") = "7d" /\ ReadAfter("7d") = "30d" /\ ReadAfter("30d") = "keys"
<1>1. 1 .. 3 = {1, 2, 3}
  OBVIOUS
<1>2. WindowOrder[1] = "24h" /\ WindowOrder[2] = "7d" /\ WindowOrder[3] = "30d"
  BY DEF WindowOrder
<1>3. ASSUME NEW w, NEW j \in 1 .. 3, WindowOrder[j] = w
      PROVE  (CHOOSE i \in 1 .. 3 : WindowOrder[i] = w) = j
  BY <1>1, <1>2, <1>3
<1> QED
  BY <1>1, <1>2, <1>3 DEF ReadAfter

LEMMA Cutoffs ==
  ASSUME report \in Reports
  PROVE  /\ \A w \in WindowNames : Cutoff(w) \in Int
         /\ Cutoff("7d") <= Cutoff("24h") /\ Cutoff("30d") <= Cutoff("7d")
BY ReportAssumption DEF ReportAssumption, Reports, Cutoff, DaysBack, WindowNames

(* The least of a set of natural numbers is one of it. *)
LEMMA LeastOf ==
  ASSUME NEW S, S \subseteq Nat, S # {}
  PROVE  Min(S) \in S /\ \A n \in S : Min(S) <= n
<1> DEFINE R == OpToRel(<, Nat)
<1>1. IsWellFoundedOn(R, Nat)
  BY NatLessThanWellFounded
<1>2. PICK m \in S : \A n \in S : ~ (<<n, m>> \in R)
  <2> HIDE DEF R
  <2> QED
    BY <1>1, WFMin
<1>3. ASSUME NEW n \in S PROVE m <= n
  <2>1. n \in Nat /\ m \in Nat
    BY <1>3
  <2>2. ~ (<<n, m>> \in R)
    BY <1>2, <1>3
  <2>3. ~ (n < m)
    BY <2>1, <2>2 DEF OpToRel
  <2> QED
    BY <2>1, <2>3
<1> QED
  BY <1>3 DEF Min

LEMMA BaselineIsADate ==
  ASSUME report \in Reports, report.topups # {}
  PROVE  Baseline \in TopupDays /\ Baseline \in Days
<1> DEFINE S == {t.on : t \in report.topups}
<1>1. S \subseteq TopupDays /\ S \subseteq Days /\ S # {}
  <2>1. report.topups \subseteq Topups
    BY DEF Reports
  <2>2. \A t \in report.topups : t.on \in TopupDays /\ t.on \in Days
    BY <2>1, ReportAssumption DEF ReportAssumption, Topups, Days
  <2> QED
    BY <2>2
<1>2. Days \subseteq Nat
  BY DEF Days
<1> QED
  BY <1>1, <1>2, LeastOf DEF Baseline

-----------------------------------------------------------------------------
(* Types. *)

LEMMA NotAskedType == NotAsked \in Reports /\ NotAsked.pc = "idle"
                      /\ NotAsked.keys = {} /\ NotAsked.topups = {}
BY DEF NotAsked, Reports, Pcs, NoSpend, WindowNames

LEMMA ShapeInit == Init => ReportShape
<1> SUFFICES ASSUME Init PROVE ReportShape
  OBVIOUS
<1>1. TypeOK
  <2>1. today \in Days
    BY ReportAssumption DEF ReportAssumption, Init, Days
  <2>2. daily \in [Keys -> [Days -> 0 .. MaxCost]] /\ lastId \in 0 .. MaxTopups
    BY ReportAssumption DEF ReportAssumption, Init
  <2>3. least \in [TopupDays -> Nat] /\ lowered \subseteq {"windows", "balance"}
    BY DEF Init, NoHistory
  <2> QED
    BY <2>1, <2>2, <2>3, NotAskedType DEF Init, TypeOK
<1>2. IsFiniteSet({})
  BY FS_EmptySet
<1> QED
  BY <1>1, <1>2, NotAskedType DEF Init, ReportShape

(* The steps that go on beside a request. *)
LEMMA ShapeBeside ==
  ASSUME ReportShape, UNCHANGED <<report, least>>,
         \/ NextDay
         \/ \E k \in Keys : SaveKeyMeta(k)
         \/ \E d \in TopupDays, usd \in Amounts : AddTopup(d, usd)
         \/ \E id \in 1 .. MaxTopups : DeleteTopup(id)
  PROVE  ReportShape'
<1> USE DEF ReportShape
<1>1. CASE NextDay
  <2>1. today' \in Days
    BY <1>1, ReportAssumption DEF ReportAssumption, NextDay, TypeOK, Days
  <2> QED
    BY <1>1, <2>1 DEF NextDay, TypeOK, TopupsRead
<1>2. ASSUME NEW k \in Keys, SaveKeyMeta(k) PROVE ReportShape'
  BY <1>2 DEF SaveKeyMeta, TypeOK, TopupsRead
<1>3. ASSUME NEW d \in TopupDays, NEW usd \in Amounts, AddTopup(d, usd) PROVE ReportShape'
  <2>1. lastId' \in 0 .. MaxTopups /\ lastId' = lastId + 1 /\ lastId \in Nat
    BY <1>3, ReportAssumption DEF ReportAssumption, AddTopup, TypeOK
  <2>2. topups' \subseteq [id : 1 .. lastId', on : TopupDays, usd : Amounts]
    <3>1. \A t \in topups : t \in [id : 1 .. lastId', on : TopupDays, usd : Amounts]
      BY <2>1 DEF TypeOK
    <3>2. [id |-> lastId', on |-> d, usd |-> usd]
             \in [id : 1 .. lastId', on : TopupDays, usd : Amounts]
      BY <2>1
    <3> QED
      BY <1>3, <3>1, <3>2 DEF AddTopup
  <2>3. IsFiniteSet(topups')
    BY <1>3, FS_AddElement DEF AddTopup
  <2> QED
    BY <1>3, <2>1, <2>2, <2>3 DEF AddTopup, TypeOK, TopupsRead
<1>4. ASSUME NEW id \in 1 .. MaxTopups, DeleteTopup(id) PROVE ReportShape'
  <2>1. topups' \in SUBSET topups
    BY <1>4 DEF DeleteTopup
  <2>2. IsFiniteSet(topups')
    BY <2>1, FiniteSubset
  <2> QED
    BY <1>4, <2>1, <2>2 DEF DeleteTopup, TypeOK, TopupsRead
<1> QED
  BY <1>1, <1>2, <1>3, <1>4

LEMMA ShapeSave ==
  ASSUME ReportShape, NEW k \in Keys, NEW d \in Days, NEW usd \in 0 .. MaxCost,
         SaveDailySpend(k, d, usd)
  PROVE  ReportShape'
<1>1. daily' \in [Keys -> [Days -> 0 .. MaxCost]]
  BY DEF SaveDailySpend, ReportShape, TypeOK
<1>2. lowered' \subseteq {"windows", "balance"}
  BY DEF SaveDailySpend, Between, ReportShape, TypeOK
<1>3. least' \in [TopupDays -> Nat]
  <2>1. 0 .. MaxCost \subseteq Nat
    OBVIOUS
  <2>2. daily' \in BookValues
    BY <1>1, <2>1 DEF BookValues
  <2>3. ASSUME NEW e \in TopupDays PROVE Stored(e)' \in Nat
    <3>1. Stored(e)' = GrandTotal(daily', e)
      BY DEF Stored, PerKeyTotals, GrandTotal, Totals
    <3> QED
      BY <2>2, <3>1, TotalsType
  <2>4. ASSUME NEW e \in TopupDays PROVE Lesser(least[e], Stored(e)') \in Nat
    BY <2>3 DEF Lesser, ReportShape, TypeOK
  <2> QED
    BY <2>4 DEF SaveDailySpend, ReportShape, TypeOK
<1> QED
  BY <1>1, <1>2, <1>3 DEF SaveDailySpend, ReportShape, TypeOK, TopupsRead

(* The steps of a request leave the books and the top-ups alone. *)
LEMMA ShapeRead ==
  ASSUME ReportShape, UNCHANGED <<today, daily, metas, topups, lastId>>,
         least' \in [TopupDays -> Nat], lowered' \subseteq {"windows", "balance"},
         report' \in Reports, report'.keys \subseteq metas, IsFiniteSet(report'.topups),
         report'.pc \notin {"sum", "answer"} => report'.topups = {}
  PROVE  ReportShape'
<1>1. report'.pc \in Pcs
  BY DEF Reports
<1> QED
  BY <1>1 DEF ReportShape, TypeOK, TopupsRead, Pcs

LEMMA ShapeAsk == ReportShape /\ Ask => ReportShape'
<1> SUFFICES ASSUME ReportShape, Ask PROVE ReportShape'
  OBVIOUS
<1>1. report' = [NotAsked EXCEPT !.pc = "24h", !.now = today]
  BY DEF Ask, WindowOrder
<1>2. today \in Nat
  BY DEF ReportShape, TypeOK, Days
<1>3. report' \in Reports /\ report'.keys = {} /\ report'.topups = {} /\ report'.pc = "24h"
  BY <1>1, <1>2, NotAskedType DEF Reports, Pcs, WindowNames
<1>4. least' \in [TopupDays -> Nat]
  <2>1. least' = [d \in TopupDays |-> GrandTotal(daily, d)]
    BY TotalsOfDaily DEF Ask
  <2> QED
    BY <2>1, DailyType, TotalsType DEF ReportShape
<1>5. UNCHANGED <<today, daily, metas, topups, lastId>> /\ lowered' = {}
  BY DEF Ask
<1> QED
  BY <1>3, <1>4, <1>5, FS_EmptySet, ShapeRead

(* What the reads make of the request. *)
LEMMA WindowStep ==
  ASSUME ReportShape, NEW w \in WindowNames, ReadWindow(w)
  PROVE  /\ report.pc = w /\ report'.pc = ReadAfter(w) /\ report' \in Reports
         /\ report'.now = report.now /\ report'.failed = report.failed
         /\ report'.keys = report.keys /\ report'.topups = report.topups
         /\ report'.per[w] = Totals(daily, Cutoff(w))
         /\ \A v \in WindowNames \ {w} : report'.per[v] = report.per[v]
         /\ UNCHANGED <<today, daily, metas, topups, lastId, least, lowered>>
<1> DEFINE read == Totals(daily, Cutoff(w))
<1>1. report' = [report EXCEPT !.pc = ReadAfter(w), !.per[w] = read]
  BY TotalsOfDaily DEF ReadWindow
<1>2. read \in [Keys -> Nat] /\ report \in Reports
  BY DailyType, TotalsType DEF ReportShape
<1>3. ReadAfter(w) \in Pcs
  BY ReadOrder DEF Pcs, WindowNames
<1> HIDE DEF read
<1>4. report' \in Reports
  BY <1>1, <1>2, <1>3 DEF Reports
<1>5. /\ report'.pc = ReadAfter(w) /\ report'.per = [report.per EXCEPT ![w] = read]
      /\ report'.now = report.now /\ report'.failed = report.failed
      /\ report'.keys = report.keys /\ report'.topups = report.topups
  BY <1>1, <1>2 DEF Reports
<1>6. report.per \in [WindowNames -> [Keys -> Nat]]
  BY <1>2 DEF Reports
<1> QED
  BY <1>4, <1>5, <1>6 DEF ReadWindow, read

LEMMA FailStep ==
  ASSUME ReportShape, NEW pc \in Pcs, NEW next \in Pcs, ReadFails(pc, next)
  PROVE  /\ report.pc = pc /\ report'.pc = next /\ report' \in Reports
         /\ report'.now = report.now /\ report'.per = report.per
         /\ report'.keys = report.keys /\ report'.topups = report.topups
         /\ report'.spend = report.spend
         /\ report'.failed = report.failed \cup ({pc} \cap {"7d", "30d", "sum"})
         /\ UNCHANGED <<today, daily, metas, topups, lastId, least, lowered>>
BY DEF ReadFails, ReportShape, Reports

LEMMA KeysStep ==
  ASSUME ReportShape, ListKeyMeta
  PROVE  /\ report.pc = "keys" /\ report'.pc = "topups" /\ report' \in Reports
         /\ report'.now = report.now /\ report'.per = report.per
         /\ report'.keys = metas /\ report'.topups = report.topups
         /\ report'.failed = report.failed
         /\ UNCHANGED <<today, daily, metas, topups, lastId, least, lowered>>
BY DEF ListKeyMeta, ReportShape, TypeOK, Reports, Pcs

LEMMA TopupsStep ==
  ASSUME ReportShape, ListTopups
  PROVE  /\ report.pc = "topups" /\ report'.pc \in {"sum", "answer"} /\ report' \in Reports
         /\ report'.pc = "answer" => report'.topups = {}
         /\ report'.now = report.now /\ report'.per = report.per
         /\ report'.keys = report.keys /\ report'.topups = topups
         /\ report'.failed = report.failed
         /\ UNCHANGED <<today, daily, metas, topups, lastId, least, lowered>>
<1>1. topups \subseteq Topups
  <2>1. \A t \in topups : t \in [id : 1 .. lastId, on : TopupDays, usd : Amounts]
    BY DEF ReportShape, TypeOK
  <2> QED
    BY <2>1 DEF Topups
<1> QED
  BY <1>1 DEF ListTopups, ReportShape, Reports, Pcs

LEMMA SumStep ==
  ASSUME ReportShape, ReadSpendSinceBaseline
  PROVE  /\ report.pc = "sum" /\ report'.pc = "answer" /\ report' \in Reports
         /\ report'.spend = GrandTotal(daily, Baseline)
         /\ report'.now = report.now /\ report'.per = report.per
         /\ report'.keys = report.keys /\ report'.topups = report.topups
         /\ report'.failed = report.failed
         /\ UNCHANGED <<today, daily, metas, topups, lastId, least, lowered>>
<1>1. report' = [report EXCEPT !.pc = "answer", !.spend = GrandTotal(daily, Baseline)]
  BY TotalsOfDaily DEF ReadSpendSinceBaseline
<1>2. GrandTotal(daily, Baseline) \in Nat /\ report \in Reports
  BY DailyType, TotalsType DEF ReportShape
<1> QED
  BY <1>1, <1>2 DEF ReadSpendSinceBaseline, Reports, Pcs

\* A read that fails, with the one that follows.
SomeReadFails ==
  \/ \E w \in WindowNames : ReadFails(w, ReadAfter(w))
  \/ ReadFails("keys", "topups") \/ ReadFails("topups", "answer") \/ ReadFails("sum", "answer")

LEMMA ShapeReads ==
  ASSUME ReportShape,
         \/ \E w \in WindowNames : ReadWindow(w)
         \/ SomeReadFails \/ ListKeyMeta \/ ListTopups \/ ReadSpendSinceBaseline
  PROVE  ReportShape'
<1>1. /\ least \in [TopupDays -> Nat] /\ lowered \subseteq {"windows", "balance"}
      /\ report.keys \subseteq metas
  BY DEF ReportShape, TypeOK
<1>2. /\ IsFiniteSet(topups) /\ IsFiniteSet(report.topups)
      /\ report.pc \notin {"sum", "answer"} => report.topups = {}
  BY DEF ReportShape, TopupsRead
<1>3. ASSUME NEW w \in WindowNames, ReadWindow(w) PROVE ReportShape'
  BY <1>1, <1>2, <1>3, WindowStep, ShapeRead DEF WindowNames
<1>4. ASSUME NEW pc \in Pcs, NEW next \in Pcs, ReadFails(pc, next),
             next \notin {"sum", "answer"} => pc \notin {"sum", "answer"}
      PROVE  ReportShape'
  BY <1>1, <1>2, <1>4, FailStep, ShapeRead
<1>5. CASE SomeReadFails
  BY <1>4, <1>5, ReadOrder DEF SomeReadFails, Pcs, WindowNames
<1>6. CASE ListKeyMeta
  BY <1>1, <1>2, <1>6, KeysStep, ShapeRead
<1>7. CASE ListTopups
  BY <1>1, <1>2, <1>7, TopupsStep, ShapeRead
<1>8. CASE ReadSpendSinceBaseline
  BY <1>1, <1>2, <1>8, SumStep, ShapeRead
<1> QED
  BY <1>3, <1>5, <1>6, <1>7, <1>8

-----------------------------------------------------------------------------
(* The invariant holds at first and between requests. *)

LEMMA IdleInv ==
  ASSUME ReportShape, report.pc = "idle"
  PROVE  ReportInv
BY DEF ReportInv, NotReadYet, WindowsWithin, MonthWithin, NestedSoFar, LeastStored,
       BalanceCoversMonth, SpendCoversLeast, Answered, WeekRead, MonthRead, WindowNames

LEMMA ReportInvInit == Init => ReportInv
BY ShapeInit, IdleInv, NotAskedType DEF Init

LEMMA RespondInv == ReportInv /\ Respond => ReportInv'
<1> SUFFICES ASSUME ReportInv, Respond PROVE ReportInv'
  OBVIOUS
<1>1. least' \in [TopupDays -> Nat] /\ lowered' \subseteq {"windows", "balance"}
  BY DEF Respond, NoHistory
<1>2. ReportShape'
  BY <1>1, NotAskedType, FS_EmptySet, ShapeRead DEF Respond, ReportInv
<1>3. (report.pc = "idle")'
  BY NotAskedType DEF Respond
<1> QED
  BY <1>2, <1>3, IdleInv, PTL

(* It is about the books, the request and the history only. *)
LEMMA BesideInv ==
  ASSUME ReportInv, ReportShape', UNCHANGED <<daily, report, least, lowered>>
  PROVE  ReportInv'
<1>1. NotReadYet'
  BY DEF ReportInv, NotReadYet
<1>2. WindowsWithin' /\ MonthWithin'
  BY DEF ReportInv, WindowsWithin, MonthWithin, PerKeyTotals, Cutoff
<1>3. NestedSoFar'
  BY DEF ReportInv, NestedSoFar, WeekRead, MonthRead
<1>4. LeastStored'
  BY DEF ReportInv, LeastStored, Stored, PerKeyTotals
<1>5. BalanceCoversMonth' /\ SpendCoversLeast'
  BY DEF ReportInv, BalanceCoversMonth, SpendCoversLeast, Answered, Baseline, Cutoff, Total
<1> QED
  BY <1>1, <1>2, <1>3, <1>4, <1>5 DEF ReportInv

(* What is in the books of a window is still there when they have grown. *)
LEMMA StillWithin ==
  ASSUME daily \in BookValues, daily' \in BookValues, UNCHANGED report, report \in Reports,
         \A j \in Keys, e \in Days : daily[j][e] <= daily'[j][e],
         NEW w \in WindowNames, NEW k \in Keys, report.per[w][k] <= PerKeyTotals(Cutoff(w))[k]
  PROVE  report'.per[w][k] <= PerKeyTotals(Cutoff(w))[k]'
<1>1. /\ PerKeyTotals(Cutoff(w))' = Totals(daily', Cutoff(w))
      /\ PerKeyTotals(Cutoff(w)) = Totals(daily, Cutoff(w))
  BY DEF PerKeyTotals, Totals, Cutoff
<1>2. Cutoff(w) \in Int /\ Cutoff(w) <= Cutoff(w) /\ report.per[w][k] \in Nat
  BY Cutoffs DEF Reports
<1>3. Totals(daily, Cutoff(w))[k] <= Totals(daily', Cutoff(w))[k]
  BY <1>2, TotalsGrow
<1>4. Totals(daily, Cutoff(w))[k] \in Nat /\ Totals(daily', Cutoff(w))[k] \in Nat
  BY TotalsType
<1> QED
  BY <1>1, <1>2, <1>3, <1>4

(* A stored total changes. *)
LEMMA SaveInv ==
  ASSUME ReportInv, NEW k \in Keys, NEW d \in Days, NEW usd \in 0 .. MaxCost,
         SaveDailySpend(k, d, usd)
  PROVE  ReportInv'
<1>1. ReportShape /\ ReportShape' /\ daily \in BookValues /\ daily' \in BookValues
  <2>1. ReportShape'
    BY ShapeSave DEF ReportInv
  <2>2. TypeOK /\ TypeOK'
    BY <2>1 DEF ReportInv, ReportShape
  <2>3. 0 .. MaxCost \subseteq Nat
    OBVIOUS
  <2>4. daily' \in BookValues
    BY <2>2, <2>3 DEF TypeOK, BookValues
  <2> QED
    BY <2>1, <2>2, <2>4, DailyType DEF ReportInv
<1>2. UNCHANGED report /\ lowered \subseteq lowered' /\ report \in Reports
  BY <1>1 DEF SaveDailySpend, ReportShape
<1>3. ASSUME ~ (usd < daily[k][d])
      PROVE  \A j \in Keys, e \in Days : daily[j][e] <= daily'[j][e]
  <2>1. \A j \in Keys, e \in Days : daily'[j][e] = IF j = k /\ e = d THEN usd ELSE daily[j][e]
    BY <1>1 DEF SaveDailySpend, BookValues
  <2>2. usd \in Nat /\ \A j \in Keys, e \in Days : daily[j][e] \in Nat
    BY <1>1 DEF BookValues
  <2> QED
    BY <1>3, <2>1, <2>2
<1>4. WindowsWithin'
  <2> SUFFICES ASSUME report.pc \in {"7d", "30d"}, "windows" \notin lowered',
                      NEW w \in {"24h", "7d"}, NEW j \in Keys
               PROVE  report'.per[w][j] <= PerKeyTotals(Cutoff(w))[j]'
    BY <1>2 DEF WindowsWithin
  <2>1. ~ (usd < daily[k][d])
    BY DEF SaveDailySpend, Between
  <2>2. report.per[w][j] <= PerKeyTotals(Cutoff(w))[j]
    BY <1>2 DEF ReportInv, WindowsWithin
  <2>3. w \in WindowNames
    BY DEF WindowNames
  <2> QED
    BY <1>1, <1>2, <1>3, <2>1, <2>2, <2>3, StillWithin
<1>5. MonthWithin'
  <2> SUFFICES ASSUME report.pc \in {"keys", "topups", "sum"}, "balance" \notin lowered',
                      NEW j \in Keys
               PROVE  report'.per["30d"][j] <= PerKeyTotals(Cutoff("30d"))[j]'
    BY <1>2 DEF MonthWithin
  <2>1. ~ (usd < daily[k][d])
    BY DEF SaveDailySpend, Between
  <2>2. report.per["30d"][j] <= PerKeyTotals(Cutoff("30d"))[j]
    BY <1>2 DEF ReportInv, MonthWithin
  <2>3. "30d" \in WindowNames
    BY DEF WindowNames
  <2> QED
    BY <1>1, <1>2, <1>3, <2>1, <2>2, <2>3, StillWithin
<1>6. LeastStored'
  <2> SUFFICES ASSUME report.pc \notin {"idle", "answer"}, NEW e \in TopupDays
               PROVE  least'[e] <= Stored(e)'
    BY <1>2 DEF LeastStored
  <2>1. Stored(e)' \in Nat
    <3>1. Stored(e)' = GrandTotal(daily', e)
      BY DEF Stored, PerKeyTotals, GrandTotal, Totals
    <3> QED
      BY <1>1, <3>1, TotalsType
  <2>2. least'[e] = Lesser(least[e], Stored(e)') /\ least[e] \in Nat
    BY <1>1 DEF SaveDailySpend, ReportShape, TypeOK
  <2> QED
    BY <2>1, <2>2 DEF Lesser
<1>7. NotReadYet' /\ NestedSoFar' /\ BalanceCoversMonth'
  BY <1>2
  DEF ReportInv, NotReadYet, NestedSoFar, BalanceCoversMonth, WeekRead, MonthRead,
      Answered, Baseline, Cutoff, Total
<1>8. SpendCoversLeast'
  <2>1. report.pc = "answer" => least' = least
    BY DEF SaveDailySpend
  <2> QED
    BY <1>2, <2>1 DEF ReportInv, SpendCoversLeast, Answered, Baseline
<1> QED
  BY <1>1, <1>4, <1>5, <1>6, <1>7, <1>8 DEF ReportInv

-----------------------------------------------------------------------------
(* The request reads. *)

LEMMA StillLeast ==
  ASSUME ReportInv, UNCHANGED <<daily, least>>, report.pc # "idle", report.pc # "answer"
  PROVE  LeastStored'
BY DEF ReportInv, LeastStored, Stored, PerKeyTotals

(* No answer yet, or one without top-ups, or with a sum that failed. *)
LEMMA NoBalance ==
  ASSUME report.pc # "answer" \/ report.topups = {} \/ "sum" \in report.failed
  PROVE  BalanceCoversMonth /\ SpendCoversLeast
BY DEF BalanceCoversMonth, SpendCoversLeast, Answered

LEMMA WindowInv ==
  ASSUME ReportInv, NEW w \in WindowNames, ReadWindow(w)
  PROVE  ReportInv'
<1>1. ReportShape /\ ReportShape'
  BY ShapeReads DEF ReportInv
<1>2. /\ report.pc = w /\ report'.pc = ReadAfter(w)
      /\ report'.now = report.now /\ report'.failed = report.failed
      /\ report'.per[w] = Totals(daily, Cutoff(w))
      /\ \A v \in WindowNames \ {w} : report'.per[v] = report.per[v]
      /\ UNCHANGED <<today, daily, metas, topups, lastId, least, lowered>>
  BY <1>1, WindowStep
<1>3. LeastStored'
  BY <1>2, StillLeast DEF WindowNames
<1>4. report.per \in [WindowNames -> [Keys -> Nat]]
      /\ daily \in BookValues /\ report \in Reports
  BY <1>1, DailyType DEF ReportShape, Reports
<1>5. \A v \in WindowNames, k \in Keys : Totals(daily, Cutoff(v))[k] \in Nat
  BY <1>4, TotalsType
<1>6. \A v \in WindowNames : PerKeyTotals(Cutoff(v))' = Totals(daily, Cutoff(v))
  BY <1>2 DEF PerKeyTotals, Totals, Cutoff
<1>7. ASSUME NEW k \in Keys
      PROVE  /\ Totals(daily, Cutoff("24h"))[k] <= Totals(daily, Cutoff("7d"))[k]
             /\ Totals(daily, Cutoff("7d"))[k] <= Totals(daily, Cutoff("30d"))[k]
  <2>1. \A j \in Keys, d \in Days : daily[j][d] <= daily[j][d]
    BY <1>4 DEF BookValues
  <2>2. \A v \in WindowNames : Cutoff(v) \in Int
    BY <1>4, Cutoffs
  <2> QED
    BY <1>4, <2>1, <2>2, Cutoffs, TotalsGrow DEF WindowNames
<1>8. NotReadYet'
  BY <1>2, ReadOrder DEF ReportInv, NotReadYet, WindowNames
<1>9. ASSUME w = "24h" \/ w = "7d", "windows" \notin lowered,
             NEW v \in {"24h", "7d"}, NEW k \in Keys
      PROVE  report'.per[v][k] <= Totals(daily, Cutoff(v))[k]
  <2>1. v \in WindowNames
    BY DEF WindowNames
  <2>2. CASE v = w
    BY <1>2, <1>5, <2>1, <2>2
  <2>3. CASE v # w /\ w = "24h"
    BY <1>2, <1>5, <2>1, <2>3 DEF ReportInv, NotReadYet
  <2>4. CASE v # w /\ w = "7d"
    BY <1>2, <1>9, <2>1, <2>4, TotalsOfDaily DEF ReportInv, WindowsWithin
  <2> QED
    BY <1>9, <2>2, <2>3, <2>4
<1>10. WindowsWithin'
  <2> SUFFICES ASSUME report'.pc \in {"7d", "30d"}, "windows" \notin lowered,
                      NEW v \in {"24h", "7d"}, NEW k \in Keys
               PROVE  report'.per[v][k] <= Totals(daily, Cutoff(v))[k]
    BY <1>2, <1>6 DEF WindowsWithin, WindowNames
  <2>1. w = "24h" \/ w = "7d"
    BY <1>2, ReadOrder DEF WindowNames
  <2> QED
    BY <1>9, <2>1
<1>11. MonthWithin'
  <2>1. report'.pc \in {"keys", "topups", "sum"} => w = "30d"
    BY <1>2, ReadOrder DEF WindowNames
  <2>2. w = "30d" => \A k \in Keys : report'.per["30d"][k] <= Totals(daily, Cutoff("30d"))[k]
    BY <1>2, <1>5
  <2> QED
    BY <1>6, <2>1, <2>2 DEF MonthWithin, WindowNames
<1>12. NestedSoFar'
  <2>1. CASE w = "24h"
    BY <1>2, <2>1, ReadOrder DEF NestedSoFar, WeekRead, MonthRead
  <2>2. CASE w = "7d"
    <3>1. ASSUME "windows" \notin lowered, NEW k \in Keys
          PROVE  report'.per["24h"][k] <= report'.per["7d"][k]
      <4>1. report.per["24h"][k] <= Totals(daily, Cutoff("24h"))[k]
        BY <1>2, <2>2, <3>1, TotalsOfDaily DEF ReportInv, WindowsWithin
      <4>2. report.per["24h"][k] \in Nat
        BY <1>4 DEF WindowNames
      <4>3. report'.per["24h"] = report.per["24h"]
        BY <1>2, <2>2 DEF WindowNames
      <4> QED
        BY <1>2, <1>5, <1>7, <2>2, <4>1, <4>2, <4>3 DEF WindowNames
    <3>2. ~ MonthRead'
      BY <1>2, <2>2, ReadOrder DEF MonthRead
    <3> QED
      BY <1>2, <3>1, <3>2 DEF NestedSoFar
  <2>3. CASE w = "30d"
    <3>1. ASSUME "windows" \notin lowered, NEW k \in Keys
          PROVE  report'.per["7d"][k] <= report'.per["30d"][k]
      <4>1. report.per["7d"][k] <= Totals(daily, Cutoff("7d"))[k]
        BY <1>2, <2>3, <3>1, TotalsOfDaily DEF ReportInv, WindowsWithin
      <4>2. report.per["7d"][k] \in Nat
        BY <1>4 DEF WindowNames
      <4>3. report'.per["7d"] = report.per["7d"]
        BY <1>2, <2>3 DEF WindowNames
      <4> QED
        BY <1>2, <1>5, <1>7, <2>3, <4>1, <4>2, <4>3 DEF WindowNames
    <3>2. WeekRead
      BY <1>2, <2>3 DEF WeekRead
    <3>3. report'.per["24h"] = report.per["24h"] /\ report'.per["7d"] = report.per["7d"]
      BY <1>2, <2>3 DEF WindowNames
    <3> QED
      BY <1>2, <3>1, <3>2, <3>3 DEF ReportInv, NestedSoFar
  <2> QED
    BY <2>1, <2>2, <2>3 DEF WindowNames
<1>13. BalanceCoversMonth' /\ SpendCoversLeast'
  <2>1. report'.pc # "answer"
    BY <1>2, ReadOrder DEF WindowNames
  <2>2. (report.pc # "answer" \/ report.topups = {} \/ "sum" \in report.failed)'
    BY <2>1
  <2> QED
    BY <2>2, NoBalance, PTL
<1> QED
  BY <1>1, <1>3, <1>8, <1>10, <1>11, <1>12, <1>13 DEF ReportInv

(* The reads that leave the windows alone: nesting is kept if a window     *)
(* that counts as read was read, or has failed.                            *)
LEMMA OtherReadInv ==
  ASSUME ReportInv, ReportShape', report.pc # "idle", report.pc # "answer",
         report'.now = report.now, report'.per = report.per,
         report.failed \subseteq report'.failed,
         UNCHANGED <<daily, least, lowered>>,
         report'.pc # "24h",
         report'.pc \in WindowNames => report.pc \in WindowNames,
         report'.pc \in {"7d", "30d"} => report.pc \in {"24h", "7d", "30d"},
         WeekRead' => WeekRead \/ "7d" \in report'.failed,
         MonthRead' => MonthRead \/ "30d" \in report'.failed
  PROVE  NotReadYet' /\ WindowsWithin' /\ MonthWithin' /\ NestedSoFar' /\ LeastStored'
<1>1. NotReadYet' /\ LeastStored'
  BY StillLeast DEF ReportInv, NotReadYet
<1>2. NestedSoFar'
  BY DEF ReportInv, NestedSoFar
<1>3. /\ daily \in BookValues /\ report.per \in [WindowNames -> [Keys -> Nat]]
      /\ report.pc \in Pcs
      /\ \A v \in WindowNames : PerKeyTotals(Cutoff(v))' = Totals(daily, Cutoff(v))
  BY DailyType DEF ReportInv, ReportShape, Reports, PerKeyTotals, Totals, Cutoff
<1>4. \A v \in WindowNames, k \in Keys : Totals(daily, Cutoff(v))[k] \in Nat
  BY <1>3, TotalsType
<1>5. WindowsWithin'
  <2> SUFFICES ASSUME report'.pc \in {"7d", "30d"}, "windows" \notin lowered,
                      NEW v \in {"24h", "7d"}, NEW k \in Keys
               PROVE  report.per[v][k] <= Totals(daily, Cutoff(v))[k]
    BY <1>3 DEF WindowsWithin, WindowNames
  <2>1. CASE report.pc = "24h"
    BY <1>4, <2>1 DEF ReportInv, NotReadYet, WindowNames
  <2>2. CASE report.pc \in {"7d", "30d"}
    BY <2>2, TotalsOfDaily DEF ReportInv, WindowsWithin
  <2> QED
    BY <2>1, <2>2
<1>6. MonthWithin'
  <2> SUFFICES ASSUME report'.pc \in {"keys", "topups", "sum"}, "balance" \notin lowered,
                      NEW k \in Keys
               PROVE  report.per["30d"][k] <= Totals(daily, Cutoff("30d"))[k]
    BY <1>3 DEF MonthWithin, WindowNames
  <2>1. CASE report.pc \in WindowNames
    BY <1>4, <2>1 DEF ReportInv, NotReadYet, WindowNames
  <2>2. CASE report.pc \in {"keys", "topups", "sum"}
    BY <2>2, TotalsOfDaily DEF ReportInv, MonthWithin
  <2> QED
    BY <1>3, <2>1, <2>2 DEF Pcs
<1> QED
  BY <1>1, <1>2, <1>5, <1>6

LEMMA FailInv ==
  ASSUME ReportInv, SomeReadFails
  PROVE  ReportInv'
<1>1. ReportShape /\ ReportShape'
  BY ShapeReads DEF ReportInv
<1>2. PICK pc \in Pcs, next \in Pcs :
        /\ ReadFails(pc, next) /\ next # "24h" /\ pc # "idle" /\ pc # "answer"
        /\ next \in WindowNames => pc \in WindowNames
        /\ next \in {"30d", "keys", "topups", "sum", "answer"}
             => pc \in {"7d", "30d", "keys", "topups", "sum"}
        /\ next \in {"keys", "topups", "sum", "answer"}
             => pc \in {"30d", "keys", "topups", "sum"}
        /\ next = "answer" => pc \in {"topups", "sum"}
  BY ReadOrder DEF SomeReadFails, Pcs, WindowNames
<1>3. /\ report.pc = pc /\ report'.pc = next
      /\ report'.now = report.now /\ report'.per = report.per
      /\ report'.topups = report.topups
      /\ report'.failed = report.failed \cup ({pc} \cap {"7d", "30d", "sum"})
      /\ UNCHANGED <<today, daily, metas, topups, lastId, least, lowered>>
  BY <1>1, <1>2, FailStep
<1>4. NotReadYet' /\ WindowsWithin' /\ MonthWithin' /\ NestedSoFar' /\ LeastStored'
  <2>1. WeekRead' => WeekRead \/ "7d" \in report'.failed
    BY <1>2, <1>3 DEF WeekRead
  <2>2. MonthRead' => MonthRead \/ "30d" \in report'.failed
    BY <1>2, <1>3 DEF MonthRead
  <2> QED
    BY <1>1, <1>2, <1>3, <2>1, <2>2, OtherReadInv DEF WindowNames
<1>5. BalanceCoversMonth' /\ SpendCoversLeast'
  <2>1. (report.pc # "answer" \/ report.topups = {} \/ "sum" \in report.failed)'
    BY <1>1, <1>2, <1>3 DEF ReportShape, TopupsRead
  <2> QED
    BY <2>1, NoBalance, PTL
<1> QED
  BY <1>1, <1>4, <1>5 DEF ReportInv

LEMMA ListInv ==
  ASSUME ReportInv, ListKeyMeta \/ ListTopups
  PROVE  ReportInv'
<1>1. ReportShape /\ ReportShape'
  BY ShapeReads DEF ReportInv
<1>2. /\ report.pc \in {"keys", "topups"} /\ report'.pc \in {"topups", "sum", "answer"}
      /\ report'.pc = "answer" => report'.topups = {}
      /\ report'.now = report.now /\ report'.per = report.per
      /\ report'.failed = report.failed
      /\ UNCHANGED <<today, daily, metas, topups, lastId, least, lowered>>
  BY <1>1, KeysStep, TopupsStep
<1>3. NotReadYet' /\ WindowsWithin' /\ MonthWithin' /\ NestedSoFar' /\ LeastStored'
  BY <1>1, <1>2, OtherReadInv DEF WeekRead, MonthRead, WindowNames
<1>4. BalanceCoversMonth' /\ SpendCoversLeast'
  <2>1. (report.pc # "answer" \/ report.topups = {} \/ "sum" \in report.failed)'
    BY <1>2
  <2> QED
    BY <2>1, NoBalance, PTL
<1> QED
  BY <1>1, <1>3, <1>4 DEF ReportInv

LEMMA AskInv ==
  ASSUME ReportInv, Ask
  PROVE  ReportInv'
<1>1. ReportShape /\ ReportShape' /\ daily \in BookValues
  BY ShapeAsk, DailyType DEF ReportInv, ReportShape
<1>2. report'.pc = "24h" /\ \A w \in WindowNames, k \in Keys : report'.per[w][k] = 0
  BY DEF Ask, NotAsked, NoSpend, WindowOrder
<1>3. NotReadYet' /\ WindowsWithin' /\ MonthWithin'
  BY <1>2 DEF NotReadYet, WindowsWithin, MonthWithin, WindowNames
<1>4. LeastStored'
  <2> SUFFICES ASSUME NEW d \in TopupDays PROVE least'[d] <= Stored(d)'
    BY DEF LeastStored
  <2>1. Stored(d)' = GrandTotal(daily, d) /\ least'[d] = GrandTotal(daily, d)
    BY TotalsOfDaily DEF Stored, PerKeyTotals, GrandTotal, Totals, Ask
  <2> QED
    BY <1>1, <2>1, TotalsType
<1>5. NestedSoFar' /\ BalanceCoversMonth' /\ SpendCoversLeast'
  BY <1>2 DEF NestedSoFar, WeekRead, MonthRead, BalanceCoversMonth, SpendCoversLeast, Answered
<1> QED
  BY <1>1, <1>3, <1>4, <1>5 DEF ReportInv

LEMMA SumInv ==
  ASSUME ReportInv, ReadSpendSinceBaseline
  PROVE  ReportInv'
<1>1. ReportShape /\ ReportShape' /\ daily \in BookValues
  BY ShapeReads, DailyType DEF ReportInv, ReportShape
<1>2. /\ report.pc = "sum" /\ report'.pc = "answer"
      /\ report'.spend = GrandTotal(daily, Baseline)
      /\ report'.now = report.now /\ report'.per = report.per
      /\ report'.keys = report.keys /\ report'.topups = report.topups
      /\ report'.failed = report.failed
      /\ UNCHANGED <<today, daily, metas, topups, lastId, least, lowered>>
  BY <1>1, SumStep
<1>3. NotReadYet' /\ WindowsWithin' /\ MonthWithin' /\ NestedSoFar' /\ LeastStored'
  BY <1>1, <1>2, OtherReadInv DEF WeekRead, MonthRead, WindowNames
<1>4. /\ report \in Reports /\ IsFiniteSet(Keys) /\ report.keys \in SUBSET Keys
      /\ report.per["30d"] \in [Keys -> Nat] /\ Cutoff("30d") \in Int
  BY <1>1, Cutoffs, ReportAssumption
  DEF ReportAssumption, ReportShape, Reports, WindowNames
<1>5. BalanceCoversMonth'
  <2> SUFFICES ASSUME "balance" \notin lowered, report.topups # {}, Baseline <= Cutoff("30d")
               PROVE  SumOver(report.per["30d"], report.keys) <= GrandTotal(daily, Baseline)
    <3>1. Total("30d")' = SumOver(report.per["30d"], report.keys)
      BY <1>2 DEF Total
    <3>2. Total("30d")' \in Nat /\ GrandTotal(daily, Baseline) \in Nat
      <4>1. IsFiniteSet(report.keys) /\ Counts(report.per["30d"], report.keys)
        BY <1>4, FiniteSubset DEF Counts
      <4> QED
        BY <1>1, <3>1, <4>1, SumIsNat, TotalsType
    <3>3. Baseline' = Baseline /\ Cutoff("30d")' = Cutoff("30d")
      BY <1>2 DEF Baseline, Cutoff
    <3> QED
      BY <1>2, <3>1, <3>2, <3>3 DEF BalanceCoversMonth, Answered
  <2> DEFINE month == report.per["30d"]
             books == Totals(daily, Cutoff("30d"))
  <2>1. Counts(month, Keys) /\ Counts(books, Keys)
    BY <1>1, <1>4, TotalsType DEF Counts
  <2>2. \A k \in Keys : month[k] <= books[k]
    BY <1>2, TotalsOfDaily DEF ReportInv, MonthWithin
  <2>3. SumOver(month, report.keys) <= SumOver(month, Keys)
    BY <1>4, <2>1, SumOfPart
  <2>4. SumOver(month, Keys) <= SumOver(books, Keys)
    BY <1>4, <2>1, <2>2, SumGrows
  <2>5. SumOver(books, Keys) <= GrandTotal(daily, Baseline)
    <3>1. \A j \in Keys, d \in Days : daily[j][d] <= daily[j][d]
      BY <1>1 DEF BookValues
    <3>2. Baseline \in Int
      BY <1>4, BaselineIsADate DEF Days
    <3>3. GrandTotal(daily, Cutoff("30d")) <= GrandTotal(daily, Baseline)
      BY <1>1, <1>4, <3>1, <3>2, TotalsGrow
    <3> QED
      BY <3>3 DEF GrandTotal
  <2>6. /\ SumOver(month, report.keys) \in Nat /\ SumOver(month, Keys) \in Nat
        /\ SumOver(books, Keys) \in Nat /\ GrandTotal(daily, Baseline) \in Nat
    <3>1. IsFiniteSet(report.keys) /\ Counts(month, report.keys)
      BY <1>4, FiniteSubset DEF Counts
    <3> HIDE DEF month, books
    <3> QED
      BY <1>1, <1>4, <2>1, <3>1, SumIsNat, TotalsType
  <2> QED
    BY <2>3, <2>4, <2>5, <2>6
<1>6. SpendCoversLeast'
  <2> SUFFICES ASSUME report.topups # {}
               PROVE  least[Baseline] <= GrandTotal(daily, Baseline)
    <3>1. Baseline' = Baseline
      BY <1>2 DEF Baseline
    <3> QED
      BY <1>2, <3>1 DEF SpendCoversLeast, Answered
  <2>1. Baseline \in TopupDays
    BY <1>4, BaselineIsADate
  <2> QED
    BY <1>2, <2>1, TotalsOfDaily DEF ReportInv, LeastStored
<1> QED
  BY <1>1, <1>3, <1>5, <1>6 DEF ReportInv

-----------------------------------------------------------------------------
(* The invariant of the specification, and what it says of an answer. *)

LEMMA ReportInvNext == ReportInv /\ [Next]_vars => ReportInv'
<1> SUFFICES ASSUME ReportInv, [Next]_vars PROVE ReportInv'
  OBVIOUS
<1>1. ReportShape
  BY DEF ReportInv
<1>2. CASE \/ NextDay
           \/ \E k \in Keys : SaveKeyMeta(k)
           \/ \E d \in TopupDays, usd \in Amounts : AddTopup(d, usd)
           \/ \E id \in 1 .. MaxTopups : DeleteTopup(id)
  <2>1. UNCHANGED <<daily, report, least, lowered>>
    BY <1>2 DEF NextDay, SaveKeyMeta, AddTopup, DeleteTopup
  <2> QED
    BY <1>1, <1>2, <2>1, ShapeBeside, BesideInv
<1>3. ASSUME NEW k \in Keys, NEW d \in Days, NEW usd \in 0 .. MaxCost,
             SaveDailySpend(k, d, usd)
      PROVE  ReportInv'
  BY <1>3, SaveInv
<1>4. CASE Ask
  BY <1>4, AskInv
<1>5. ASSUME NEW w \in WindowNames, ReadWindow(w) PROVE ReportInv'
  BY <1>5, WindowInv
<1>6. CASE SomeReadFails
  BY <1>6, FailInv
<1>7. CASE ListKeyMeta \/ ListTopups
  BY <1>7, ListInv
<1>8. CASE ReadSpendSinceBaseline
  BY <1>8, SumInv
<1>9. CASE Respond
  BY <1>9, RespondInv
<1>10. CASE UNCHANGED vars
  <2>1. ReportShape'
    BY <1>1, <1>10 DEF vars, ReportShape, TypeOK, TopupsRead
  <2> QED
    BY <1>10, <2>1, BesideInv DEF vars
<1> QED
  BY <1>2, <1>3, <1>4, <1>5, <1>6, <1>7, <1>8, <1>9, <1>10 DEF Next, SomeReadFails

LEMMA ReportInvHolds == Spec => []ReportInv
BY ReportInvInit, ReportInvNext, PTL DEF Spec

(* The state and the request keep their shape for any keys, days, costs    *)
(* and top-ups: TypeOK.                                                    *)
THEOREM ReportTypeCorrect == Spec => []TypeOK
<1>1. ReportInv => TypeOK
  BY DEF ReportInv, ReportShape
<1> QED
  BY <1>1, ReportInvHolds, PTL

(* Of an account and of each key, the 24h figure is within the 7d figure   *)
(* and that within the 30d figure, whatever is added between the reads,    *)
(* unless a total was lowered between them, as an older refresh that       *)
(* overlaps a newer one does: WindowsNested.                               *)
THEOREM WindowsStayNested == Spec => []WindowsNested
<1>1. ReportInv => WindowsNested
  <2> SUFFICES ASSUME ReportInv, Answered({"7d", "30d"}), "windows" \notin lowered
               PROVE  /\ Total("24h") <= Total("7d") /\ Total("7d") <= Total("30d")
                      /\ \A k \in report.keys : report.per["24h"][k] <= report.per["7d"][k]
                                                /\ report.per["7d"][k] <= report.per["30d"][k]
    BY DEF WindowsNested
  <2>1. \A k \in Keys : report.per["24h"][k] <= report.per["7d"][k]
                        /\ report.per["7d"][k] <= report.per["30d"][k]
    BY DEF ReportInv, NestedSoFar, Answered, WeekRead, MonthRead
  <2>2. report.keys \in SUBSET Keys /\ report.per \in [WindowNames -> [Keys -> Nat]]
    BY DEF ReportInv, ReportShape, Reports
  <2>3. IsFiniteSet(report.keys)
    BY <2>2, FiniteSubset, ReportAssumption DEF ReportAssumption
  <2>4. \A w \in WindowNames : Counts(report.per[w], report.keys)
    BY <2>2 DEF Counts
  <2>5. \A k \in report.keys : report.per["24h"][k] <= report.per["7d"][k]
                               /\ report.per["7d"][k] <= report.per["30d"][k]
    BY <2>1, <2>2
  <2>6. Total("24h") <= Total("7d") /\ Total("7d") <= Total("30d")
    BY <2>3, <2>4, <2>5, SumGrows DEF Total, WindowNames
  <2> QED
    BY <2>5, <2>6
<1> QED
  BY <1>1, ReportInvHolds, PTL

(* A baseline older than the month takes off at least the spend shown for  *)
(* the month, unless a total was lowered between the two reads:            *)
(* BalanceCoversMonth.                                                     *)
THEOREM BalanceCoversTheMonth == Spec => []BalanceCoversMonth
<1>1. ReportInv => BalanceCoversMonth
  BY DEF ReportInv
<1> QED
  BY <1>1, ReportInvHolds, PTL

(* The spend taken off is no less than the least that was stored since the *)
(* baseline at some moment of the request, for keys with and without a     *)
(* spend_keys row, totals lowered or not: BalanceNotOverstated.            *)
THEOREM BalanceNeverOverstated == Spec => []BalanceNotOverstated
<1>1. ReportInv => BalanceNotOverstated
  <2> SUFFICES ASSUME ReportInv, Answered({"sum"}), report.topups # {}
               PROVE  Remaining <= TopupsTotal - least[Baseline]
    BY DEF BalanceNotOverstated
  <2>1. least[Baseline] <= report.spend
    BY DEF ReportInv, SpendCoversLeast
  <2>2. report \in Reports /\ report.spend \in Nat /\ IsFiniteSet(report.topups)
        /\ least \in [TopupDays -> Nat]
    BY DEF ReportInv, ReportShape, TypeOK, Reports
  <2>3. least[Baseline] \in Nat
    BY <2>2, BaselineIsADate
  <2>4. TopupsTotal \in Nat
    <3>1. Counts([t \in report.topups |-> t.usd], report.topups)
      BY <2>2, ReportAssumption DEF ReportAssumption, Counts, Reports, Topups
    <3> QED
      BY <2>2, <3>1, SumIsNat DEF TopupsTotal
  <2> QED
    BY <2>1, <2>2, <2>3, <2>4 DEF Remaining
<1> QED
  BY <1>1, ReportInvHolds, PTL
=============================================================================
