---------------------------- MODULE SpendReport ----------------------------
(***************************************************************************)
(* GET /spend/keys: assembleProvider of server.go answers with six reads   *)
(* of spend.go that no transaction holds together, while refreshes store   *)
(* rows, top-ups come and go and midnight passes.                          *)
(*                                                                         *)
(* Dollars are small numbers; names, notes and the time of day of a top-up *)
(* are left out (the spend it is set against is counted by whole days).    *)
(***************************************************************************)
EXTENDS Integers, Sequences, FiniteSets, Sums

CONSTANTS
  Keys,       \* API keys
  MaxDay,     \* bound on the days
  Week,       \* days back of the "7d" figure
  Month,      \* days back of the "30d" figure
  MaxCost,    \* bound on a day's cost
  Amounts,    \* amounts a top-up may have
  TopupDays,  \* days it may be dated
  MaxTopups,  \* bound on the top-ups ever recorded
  ReadsFail   \* whether a read of the store may fail

ASSUME ReportAssumption ==
  /\ IsFiniteSet(Keys)
  /\ MaxDay \in Nat /\ Week \in Nat /\ Month \in Nat /\ MaxCost \in Nat /\ MaxTopups \in Nat
  /\ 1 <= Week /\ Week <= Month /\ Month < MaxDay
  /\ Amounts \subseteq Nat \ {0} /\ TopupDays \subseteq 1 .. MaxDay /\ ReadsFail \in BOOLEAN

Days == 1 .. MaxDay

VARIABLES
  today,    \* the UTC day
  daily,    \* spend_daily: the total per key and day, 0 without a row
  metas,    \* spend_keys: the keys with a row
  topups,   \* spend_topups
  lastId,   \* AUTOINCREMENT of spend_topups
  report,   \* the request: where assembleProvider is and what it has read
  least,    \* history: the least stored since each day since the request came
  lowered   \* history: what a total replaced by a smaller one came in between of

vars == <<today, daily, metas, topups, lastId, report, least, lowered>>

WindowNames == {"24h", "7d", "30d"}
NoSpend == [k \in Keys |-> 0]
NoHistory == [d \in TopupDays |-> 0]

NotAsked == [pc |-> "idle", now |-> 0, per |-> [w \in WindowNames |-> NoSpend],
             keys |-> {}, topups |-> {}, spend |-> 0, failed |-> {}]

Init ==
  /\ today = 1
  /\ daily = [k \in Keys |-> [d \in Days |-> 0]]
  /\ metas = {} /\ topups = {} /\ lastId = 0
  /\ report = NotAsked
  /\ least = NoHistory /\ lowered = {}

-----------------------------------------------------------------------------
(* date >= since, per key. *)
PerKeyTotals(since) == [k \in Keys |-> SumOver(daily[k], {d \in Days : d >= since})]

\* Everything stored since a day.
Stored(since) == SumOver(PerKeyTotals(since), Keys)

-----------------------------------------------------------------------------
(* What goes on while a request is answered. *)

NextDay ==
  /\ today < MaxDay /\ today' = today + 1
  /\ UNCHANGED <<daily, metas, topups, lastId, report, least, lowered>>

SaveKeyMeta(k) ==
  /\ metas' = metas \cup {k}
  /\ UNCHANGED <<today, daily, topups, lastId, report, least, lowered>>

(* Mutant: an upsert that adds. *)
SaveDailySpend_Adds(k, d, usd) ==
  /\ d < today
  /\ daily' = [daily EXCEPT ![k][d] = @ + usd]
  /\ UNCHANGED <<today, metas, topups, lastId, report, least, lowered>>

\* Of which reads a total is lowered in between: of those of the windows,
\* or of the month's and that of the spend the balance is counted from.
Between ==
  CASE report.pc \in {"7d", "30d"} -> {"windows"}
    [] report.pc \in {"keys", "topups", "sum"} -> {"balance"}
    [] OTHER -> {}

Lesser(m, n) == IF m <= n THEN m ELSE n

(* The upsert of a refresh.  Two refreshes may overlap, so the total it    *)
(* brings may be older and smaller than the one stored: 0 too, of a model  *)
(* without a known price.                                                  *)
SaveDailySpend(k, d, usd) ==
  /\ d < today
  /\ daily' = [daily EXCEPT ![k][d] = usd]
  /\ lowered' = IF usd < daily[k][d] THEN lowered \cup Between ELSE lowered
  /\ least' = IF report.pc \in {"idle", "answer"} THEN least
              ELSE [e \in TopupDays |-> Lesser(least[e], Stored(e)')]
  /\ UNCHANGED <<today, metas, topups, lastId, report>>

AddTopup(d, usd) ==
  /\ lastId < MaxTopups /\ lastId' = lastId + 1
  /\ topups' = topups \cup {[id |-> lastId', on |-> d, usd |-> usd]}
  /\ UNCHANGED <<today, daily, metas, report, least, lowered>>

DeleteTopup(id) ==
  /\ topups' = {t \in topups : t.id # id} /\ topups' # topups
  /\ UNCHANGED <<today, daily, metas, lastId, report, least, lowered>>

-----------------------------------------------------------------------------
(* assembleProvider. *)

(* Cutoffs are counted from the moment the request starts. *)
DaysBack(w) == CASE w = "24h" -> 1 [] w = "7d" -> Week [] w = "30d" -> Month

Cutoff(w) == report.now - DaysBack(w)

(* Mutants: the baseline's own day is left out; only keys that have a      *)
(* spend_keys row are counted.                                             *)
SumSpendSince_AfterBaseline(since) == Stored(since + 1)
SumSpendSince_ListedKeys(since) == SumOver(PerKeyTotals(since), metas)

(* date >= since over every key, with or without a spend_keys row. *)
SumSpendSince(since) == Stored(since)

(* Mutant: the longest window is read first. *)
WindowOrder_LongestFirst == <<"30d", "7d", "24h">>

WindowOrder == <<"24h", "7d", "30d">>

ReadAfter(w) ==
  LET i == CHOOSE i \in 1 .. 3 : WindowOrder[i] = w
  IN  IF i = 3 THEN "keys" ELSE WindowOrder[i + 1]

Ask ==
  /\ report.pc = "idle"
  /\ report' = [NotAsked EXCEPT !.pc = WindowOrder[1], !.now = today]
  /\ least' = [d \in TopupDays |-> Stored(d)] /\ lowered' = {}
  /\ UNCHANGED <<today, daily, metas, topups, lastId>>

(* A failed read is logged; the request goes on with what the store gave,  *)
(* which is nothing.  The properties hold whichever of the other reads     *)
(* fail, so only a failure of these three is remembered.                   *)
ReadFails(pc, next) ==
  /\ ReadsFail /\ report.pc = pc
  /\ report' = [report EXCEPT !.pc = next, !.failed = @ \cup ({pc} \cap {"7d", "30d", "sum"})]
  /\ UNCHANGED <<today, daily, metas, topups, lastId, least, lowered>>

ReadWindow(w) ==
  /\ report.pc = w
  /\ report' = [report EXCEPT !.pc = ReadAfter(w), !.per[w] = PerKeyTotals(Cutoff(w))]
  /\ UNCHANGED <<today, daily, metas, topups, lastId, least, lowered>>

ListKeyMeta ==
  /\ report.pc = "keys"
  /\ report' = [report EXCEPT !.pc = "topups", !.keys = metas]
  /\ UNCHANGED <<today, daily, metas, topups, lastId, least, lowered>>

(* Without top-ups there is no balance and nothing more is read. *)
ListTopups ==
  /\ report.pc = "topups"
  /\ report' = [report EXCEPT !.pc = IF topups = {} THEN "answer" ELSE "sum",
                              !.topups = topups]
  /\ UNCHANGED <<today, daily, metas, topups, lastId, least, lowered>>

(* The first of ORDER BY occurred_at ASC. *)
Baseline == Min({t.on : t \in report.topups})

ReadSpendSinceBaseline ==
  /\ report.pc = "sum"
  /\ report' = [report EXCEPT !.pc = "answer", !.spend = SumSpendSince(Baseline)]
  /\ UNCHANGED <<today, daily, metas, topups, lastId, least, lowered>>

Respond ==
  /\ report.pc = "answer"
  /\ report' = NotAsked /\ lowered' = {} /\ least' = NoHistory
  /\ UNCHANGED <<today, daily, metas, topups, lastId>>

-----------------------------------------------------------------------------
(* The figures of the answer. *)

Total(w) == SumOver(report.per[w], report.keys)
TopupsTotal == SumOver([t \in report.topups |-> t.usd], report.topups)
Remaining == TopupsTotal - report.spend

Next ==
  \/ NextDay
  \/ \E k \in Keys : \/ SaveKeyMeta(k)
                    \/ \E d \in Days, usd \in 0 .. MaxCost : SaveDailySpend(k, d, usd)
  \/ \E d \in TopupDays, usd \in Amounts : AddTopup(d, usd)
  \/ \E id \in 1 .. MaxTopups : DeleteTopup(id)
  \/ Ask
  \/ \E w \in WindowNames : ReadWindow(w) \/ ReadFails(w, ReadAfter(w))
  \/ ListKeyMeta \/ ReadFails("keys", "topups")
  \/ ListTopups \/ ReadFails("topups", "answer")
  \/ ReadSpendSinceBaseline \/ ReadFails("sum", "answer")
  \/ Respond

Spec == Init /\ [][Next]_vars

-----------------------------------------------------------------------------
\* An answer whose reads in the set given succeeded.
Answered(reads) == report.pc = "answer" /\ reads \cap report.failed = {}

TypeOK ==
  /\ today \in Days /\ lowered \subseteq {"windows", "balance"}
  /\ daily \in [Keys -> [Days -> 0 .. MaxCost]]
  /\ least \in [TopupDays -> Nat]
  /\ metas \subseteq Keys /\ lastId \in 0 .. MaxTopups
  /\ topups \subseteq [id : 1 .. lastId, on : TopupDays, usd : Amounts]
  /\ report.pc \in WindowNames \cup {"idle", "keys", "topups", "sum", "answer"}
  /\ report.keys \subseteq metas

(* The three figures of an account and of each key are nested, 24h within  *)
(* 7d within 30d, although each is read on its own while totals grow: this *)
(* is why the shortest window is read first.  A failed read of the 24h     *)
(* figure, which shows as zero, does no harm to it.  It is not claimed of  *)
(* an answer between whose reads of the windows a total was lowered (an    *)
(* older refresh that overlaps a newer one does that): there the figures   *)
(* can disagree.                                                           *)
WindowsNested ==
  (Answered({"7d", "30d"}) /\ "windows" \notin lowered) =>
    /\ Total("24h") <= Total("7d") /\ Total("7d") <= Total("30d")
    /\ \A k \in report.keys : report.per["24h"][k] <= report.per["7d"][k]
                              /\ report.per["7d"][k] <= report.per["30d"][k]

(* When the earliest top-up is older than the month, the spend taken off   *)
(* the balance covers at least all the spend the same answer shows for the *)
(* month ("remaining since baseline works even when the baseline is older  *)
(* than 30d").  It is not claimed of an answer between whose reads of the  *)
(* month and of that spend a total was lowered.                            *)
BalanceCoversMonth ==
  (Answered({"sum"}) /\ "balance" \notin lowered
   /\ report.topups # {} /\ Baseline <= Cutoff("30d")) =>
    report.spend >= Total("30d")

(* The balance is never rosier than the books: whatever is stored, raised  *)
(* or lowered, meanwhile, the spend taken off the top-ups, of keys that    *)
(* are listed or not, is no less than the least that was in the books for  *)
(* the days since the earliest top-up from the request's start to that     *)
(* read.                                                                   *)
BalanceNotOverstated ==
  (Answered({"sum"}) /\ report.topups # {}) =>
    Remaining <= TopupsTotal - least[Baseline]
=============================================================================
