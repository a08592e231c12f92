---------------------------- MODULE UsagePeriods ----------------------------
(***************************************************************************)
(* GET /api/usage: handleUsage reads the token database, which other       *)
(* processes write with Track, once for each of three periods, in the      *)
(* random order of a Go map and with "now" read anew by each query.        *)
(*                                                                         *)
(* Track dates a call by the local day, the queries count back from the    *)
(* UTC day.  A call stands for the tokens it adds; agent and model are     *)
(* further columns of a group and left out.                                *)
(***************************************************************************)
EXTENDS Integers, FiniteSets

CONSTANTS
  DayLength,  \* clock units in a day
  Offsets,    \* what local time may be ahead of UTC, in clock units
  Week,       \* days back of "week"
  Month,      \* days back of "month"
  MaxClock,   \* bound on the clock
  MaxCalls    \* bound on the calls

ASSUME PeriodsAssumption ==
  /\ DayLength \in Nat \ {0} /\ MaxClock \in Nat /\ MaxCalls \in Nat
  /\ Offsets \subseteq -DayLength .. DayLength
  /\ Week \in Nat /\ Month \in Nat /\ 1 < Week /\ Week < Month

Periods == {"day", "week", "month"}
Days(period) == CASE period = "day" -> 1 [] period = "week" -> Week [] period = "month" -> Month

Null == "null"
Orchestrators == {Null, "inber", "other"}

VARIABLES
  clock,   \* in UTC
  offset,  \* local time minus UTC
  calls,   \* what the usage table adds up, with the time of each call (history)
  report   \* the request: what is read, and the calls there when it came (history)

vars == <<clock, offset, calls, report>>

NotAsked == [pc |-> "idle", at |-> 0, known |-> {}, periods |-> [p \in Periods |-> {}], left |-> {}]

Init ==
  /\ clock = 0 /\ offset \in Offsets
  /\ calls = {}
  /\ report = NotAsked

Day(t) == t \div DayLength

Advance ==
  /\ clock < MaxClock /\ clock' = clock + 1
  /\ UNCHANGED <<offset, calls, report>>

(* Track names "inber" where the caller names no orchestrator; an older    *)
(* table may hold NULL.                                                    *)
Track(orchestrator) ==
  /\ Cardinality(calls) < MaxCalls
  /\ calls' = calls \cup {[id |-> Cardinality(calls) + 1, at |-> clock,
                           date |-> Day(clock + offset), orchestrator |-> orchestrator]}
  /\ UNCHANGED <<clock, offset, report>>

-----------------------------------------------------------------------------
(* handleUsage. *)

Ask ==
  /\ report.pc = "idle"
  /\ report' = [NotAsked EXCEPT !.pc = "reading", !.at = clock, !.known = calls, !.left = Periods]
  /\ UNCHANGED <<clock, offset, calls>>

(* Mutant: NULL is handed on. *)
Coalesce_Null(orchestrator) == orchestrator

Coalesce(orchestrator) == IF orchestrator = Null THEN "inber" ELSE orchestrator

(* Mutants: the calls of the cutoff day are left out; the period is meant  *)
(* as whole days including today, and counts one day too many.             *)
InPeriod_AfterCutoff(c, days) == c.date > Day(clock) - days
InPeriod_DayMore(c, days) == c.date >= Day(clock) - days - 1

(* date >= date('now', '-N days') *)
InPeriod(c, days) == c.date >= Day(clock) - days

(* Mutant: GROUP BY the raw column. *)
GroupBy_RawColumn(cs) ==
  {[orchestrator |-> Coalesce(o), calls |-> {c \in cs : c.orchestrator = o}] :
     o \in {c.orchestrator : c \in cs}}

GroupBy(cs) ==
  {[orchestrator |-> o, calls |-> {c \in cs : Coalesce(c.orchestrator) = o}] :
     o \in {Coalesce(c.orchestrator) : c \in cs}}

(* Mutant: each period is read from what the one before it left over.      *)
ReadPeriod_OwnDaysOnly(period) ==
  /\ report.pc = "reading" /\ period \in report.left
  /\ report' = [report EXCEPT
       !.periods[period] = GroupBy({c \in calls : /\ InPeriod(c, Days(period))
                                                  /\ period # "day" => ~InPeriod(c, 1)}),
       !.left = @ \ {period}, !.pc = IF report.left = {period} THEN "answer" ELSE "reading"]
  /\ UNCHANGED <<clock, offset, calls>>

ReadPeriod(period) ==
  /\ report.pc = "reading" /\ period \in report.left
  /\ report' = [report EXCEPT
       !.periods[period] = GroupBy({c \in calls : InPeriod(c, Days(period))}),
       !.left = @ \ {period}, !.pc = IF report.left = {period} THEN "answer" ELSE "reading"]
  /\ UNCHANGED <<clock, offset, calls>>

(* Any error answers 500 at once: no part of an answer is ever shown. *)
ReadFails ==
  /\ report.pc = "reading"
  /\ report' = NotAsked
  /\ UNCHANGED <<clock, offset, calls>>

Respond ==
  /\ report.pc = "answer"
  /\ report' = NotAsked
  /\ UNCHANGED <<clock, offset, calls>>

Next ==
  \/ Advance
  \/ \E o \in Orchestrators : Track(o)
  \/ Ask \/ ReadFails \/ Respond
  \/ \E period \in Periods : ReadPeriod(period)

Spec == Init /\ [][Next]_vars

-----------------------------------------------------------------------------
Counted(period) == UNION {row.calls : row \in report.periods[period]}

PeriodsTypeOK ==
  /\ clock \in 0 .. MaxClock /\ offset \in Offsets
  /\ calls \subseteq [id : 1 .. MaxCalls, at : 0 .. clock, date : Int, orchestrator : Orchestrators]
  /\ report.pc \in {"idle", "reading", "answer"} /\ report.at \in 0 .. clock
  /\ report.known \subseteq calls /\ report.left \subseteq Periods
  /\ \A period \in Periods :
       report.periods[period] \subseteq [orchestrator : Orchestrators \ {Null}, calls : SUBSET calls]

(* An agent, orchestrator and model appear once in a period, rows without  *)
(* an orchestrator and rows of 'inber' being one group, and their totals   *)
(* are not divided between two rows nor counted in both.                   *)
OneRowPerGroup ==
  \A period \in Periods : \A r1, r2 \in report.periods[period] :
    r1 # r2 => r1.orchestrator # r2.orchestrator /\ r1.calls \cap r2.calls = {}

RecentCounted(period) ==
  report.pc = "answer" =>
    \A c \in report.known :
      clock - c.at <= DayLength * Days(period) + offset => c \in Counted(period)

OldLeftOut(period) ==
  \A c \in Counted(period) : report.at - c.at < DayLength * (Days(period) + 1) + offset

(* Although Track and the queries mean different days, a period of N days  *)
(* holds every call that was there when the request came and is, when it   *)
(* is answered, no more than N times 24 hours old, and none that was a day *)
(* older than that: both longer by what local time is ahead of UTC, and    *)
(* shorter by what it is behind.                                           *)
PeriodHoldsItsDays == \A period \in Periods : RecentCounted(period) /\ OldLeftOut(period)

(* The periods contain one another although each is a read of its own and  *)
(* midnight may fall between two of them: what is counted in a shorter one *)
(* and was there when the request came is counted in the longer ones.      *)
PeriodsNested ==
  report.pc = "answer" /\ Day(clock) <= Day(report.at) + 1 =>
    /\ Counted("day") \cap report.known \subseteq Counted("week")
    /\ Counted("week") \cap report.known \subseteq Counted("month")
=============================================================================
