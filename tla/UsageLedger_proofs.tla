------------------------- MODULE UsageLedger_proofs -------------------------
(* Theorems about UsageLedger: what the runs of MCUsageLedger check on a    *)
(* small instance holds for any processes, models, sessions and bounds.     *)
EXTENDS UsageLedger, Sums_proofs

-----------------------------------------------------------------------------
(* Rows. *)

LEMMA NoRowType == NoRow \in Rows /\ NoRow.tokens = 0 /\ NoRow.requests = 0
BY LedgerAssumption DEF LedgerAssumption, NoRow, Rows

LEMMA OldRowType == OldRow \in Rows /\ OldRow.tokens = 1 /\ OldRow.requests = 1
BY LedgerAssumption DEF LedgerAssumption, OldRow, Rows

(* The row Track starts from: a new one carries the harness of the call.   *)
Base(k, h) == IF usage[k].requests = 0 THEN [NoRow EXCEPT !.harness = h] ELSE usage[k]

(* What Track writes. *)
LEMMA TrackedRow ==
  ASSUME TypeOK, NEW k \in Keys, NEW h \in Harnesses, NEW tokens \in 0 .. MaxTokens
  PROVE  /\ Merge(Base(k, h), tokens) \in Rows
         /\ Merge(Base(k, h), tokens).tokens = usage[k].tokens + tokens
         /\ Merge(Base(k, h), tokens).requests = usage[k].requests + 1
<1>1. tokens \in Nat /\ usage[k] \in Rows
  BY LedgerAssumption DEF LedgerAssumption, TypeOK
<1>2. [NoRow EXCEPT !.harness = h] = [tokens |-> 0, requests |-> 0, harness |-> h]
  BY DEF NoRow
<1> DEFINE base == Base(k, h)
<1>3. /\ base \in [tokens : Nat, requests : Nat, harness : Harnesses]
      /\ base.tokens = usage[k].tokens /\ base.requests = usage[k].requests
  BY <1>1, <1>2, NoRowType DEF Base, Rows
<1> HIDE DEF base
<1>4. Merge(base, tokens) = [tokens |-> base.tokens + tokens, requests |-> base.requests + 1,
                             harness |-> base.harness]
  <2> DEFINE first == [base EXCEPT !.tokens = @ + tokens]
  <2>1. first = [tokens |-> base.tokens + tokens, requests |-> base.requests,
                 harness |-> base.harness]
    BY <1>3
  <2>2. Merge(base, tokens) = [first EXCEPT !.requests = @ + 1]
    BY DEF Merge
  <2> HIDE DEF first
  <2> QED
    BY <2>1, <2>2
<1>5. Merge(base, tokens) \in Rows
  BY <1>1, <1>3, <1>4 DEF Rows
<1> QED
  BY <1>3, <1>4, <1>5 DEF base

(* A step of Track, key by key. *)
LEMMA TrackStep ==
  ASSUME TypeOK, NEW p \in Procs, NEW k \in Keys, NEW h \in Harnesses,
         NEW tokens \in 0 .. MaxTokens, Track(p, k, h, tokens)
  PROVE  /\ usage' \in [Keys -> Rows] /\ tokens \in Nat
         /\ usage'[k].tokens = usage[k].tokens + tokens
         /\ usage'[k].requests = usage[k].requests + 1
         /\ tracked' \in [Keys -> [tokens : Nat, requests : 0 .. MaxCalls]]
         /\ tracked'[k].tokens = tracked[k].tokens + tokens
         /\ tracked'[k].requests = tracked[k].requests + 1
         /\ \A j \in Keys \ {k} : usage'[j] = usage[j] /\ tracked'[j] = tracked[j]
         /\ UNCHANGED <<schema, newTable, copied, misread, open, stats>>
<1>1. usage' = [usage EXCEPT ![k] = Merge(Base(k, h), tokens)]
  BY DEF Track, Base
<1>2. tracked' = [tracked EXCEPT ![k] = [tokens |-> tracked[k].tokens + tokens,
                                         requests |-> tracked[k].requests + 1]]
  BY DEF Track, TypeOK
<1>3. tokens \in Nat /\ tracked[k].requests + 1 \in 0 .. MaxCalls /\ tracked[k].tokens \in Nat
  BY LedgerAssumption DEF LedgerAssumption, Track, TypeOK
<1>4. tracked' \in [Keys -> [tokens : Nat, requests : 0 .. MaxCalls]]
  BY <1>2, <1>3 DEF TypeOK
<1> QED
  BY <1>1, <1>2, <1>3, <1>4, TrackedRow DEF TypeOK, Track

(* The rows a copy may take are rows of the table, or none. *)
LEMMA CandidateRow ==
  ASSUME TypeOK, NEW m \in Models, NEW row \in Candidates(m)
  PROVE  /\ row \in Rows
         /\ row = NoRow \/ \E s \in Sessions : /\ row.tokens = usage[Key(m, s)].tokens
                                               /\ row.requests = usage[Key(m, s)].requests
<1>1. CASE row = NoRow
  BY <1>1, NoRowType
<1>2. CASE row # NoRow
  <2>1. PICK s \in Sessions : /\ row = [usage[Key(m, s)] EXCEPT !.harness = NoHarness]
                              /\ usage[Key(m, s)].requests > 0
    BY <1>2 DEF Candidates
  <2>2. usage[Key(m, s)] \in Rows
    BY DEF TypeOK, Key, Keys
  <2>3. /\ row.tokens = usage[Key(m, s)].tokens /\ row.requests = usage[Key(m, s)].requests
        /\ row \in [tokens : Nat, requests : Nat, harness : Harnesses]
    BY <2>1, <2>2, LedgerAssumption DEF LedgerAssumption, Rows
  <2> QED
    BY <2>1, <2>3 DEF Rows
<1> QED
  BY <1>1, <1>2

(* What a copy leaves of a model: what was there, or a row of the table.   *)
LEMMA CopyStep ==
  ASSUME TypeOK, NEW p \in Procs, CopyRows(p)
  PROVE  /\ copied' \in [Models -> Rows]
         /\ \A m \in Models : copied'[m] = copied[m] \/ copied'[m] \in Candidates(m)
<1>1. PICK row \in [Models -> UNION {Candidates(m) : m \in Models}] :
        /\ \A m \in Models : row[m] \in Candidates(m)
        /\ copied' = [m \in Models |-> IF copied[m].requests > 0 THEN copied[m] ELSE row[m]]
  BY DEF CopyRows
<1>2. \A m \in Models : row[m] \in Rows /\ copied[m] \in Rows
  BY <1>1, CandidateRow DEF TypeOK
<1> QED
  BY <1>1, <1>2

-----------------------------------------------------------------------------
(* Types. *)

StatsState == [pc : {"idle", "totals", "models", "harnesses", "sessions", "done"},
               counted : SUBSET Keys, models : SUBSET Models,
               harnesses : SUBSET Harnesses, sessions : SUBSET Sessions, whole : BOOLEAN]

(* A query of Stats, or its end. *)
LEMMA StatsType ==
  ASSUME TypeOK, NEW p \in Procs, NEW new \in StatsState, stats' = [stats EXCEPT ![p] = new],
         UNCHANGED <<tables, tracked, misread, open>>
  PROVE  TypeOK'
BY DEF TypeOK, StatsState, tables

LEMMA NoStatsType == NoStats \in StatsState /\ NoStats.counted = {}
BY DEF NoStats, StatsState

(* Where Stats is moves on, and what it has read stays. *)
LEMMA AskStep ==
  ASSUME TypeOK, NEW p \in Procs, AskStats(p)
  PROVE  \E new \in StatsState :
           /\ stats' = [stats EXCEPT ![p] = new] /\ UNCHANGED <<tables, tracked, misread, open>>
           /\ new.pc = "totals" /\ new.counted = stats[p].counted
           /\ new.whole = stats[p].whole
<1> DEFINE new == [stats[p] EXCEPT !.pc = "totals"]
<1>1. /\ new \in StatsState /\ new.pc = "totals" /\ new.counted = stats[p].counted
      /\ new.whole = stats[p].whole
  BY DEF TypeOK, StatsState
<1>2. stats' = [stats EXCEPT ![p] = new] /\ UNCHANGED <<tables, tracked, misread, open>>
  BY DEF AskStats, StatsAfter
<1> QED
  BY <1>1, <1>2

LEMMA TotalsStep ==
  ASSUME TypeOK, NEW p \in Procs, ReadTotals(p)
  PROVE  \E new \in StatsState :
           /\ stats' = [stats EXCEPT ![p] = new] /\ UNCHANGED <<tables, tracked, misread, open>>
           /\ new.pc = "models" /\ new.counted = Present
<1> DEFINE new == [stats[p] EXCEPT !.pc = "models", !.counted = Present]
<1>1. Present \in SUBSET Keys
  BY DEF Present
<1>2. new \in StatsState /\ new.pc = "models" /\ new.counted = Present
  BY <1>1 DEF TypeOK, StatsState
<1>3. stats' = [stats EXCEPT ![p] = new] /\ UNCHANGED <<tables, tracked, misread, open>>
  BY DEF ReadTotals, StatsAfter
<1> QED
  BY <1>2, <1>3

LEMMA ModelsStep ==
  ASSUME TypeOK, NEW p \in Procs, ReadModels(p)
  PROVE  \E new \in StatsState :
           /\ stats' = [stats EXCEPT ![p] = new] /\ UNCHANGED <<tables, tracked, misread, open>>
           /\ stats[p].pc = "models" /\ new.pc = "harnesses" /\ new.counted = stats[p].counted
           /\ new.whole => /\ stats[p].whole
                           /\ new.models = {k.model : k \in Present}
<1> DEFINE names == {k.model : k \in Present}
<1>1. names \in SUBSET Models
  BY DEF Present, Keys
<1>2. PICK list \in SUBSET names :
        stats' = [stats EXCEPT ![p] = [stats[p] EXCEPT !.pc = "harnesses", !.models = list,
                                        !.whole = stats[p].whole /\ list = names]]
  BY DEF ReadModels, StatsAfter
<1> HIDE DEF names
<1> DEFINE new == [stats[p] EXCEPT !.pc = "harnesses", !.models = list,
                                   !.whole = stats[p].whole /\ list = names]
<1>3. stats[p] \in StatsState /\ (stats[p].whole /\ list = names) \in BOOLEAN
  BY DEF TypeOK, StatsState
<1>4. /\ new \in StatsState /\ new.pc = "harnesses" /\ new.counted = stats[p].counted
      /\ new.models = list /\ new.whole = (stats[p].whole /\ list = names)
  BY <1>1, <1>2, <1>3 DEF StatsState
<1>5. /\ stats' = [stats EXCEPT ![p] = new] /\ UNCHANGED <<tables, tracked, misread, open>>
      /\ stats[p].pc = "models"
  BY <1>2 DEF ReadModels
<1> HIDE DEF new
<1> QED
  BY <1>4, <1>5 DEF names

LEMMA HarnessesStep ==
  ASSUME TypeOK, NEW p \in Procs, ReadHarnesses(p)
  PROVE  \E new \in StatsState :
           /\ stats' = [stats EXCEPT ![p] = new] /\ UNCHANGED <<tables, tracked, misread, open>>
           /\ stats[p].pc = "harnesses" /\ new.pc = "sessions" /\ new.counted = stats[p].counted
           /\ new.models = stats[p].models
           /\ new.whole => stats[p].whole
<1> DEFINE names == {usage[k].harness : k \in Present} \ {NoHarness}
<1>1. names \in SUBSET Harnesses
  BY DEF Present, TypeOK, Rows
<1>2. PICK list \in SUBSET names :
        stats' = [stats EXCEPT ![p] = [stats[p] EXCEPT !.pc = "sessions", !.harnesses = list,
                                        !.whole = stats[p].whole /\ list = names]]
  BY DEF ReadHarnesses, StatsAfter
<1> HIDE DEF names
<1> DEFINE new == [stats[p] EXCEPT !.pc = "sessions", !.harnesses = list,
                                   !.whole = stats[p].whole /\ list = names]
<1>3. stats[p] \in StatsState /\ (stats[p].whole /\ list = names) \in BOOLEAN
  BY DEF TypeOK, StatsState
<1>4. /\ new \in StatsState /\ new.pc = "sessions" /\ new.counted = stats[p].counted
      /\ new.models = stats[p].models /\ new.whole = (stats[p].whole /\ list = names)
  BY <1>1, <1>2, <1>3 DEF StatsState
<1>5. /\ stats' = [stats EXCEPT ![p] = new] /\ UNCHANGED <<tables, tracked, misread, open>>
      /\ stats[p].pc = "harnesses"
  BY <1>2 DEF ReadHarnesses
<1> HIDE DEF new
<1> QED
  BY <1>4, <1>5

LEMMA SessionsStep ==
  ASSUME TypeOK, NEW p \in Procs, ReadSessions(p)
  PROVE  \E new \in StatsState :
           /\ stats' = [stats EXCEPT ![p] = new] /\ UNCHANGED <<tables, tracked, misread, open>>
           /\ stats[p].pc = "sessions" /\ new.pc = "done" /\ new.counted = stats[p].counted
           /\ new.models = stats[p].models
           /\ new.whole => /\ stats[p].whole
                           /\ new.sessions = {k.session : k \in Present} \ {NoSession}
<1> DEFINE names == {k.session : k \in Present} \ {NoSession}
<1>1. names \in SUBSET Sessions
  BY DEF Present, Keys
<1>2. PICK list \in SUBSET names :
        stats' = [stats EXCEPT ![p] = [stats[p] EXCEPT !.pc = "done", !.sessions = list,
                                        !.whole = stats[p].whole /\ list = names]]
  BY DEF ReadSessions, StatsAfter
<1> HIDE DEF names
<1> DEFINE new == [stats[p] EXCEPT !.pc = "done", !.sessions = list,
                                   !.whole = stats[p].whole /\ list = names]
<1>3. stats[p] \in StatsState /\ (stats[p].whole /\ list = names) \in BOOLEAN
  BY DEF TypeOK, StatsState
<1>4. /\ new \in StatsState /\ new.pc = "done" /\ new.counted = stats[p].counted
      /\ new.models = stats[p].models /\ new.sessions = list
      /\ new.whole = (stats[p].whole /\ list = names)
  BY <1>1, <1>2, <1>3 DEF StatsState
<1>5. /\ stats' = [stats EXCEPT ![p] = new] /\ UNCHANGED <<tables, tracked, misread, open>>
      /\ stats[p].pc = "sessions"
  BY <1>2 DEF ReadSessions
<1> HIDE DEF new
<1> QED
  BY <1>4, <1>5 DEF names

(* The steps of Stats; nothing in the tables changes. *)
StatsSteps(p) == AskStats(p) \/ ReadTotals(p) \/ ReadModels(p) \/ ReadHarnesses(p)
                 \/ ReadSessions(p) \/ AnswerStats(p)

(* The steps of Open before and after the rebuild changes a table. *)
OpenSteps(p) == Start(p) \/ CreateIndexes(p) \/ ReadSchema(p) \/ Reindex(p)

(* Type correctness: every row, counter and read of UsageLedger keeps its  *)
(* type through every step of Open, of the rebuild, of Track and of Stats. *)
THEOREM TypeCorrect == Spec => []TypeOK
<1>1. Init => TypeOK
  <2> SUFFICES ASSUME Init PROVE TypeOK
    OBVIOUS
  <2>1. usage \in [Keys -> Rows]
    BY NoRowType, OldRowType DEF Init
  <2>2. tracked \in [Keys -> [tokens : Nat, requests : 0 .. MaxCalls]]
    <3>1. 0 \in 0 .. MaxCalls /\ 1 \in 0 .. MaxCalls
      BY LedgerAssumption DEF LedgerAssumption
    <3>2. \A k \in Keys : usage[k] \in {NoRow, OldRow}
      BY DEF Init
    <3> QED
      BY <3>1, <3>2, NoRowType, OldRowType DEF Init
  <2>3. schema = "absent" => usage = [k \in Keys |-> NoRow]
    BY <2>1 DEF Init
  <2>4. copied \in [Models -> Rows]
    BY NoRowType DEF Init, NothingCopied
  <2>5. stats \in [Procs -> StatsState]
    BY NoStatsType DEF Init
  <2> QED
    BY <2>1, <2>2, <2>3, <2>4, <2>5 DEF Init, TypeOK, StatsState
<1>2. TypeOK /\ [Next]_vars => TypeOK'
  <2> SUFFICES ASSUME TypeOK, [Next]_vars PROVE TypeOK'
    OBVIOUS
  <2>1. ASSUME NEW p \in Procs, OpenSteps(p) PROVE TypeOK'
    BY <2>1 DEF TypeOK, OpenSteps, Start, CreateIndexes, ReadSchema, Reindex, GoTo, tables,
                Rebuilding
  <2>2. ASSUME NEW p \in Procs, CreateTable(p) PROVE TypeOK'
    BY <2>2 DEF TypeOK, CreateTable, GoTo
  <2>3. ASSUME NEW p \in Procs, CreateNew(p) PROVE TypeOK'
    BY <2>3 DEF TypeOK, CreateNew, GoTo, Rebuilding
  <2>4. ASSUME NEW p \in Procs, CopyRows(p) PROVE TypeOK'
    <3>1. copied' \in [Models -> Rows]
      BY <2>4, CopyStep
    <3> QED
      BY <2>4, <3>1 DEF TypeOK, CopyRows, GoTo, Rebuilding
  <2>5. ASSUME NEW p \in Procs, DropOld(p) PROVE TypeOK'
    <3>1. stats' \in [Procs -> StatsState]
      <4>1. ASSUME NEW q \in Procs
            PROVE  [stats[q] EXCEPT !.whole = @ /\ stats[q].counted = {}] \in StatsState
        BY DEF TypeOK, StatsState
      <4> QED
        BY <2>5, <4>1 DEF DropOld
    <3> QED
      BY <2>5, <3>1, NoRowType DEF TypeOK, DropOld, GoTo, Rebuilding, StatsState
  <2>6. ASSUME NEW p \in Procs, RenameNew(p) PROVE TypeOK'
    <3>1. usage' \in [Keys -> Rows]
      BY <2>6, NoRowType DEF TypeOK, RenameNew, Keys
    <3>2. copied' \in [Models -> Rows]
      BY <2>6, NoRowType DEF RenameNew, NothingCopied
    <3> QED
      BY <2>6, <3>1, <3>2 DEF TypeOK, RenameNew, GoTo, Rebuilding
  <2>7. ASSUME NEW p \in Procs, Stop(p) PROVE TypeOK'
    BY <2>7, NoStatsType DEF TypeOK, Stop, GoTo, tables, StatsState
  <2>8. ASSUME NEW p \in Procs, NEW k \in Keys, NEW h \in Harnesses,
               NEW tokens \in 0 .. MaxTokens, Track(p, k, h, tokens)
        PROVE TypeOK'
    <3>1. schema # "absent"
      BY <2>8 DEF Track
    <3> QED
      BY <2>8, <3>1, TrackStep DEF TypeOK
  <2>9. ASSUME NEW p \in Procs, StatsSteps(p) PROVE TypeOK'
    <3>1. CASE AnswerStats(p)
      BY <3>1, NoStatsType, StatsType DEF AnswerStats
    <3>2. CASE AskStats(p)
      BY <3>2, AskStep, StatsType
    <3>3. CASE ReadTotals(p)
      BY <3>3, TotalsStep, StatsType
    <3>4. CASE ReadModels(p)
      BY <3>4, ModelsStep, StatsType
    <3>5. CASE ReadHarnesses(p)
      BY <3>5, HarnessesStep, StatsType
    <3>6. CASE ReadSessions(p)
      BY <3>6, SessionsStep, StatsType
    <3> QED
      BY <2>9, <3>1, <3>2, <3>3, <3>4, <3>5, <3>6 DEF StatsSteps
  <2>10. CASE UNCHANGED vars
    BY <2>10 DEF TypeOK, vars, tables
  <2> QED
    BY <2>1, <2>2, <2>3, <2>4, <2>5, <2>6, <2>7, <2>8, <2>9, <2>10
    DEF Next, OpenSteps, StatsSteps
<1> QED
  BY <1>1, <1>2, PTL DEF Spec

-----------------------------------------------------------------------------
(* Why a process that gets past the indexes finds the columns: when it     *)
(* gets to them the table exists, with a legacy one they fail, and nothing *)
(* makes a table legacy again.  And why no process rebuilds the table when *)
(* the reads of sqlite_master succeed: none then finds it without them.    *)
Opened ==
  /\ OpenMeansColumns
  /\ \A p \in Procs : open[p] = "indexes" => schema # "absent" \/ misread
  /\ \A p \in Procs : open[p] \in Rebuilding => misread

LEMMA OpenedInit == Init => Opened
BY DEF Init, OpenMeansColumns, Opened, Rebuilding

LEMMA OpenedNext == TypeOK /\ Opened /\ [Next]_vars => Opened'
<1> SUFFICES ASSUME TypeOK, Opened, [Next]_vars PROVE Opened'
  OBVIOUS
<1> USE DEF Opened, OpenMeansColumns, TypeOK, GoTo, At, Rebuilding
<1>1. ASSUME NEW p \in Procs, Start(p) PROVE Opened'
  BY <1>1 DEF Start, tables
<1>2. ASSUME NEW p \in Procs, CreateTable(p) PROVE Opened'
  BY <1>2 DEF CreateTable
<1>3. ASSUME NEW p \in Procs, CreateIndexes(p) PROVE Opened'
  BY <1>3 DEF CreateIndexes, tables
<1>4. ASSUME NEW p \in Procs, ReadSchema(p) PROVE Opened'
  BY <1>4 DEF ReadSchema, tables
<1>5. ASSUME NEW p \in Procs, CreateNew(p) PROVE Opened'
  BY <1>5 DEF CreateNew
<1>6. ASSUME NEW p \in Procs, CopyRows(p) PROVE Opened'
  BY <1>6 DEF CopyRows
<1>7. ASSUME NEW p \in Procs, DropOld(p) PROVE Opened'
  BY <1>7 DEF DropOld
<1>8. ASSUME NEW p \in Procs, RenameNew(p) PROVE Opened'
  BY <1>8 DEF RenameNew
<1>9. ASSUME NEW p \in Procs, Reindex(p) PROVE Opened'
  BY <1>9 DEF Reindex, tables
<1>10. ASSUME NEW p \in Procs, Stop(p) PROVE Opened'
  BY <1>10 DEF Stop, tables
<1>11. ASSUME UNCHANGED <<schema, misread, open>> PROVE Opened'
  BY <1>11
<1>12. ASSUME NEW p \in Procs,
              \/ \E k \in Keys, h \in Harnesses, tokens \in 0 .. MaxTokens : Track(p, k, h, tokens)
              \/ StatsSteps(p)
       PROVE  UNCHANGED <<schema, misread, open>>
  BY <1>12 DEF Track, StatsSteps, AskStats, ReadTotals, ReadModels, ReadHarnesses,
               ReadSessions, AnswerStats, tables
<1>13. CASE UNCHANGED vars
  BY <1>11, <1>13 DEF vars, tables
<1> QED
  BY <1>1, <1>2, <1>3, <1>4, <1>5, <1>6, <1>7, <1>8, <1>9, <1>10, <1>11, <1>12, <1>13
  DEF Next, StatsSteps

(* A process past the indexes meets no table without the columns, nor,     *)
(* unless a read of sqlite_master has failed, none at all, for any number  *)
(* of processes opening, rebuilding and stopping in any order:             *)
(* OpenMeansColumns.                                                       *)
THEOREM OpenStoresHaveColumns == Spec => []OpenMeansColumns
<1>1. Opened => OpenMeansColumns
  BY DEF Opened
<1> QED
  BY <1>1, OpenedInit, OpenedNext, TypeCorrect, PTL DEF Spec

-----------------------------------------------------------------------------
(* The steps that leave the usage table and the history of it alone. *)
LEMMA Untouched ==
  ASSUME NEW p \in Procs,
         OpenSteps(p) \/ CreateTable(p) \/ CreateNew(p) \/ CopyRows(p) \/ Stop(p) \/ StatsSteps(p)
  PROVE  UNCHANGED <<usage, tracked>> /\ (misread' = misread \/ misread' = TRUE)
BY DEF OpenSteps, Start, CreateTable, CreateIndexes, ReadSchema, CreateNew, CopyRows, Reindex,
       Stop, StatsSteps, AskStats, ReadTotals, ReadModels, ReadHarnesses, ReadSessions,
       AnswerStats, tables

(* As long as no read of sqlite_master has failed the ledger is exact, for *)
(* any number of processes opening, stopping and writing in any order:     *)
(* LedgerExact.  No process is then in the part of Open that drops rows.   *)
THEOREM LedgerStaysExact == Spec => []LedgerExact
<1>1. Init => LedgerExact
  BY DEF Init, LedgerExact
<1>2. TypeOK /\ Opened /\ LedgerExact /\ [Next]_vars => LedgerExact'
  <2> SUFFICES ASSUME TypeOK, Opened, LedgerExact, [Next]_vars PROVE LedgerExact'
    OBVIOUS
  <2>1. ASSUME NEW p \in Procs, NEW k \in Keys, NEW h \in Harnesses,
               NEW tokens \in 0 .. MaxTokens, Track(p, k, h, tokens)
        PROVE  LedgerExact'
    BY <2>1, TrackStep DEF LedgerExact
  <2>2. ASSUME NEW p \in Procs, DropOld(p) \/ RenameNew(p) PROVE LedgerExact'
    BY <2>2 DEF DropOld, RenameNew, At, Opened, Rebuilding, LedgerExact
  <2>3. ASSUME UNCHANGED <<usage, tracked>>, misread' = misread \/ misread' = TRUE
        PROVE  LedgerExact'
    BY <2>3 DEF LedgerExact
  <2>4. CASE UNCHANGED vars
    BY <2>3, <2>4 DEF vars, tables
  <2> QED
    BY <2>1, <2>2, <2>3, <2>4, Untouched DEF Next, OpenSteps, StatsSteps
<1> QED
  BY <1>1, <1>2, OpenedInit, OpenedNext, TypeCorrect, PTL DEF Spec

-----------------------------------------------------------------------------
(* What a table holds of a model. *)

Tallies(table) == \A k \in Keys : table[k].tokens \in Nat /\ table[k].requests \in Nat

LEMMA KeyOf ==
  /\ \A m \in Models, s \in Sessions : /\ Key(m, s) \in Keys /\ Key(m, s).model = m
                                       /\ Key(m, s).session = s
  /\ \A k \in Keys : k.model \in Models /\ k.session \in Sessions /\ k = Key(k.model, k.session)
BY DEF Key, Keys

LEMMA TallyOf ==
  ASSUME NEW table, Tallies(table), NEW m \in Models
  PROVE  /\ TokensOf(table, m) \in Nat /\ RequestsOf(table, m) \in Nat
         /\ \A s \in Sessions : /\ table[Key(m, s)].tokens <= TokensOf(table, m)
                                /\ table[Key(m, s)].requests <= RequestsOf(table, m)
<1> DEFINE tokens == [s \in Sessions |-> table[Key(m, s)].tokens]
           requests == [s \in Sessions |-> table[Key(m, s)].requests]
<1>1. IsFiniteSet(Sessions) /\ Counts(tokens, Sessions) /\ Counts(requests, Sessions)
  BY KeyOf, LedgerAssumption DEF LedgerAssumption, Counts, Tallies
<1>2. ASSUME NEW s \in Sessions
      PROVE  tokens[s] = table[Key(m, s)].tokens /\ requests[s] = table[Key(m, s)].requests
  OBVIOUS
<1>3. TokensOf(table, m) = SumOver(tokens, Sessions)
      /\ RequestsOf(table, m) = SumOver(requests, Sessions)
  BY DEF TokensOf, RequestsOf
<1> HIDE DEF tokens, requests
<1> QED
  BY <1>1, <1>2, <1>3, SumIsNat, SumCovers

(* Tables that agree on a model hold the same of it. *)
LEMMA SameTally ==
  ASSUME NEW a, NEW b, NEW m \in Models,
         \A s \in Sessions : /\ a[Key(m, s)].tokens = b[Key(m, s)].tokens
                             /\ a[Key(m, s)].requests = b[Key(m, s)].requests
  PROVE  TokensOf(a, m) = TokensOf(b, m) /\ RequestsOf(a, m) = RequestsOf(b, m)
BY DEF TokensOf, RequestsOf

(* One call more. *)
LEMMA TallyGrows ==
  ASSUME NEW a, Tallies(a), NEW b, Tallies(b), NEW k \in Keys, NEW n \in Nat,
         b[k].tokens = a[k].tokens + n, b[k].requests = a[k].requests + 1,
         \A j \in Keys \ {k} : b[j] = a[j]
  PROVE  /\ TokensOf(b, k.model) = TokensOf(a, k.model) + n
         /\ RequestsOf(b, k.model) = RequestsOf(a, k.model) + 1
<1> DEFINE m == k.model
           x == k.session
           tokens(table) == [s \in Sessions |-> table[Key(m, s)].tokens]
           requests(table) == [s \in Sessions |-> table[Key(m, s)].requests]
<1>1. m \in Models /\ x \in Sessions /\ Key(m, x) = k
  BY KeyOf
<1>2. \A s \in Sessions \ {x} : Key(m, s) \in Keys \ {k}
  BY <1>1, KeyOf
<1>3. /\ IsFiniteSet(Sessions)
      /\ Counts(tokens(a), Sessions) /\ Counts(requests(a), Sessions)
      /\ Counts(tokens(b), Sessions) /\ Counts(requests(b), Sessions)
  BY <1>1, KeyOf, LedgerAssumption DEF LedgerAssumption, Counts, Tallies
<1>4. /\ tokens(b)[x] = tokens(a)[x] + n /\ requests(b)[x] = requests(a)[x] + 1
      /\ \A s \in Sessions \ {x} : tokens(b)[s] = tokens(a)[s] /\ requests(b)[s] = requests(a)[s]
  BY <1>1, <1>2
<1>5. /\ TokensOf(a, m) = SumOver(tokens(a), Sessions)
      /\ TokensOf(b, m) = SumOver(tokens(b), Sessions)
      /\ RequestsOf(a, m) = SumOver(requests(a), Sessions)
      /\ RequestsOf(b, m) = SumOver(requests(b), Sessions)
  BY DEF TokensOf, RequestsOf
<1> HIDE DEF tokens, requests, m, x
<1>6. SumOver(tokens(b), Sessions) = SumOver(tokens(a), Sessions) + n
  BY <1>1, <1>3, <1>4, SumGrowsAt
<1>7. SumOver(requests(b), Sessions) = SumOver(requests(a), Sessions) + 1
  BY <1>1, <1>3, <1>4, SumGrowsAt
<1> QED
  BY <1>5, <1>6, <1>7 DEF m

(* A table with one row of a model, the one without a session. *)
LEMMA TallyOfOne ==
  ASSUME NEW table, Tallies(table), NEW m \in Models,
         \A s \in Sessions \ {NoSession} : table[Key(m, s)] = NoRow
  PROVE  /\ TokensOf(table, m) = table[Key(m, NoSession)].tokens
         /\ RequestsOf(table, m) = table[Key(m, NoSession)].requests
<1> DEFINE tokens == [s \in Sessions |-> table[Key(m, s)].tokens]
           requests == [s \in Sessions |-> table[Key(m, s)].requests]
<1>1. IsFiniteSet(Sessions) /\ NoSession \in Sessions
  BY LedgerAssumption DEF LedgerAssumption
<1>2. /\ tokens[NoSession] = table[Key(m, NoSession)].tokens
      /\ requests[NoSession] = table[Key(m, NoSession)].requests
      /\ tokens[NoSession] \in Nat /\ requests[NoSession] \in Nat
  BY <1>1, KeyOf DEF Tallies
<1>3. \A s \in Sessions \ {NoSession} : tokens[s] = 0 /\ requests[s] = 0
  BY NoRowType
<1>4. TokensOf(table, m) = SumOver(tokens, Sessions)
      /\ RequestsOf(table, m) = SumOver(requests, Sessions)
  BY DEF TokensOf, RequestsOf
<1> HIDE DEF tokens, requests
<1> QED
  BY <1>1, <1>2, <1>3, <1>4, SumOfOne

-----------------------------------------------------------------------------
(* What a rebuild has copied is no more than the accepted calls, so that   *)
(* the table it becomes is not either.                                     *)
Covered(table) ==
  \A m \in Models : /\ TokensOf(table, m) <= TokensOf(tracked, m)
                    /\ RequestsOf(table, m) <= RequestsOf(tracked, m)

CopyCovered ==
  \A m \in Models : /\ copied[m].tokens <= TokensOf(tracked, m)
                    /\ copied[m].requests <= RequestsOf(tracked, m)

LEMMA TablesTally ==
  ASSUME TypeOK
  PROVE  Tallies(usage) /\ Tallies(tracked)
<1>1. 0 .. MaxCalls \subseteq Nat
  BY LedgerAssumption DEF LedgerAssumption
<1> QED
  BY <1>1 DEF TypeOK, Tallies, Rows

LEMMA TrackCovered ==
  ASSUME TypeOK, TypeOK', NeverOverCounted, CopyCovered, NEW p \in Procs, NEW k \in Keys,
         NEW h \in Harnesses, NEW tokens \in 0 .. MaxTokens, Track(p, k, h, tokens)
  PROVE  (NeverOverCounted /\ CopyCovered)'
<1>1. /\ tokens \in Nat
      /\ usage'[k].tokens = usage[k].tokens + tokens
      /\ usage'[k].requests = usage[k].requests + 1
      /\ tracked'[k].tokens = tracked[k].tokens + tokens
      /\ tracked'[k].requests = tracked[k].requests + 1
      /\ \A j \in Keys \ {k} : usage'[j] = usage[j] /\ tracked'[j] = tracked[j]
      /\ UNCHANGED copied
  BY TrackStep
<1>2. Tallies(usage) /\ Tallies(tracked) /\ Tallies(usage') /\ Tallies(tracked')
  <2>1. Tallies(usage)' /\ Tallies(tracked)'
    BY TablesTally, PTL
  <2> QED
    BY <2>1, TablesTally DEF Tallies
<1>3. ASSUME NEW m \in Models
      PROVE  /\ TokensOf(usage', m) <= TokensOf(tracked', m)
             /\ RequestsOf(usage', m) <= RequestsOf(tracked', m)
             /\ TokensOf(tracked, m) <= TokensOf(tracked', m)
             /\ RequestsOf(tracked, m) <= RequestsOf(tracked', m)
  <2>1. /\ TokensOf(usage, m) \in Nat /\ RequestsOf(usage, m) \in Nat
        /\ TokensOf(tracked, m) \in Nat /\ RequestsOf(tracked, m) \in Nat
        /\ TokensOf(usage, m) <= TokensOf(tracked, m)
        /\ RequestsOf(usage, m) <= RequestsOf(tracked, m)
    BY <1>2, TallyOf DEF NeverOverCounted
  <2>2. CASE m = k.model
    <3>1. /\ TokensOf(usage', m) = TokensOf(usage, m) + tokens
          /\ RequestsOf(usage', m) = RequestsOf(usage, m) + 1
      BY <1>1, <1>2, <2>2, TallyGrows
    <3>2. /\ TokensOf(tracked', m) = TokensOf(tracked, m) + tokens
          /\ RequestsOf(tracked', m) = RequestsOf(tracked, m) + 1
      BY <1>1, <1>2, <2>2, TallyGrows
    <3> QED
      BY <1>1, <2>1, <3>1, <3>2
  <2>3. CASE m # k.model
    <3>1. \A s \in Sessions : Key(m, s) \in Keys \ {k}
      BY <2>3, KeyOf
    <3>2. /\ TokensOf(usage', m) = TokensOf(usage, m)
          /\ RequestsOf(usage', m) = RequestsOf(usage, m)
      BY <1>1, <3>1, SameTally
    <3>3. /\ TokensOf(tracked', m) = TokensOf(tracked, m)
          /\ RequestsOf(tracked', m) = RequestsOf(tracked, m)
      BY <1>1, <3>1, SameTally
    <3> QED
      BY <2>1, <3>2, <3>3
  <2> QED
    BY <2>2, <2>3
<1>4. ASSUME NEW j \in Keys, j.session # NoSession
      PROVE  usage'[j].tokens <= tracked'[j].tokens /\ usage'[j].requests <= tracked'[j].requests
  <2>1. usage[j].tokens <= tracked[j].tokens /\ usage[j].requests <= tracked[j].requests
    BY <1>4 DEF NeverOverCounted
  <2>2. /\ usage[j].tokens \in Nat /\ usage[j].requests \in Nat
        /\ tracked[j].tokens \in Nat /\ tracked[j].requests \in Nat
    BY <1>2 DEF Tallies
  <2> QED
    BY <1>1, <2>1, <2>2
<1>5. NeverOverCounted'
  BY <1>3, <1>4 DEF NeverOverCounted, TokensOf, RequestsOf
<1>6. CopyCovered'
  <2> SUFFICES ASSUME NEW m \in Models
               PROVE  /\ copied[m].tokens <= TokensOf(tracked', m)
                      /\ copied[m].requests <= RequestsOf(tracked', m)
    BY <1>1 DEF CopyCovered, TokensOf, RequestsOf
  <2>1. copied[m].tokens \in Nat /\ copied[m].requests \in Nat
    BY DEF TypeOK, Rows
  <2>2. /\ TokensOf(tracked, m) \in Nat /\ RequestsOf(tracked, m) \in Nat
        /\ TokensOf(tracked', m) \in Nat /\ RequestsOf(tracked', m) \in Nat
    BY <1>2, TallyOf
  <2>3. copied[m].tokens <= TokensOf(tracked, m) /\ copied[m].requests <= RequestsOf(tracked, m)
    BY DEF CopyCovered
  <2> QED
    BY <1>3, <2>1, <2>2, <2>3
<1> QED
  BY <1>5, <1>6

LEMMA CopyStaysCovered ==
  ASSUME TypeOK, NeverOverCounted, CopyCovered, NEW p \in Procs, CopyRows(p)
  PROVE  (NeverOverCounted /\ CopyCovered)'
<1>1. UNCHANGED <<usage, tracked>>
  BY DEF CopyRows
<1>2. NeverOverCounted'
  BY <1>1 DEF NeverOverCounted, TokensOf, RequestsOf
<1>3. ASSUME NEW m \in Models
      PROVE  /\ copied'[m].tokens <= TokensOf(tracked, m)
             /\ copied'[m].requests <= RequestsOf(tracked, m)
  <2>1. CASE copied'[m] = copied[m]
    BY <2>1 DEF CopyCovered
  <2>2. CASE copied'[m] \in Candidates(m)
    <3>1. /\ TokensOf(usage, m) \in Nat /\ RequestsOf(usage, m) \in Nat
          /\ TokensOf(tracked, m) \in Nat /\ RequestsOf(tracked, m) \in Nat
          /\ TokensOf(usage, m) <= TokensOf(tracked, m)
          /\ RequestsOf(usage, m) <= RequestsOf(tracked, m)
      BY TablesTally, TallyOf DEF NeverOverCounted
    <3>2. CASE copied'[m] = NoRow
      BY <3>1, <3>2, NoRowType
    <3>3. CASE copied'[m] # NoRow
      <4>1. PICK s \in Sessions : /\ copied'[m].tokens = usage[Key(m, s)].tokens
                                  /\ copied'[m].requests = usage[Key(m, s)].requests
        BY <2>2, <3>3, CandidateRow
      <4>2. /\ usage[Key(m, s)].tokens <= TokensOf(usage, m)
            /\ usage[Key(m, s)].requests <= RequestsOf(usage, m)
        BY TablesTally, TallyOf
      <4>3. usage[Key(m, s)].tokens \in Nat /\ usage[Key(m, s)].requests \in Nat
        BY TablesTally, KeyOf DEF Tallies
      <4> QED
        BY <3>1, <4>1, <4>2, <4>3
    <3> QED
      BY <3>2, <3>3
  <2> QED
    BY <2>1, <2>2, CopyStep
<1>4. CopyCovered'
  BY <1>1, <1>3 DEF CopyCovered, TokensOf, RequestsOf
<1> QED
  BY <1>2, <1>4

(* A table with no more than what was copied, and that without a session,  *)
(* is covered.                                                             *)
LEMMA RebuiltCovered ==
  ASSUME TypeOK, TypeOK', CopyCovered, UNCHANGED tracked,
         \A m \in Models : \/ usage'[Key(m, NoSession)] = copied[m]
                           \/ usage'[Key(m, NoSession)] = NoRow,
         \A k \in Keys : k.session # NoSession => usage'[k] = NoRow
  PROVE  NeverOverCounted'
<1>1. Tallies(usage') /\ Tallies(tracked)
  <2>1. Tallies(usage)'
    BY TablesTally, PTL
  <2> QED
    BY <2>1, TablesTally DEF Tallies
<1>2. ASSUME NEW m \in Models
      PROVE  /\ TokensOf(usage', m) <= TokensOf(tracked, m)
             /\ RequestsOf(usage', m) <= RequestsOf(tracked, m)
  <2>1. /\ TokensOf(usage', m) = usage'[Key(m, NoSession)].tokens
        /\ RequestsOf(usage', m) = usage'[Key(m, NoSession)].requests
    BY <1>1, KeyOf, TallyOfOne
  <2>2. TokensOf(tracked, m) \in Nat /\ RequestsOf(tracked, m) \in Nat
    BY <1>1, TallyOf
  <2> QED
    BY <2>1, <2>2, NoRowType DEF CopyCovered
<1>3. ASSUME NEW k \in Keys, k.session # NoSession
      PROVE  usage'[k].tokens <= tracked[k].tokens /\ usage'[k].requests <= tracked[k].requests
  BY <1>1, <1>3, NoRowType DEF Tallies
<1> QED
  BY <1>2, <1>3 DEF NeverOverCounted, TokensOf, RequestsOf

LEMMA NoCopyCovered ==
  ASSUME TypeOK, \A m \in Models : copied[m] = NoRow
  PROVE  CopyCovered
<1>1. \A m \in Models : TokensOf(tracked, m) \in Nat /\ RequestsOf(tracked, m) \in Nat
  BY TablesTally, TallyOf
<1> QED
  BY <1>1, NoRowType DEF CopyCovered

(* No call is counted twice, however many rebuilds run, overlap, stop half *)
(* way and are begun again: NeverOverCounted.                              *)
THEOREM LedgerNeverOverCounts == Spec => []NeverOverCounted
<1>1. Init /\ TypeOK => NeverOverCounted /\ CopyCovered
  <2> SUFFICES ASSUME Init, TypeOK PROVE NeverOverCounted /\ CopyCovered
    OBVIOUS
  <2>1. \A k \in Keys : usage[k].tokens = tracked[k].tokens /\ usage[k].requests = tracked[k].requests
    BY DEF Init
  <2>2. ASSUME NEW m \in Models
        PROVE  /\ TokensOf(usage, m) = TokensOf(tracked, m)
               /\ RequestsOf(usage, m) = RequestsOf(tracked, m)
               /\ TokensOf(tracked, m) \in Nat /\ RequestsOf(tracked, m) \in Nat
    <3>1. \A s \in Sessions : Key(m, s) \in Keys
      BY KeyOf
    <3> QED
      BY <2>1, <3>1, SameTally, TablesTally, TallyOf
  <2>3. \A k \in Keys : tracked[k].tokens \in Nat /\ tracked[k].requests \in Nat
    BY TablesTally DEF Tallies
  <2>4. NeverOverCounted
    BY <2>1, <2>2, <2>3 DEF NeverOverCounted
  <2>5. CopyCovered
    BY NoCopyCovered DEF Init, NothingCopied
  <2> QED
    BY <2>4, <2>5
<1>2. TypeOK /\ TypeOK' /\ NeverOverCounted /\ CopyCovered /\ [Next]_vars
        => (NeverOverCounted /\ CopyCovered)'
  <2> SUFFICES ASSUME TypeOK, TypeOK', NeverOverCounted, CopyCovered, [Next]_vars
               PROVE  (NeverOverCounted /\ CopyCovered)'
    OBVIOUS
  <2>1. ASSUME NEW p \in Procs, NEW k \in Keys, NEW h \in Harnesses,
               NEW tokens \in 0 .. MaxTokens, Track(p, k, h, tokens)
        PROVE  (NeverOverCounted /\ CopyCovered)'
    BY <2>1, TrackCovered
  <2>2. ASSUME NEW p \in Procs, CopyRows(p) PROVE (NeverOverCounted /\ CopyCovered)'
    BY <2>2, CopyStaysCovered
  <2>3. ASSUME NEW p \in Procs, DropOld(p) PROVE (NeverOverCounted /\ CopyCovered)'
    <3>1. UNCHANGED <<copied, tracked>> /\ \A k \in Keys : usage'[k] = NoRow
      BY <2>3 DEF DropOld
    <3>2. NeverOverCounted'
      <4>1. NoSession \in Sessions
        BY LedgerAssumption DEF LedgerAssumption
      <4> QED
        BY <3>1, <4>1, KeyOf, RebuiltCovered
    <3> QED
      BY <3>1, <3>2 DEF CopyCovered, TokensOf, RequestsOf
  <2>4. ASSUME NEW p \in Procs, RenameNew(p) PROVE (NeverOverCounted /\ CopyCovered)'
    <3>1. /\ UNCHANGED tracked
          /\ usage' = [k \in Keys |-> IF k.session = NoSession THEN copied[k.model] ELSE NoRow]
          /\ \A m \in Models : copied'[m] = NoRow
      BY <2>4 DEF RenameNew, NothingCopied
    <3>2. NeverOverCounted'
      <4>1. NoSession \in Sessions
        BY LedgerAssumption DEF LedgerAssumption
      <4>2. \A m \in Models : usage'[Key(m, NoSession)] = copied[m]
        BY <3>1, <4>1, KeyOf
      <4>3. \A k \in Keys : k.session # NoSession => usage'[k] = NoRow
        BY <3>1
      <4> QED
        BY <3>1, <4>2, <4>3, RebuiltCovered
    <3>3. (\A m \in Models : copied[m] = NoRow)'
      BY <3>1
    <3>4. CopyCovered'
      BY <3>3, NoCopyCovered, PTL
    <3> QED
      BY <3>2, <3>4
  <2>5. ASSUME UNCHANGED <<usage, tracked, copied>> PROVE (NeverOverCounted /\ CopyCovered)'
    BY <2>5 DEF NeverOverCounted, CopyCovered, TokensOf, RequestsOf
  <2>6. ASSUME NEW p \in Procs,
               OpenSteps(p) \/ CreateTable(p) \/ CreateNew(p) \/ Stop(p) \/ StatsSteps(p)
        PROVE  UNCHANGED <<usage, tracked, copied>>
    BY <2>6 DEF OpenSteps, Start, CreateTable, CreateIndexes, ReadSchema, CreateNew, Reindex,
                Stop, StatsSteps, AskStats, ReadTotals, ReadModels, ReadHarnesses,
                ReadSessions, AnswerStats, tables
  <2>7. CASE UNCHANGED vars
    BY <2>5, <2>7 DEF vars, tables
  <2> QED
    BY <2>1, <2>2, <2>3, <2>4, <2>5, <2>6, <2>7 DEF Next, OpenSteps, StatsSteps
<1> QED
  BY <1>1, <1>2, TypeCorrect, PTL DEF Spec

-----------------------------------------------------------------------------
(* The rows in the totals are still there when the lists are read, unless  *)
(* the table has been dropped, and each list read so far names them,       *)
(* unless it was cut short.                                                *)
NamedBy(s) ==
  s.whole => \A k \in s.counted :
               /\ k \in Present
               /\ s.pc \in {"harnesses", "sessions", "done"} => k.model \in s.models
               /\ s.pc = "done" => k.session \in s.sessions \cup {NoSession}

Named == \A p \in Procs : NamedBy(stats[p])

(* StatsNameWhatTheyCount: an answer of Stats of which no list was cut     *)
(* short, nor the table dropped meanwhile, names the model and session of  *)
(* every row it counts, for any number of rows made between its queries.   *)
THEOREM StatsNameAllTheyCount == Spec => []StatsNameWhatTheyCount
<1>1. Init => Named
  BY NoStatsType DEF Init, Named, NamedBy
<1>2. TypeOK /\ Named /\ [Next]_vars => Named'
  <2> SUFFICES ASSUME TypeOK, Named, [Next]_vars PROVE Named'
    OBVIOUS
  <2>1. ASSUME UNCHANGED stats, Present \subseteq Present' PROVE Named'
    BY <2>1 DEF Named, NamedBy
  <2>2. ASSUME UNCHANGED <<usage, stats>> PROVE Named'
    BY <2>1, <2>2 DEF Present
  <2>3. ASSUME NEW p \in Procs,
               OpenSteps(p) \/ CreateTable(p) \/ CreateNew(p) \/ CopyRows(p)
        PROVE  Named'
    BY <2>2, <2>3 DEF OpenSteps, Start, CreateTable, CreateIndexes, ReadSchema, Reindex,
                      CreateNew, CopyRows, tables
  <2>4. ASSUME NEW p \in Procs, DropOld(p) PROVE Named'
    <3> SUFFICES ASSUME NEW q \in Procs, stats'[q].whole PROVE stats'[q].counted = {}
      BY DEF Named, NamedBy
    <3>1. /\ stats'[q].whole = (stats[q].whole /\ stats[q].counted = {})
          /\ stats'[q].counted = stats[q].counted
      BY <2>4 DEF DropOld, TypeOK
    <3> QED
      BY <3>1
  <2>5. ASSUME NEW p \in Procs, RenameNew(p) PROVE Named'
    <3>1. Present = {} /\ UNCHANGED stats
      BY <2>5, NoRowType DEF RenameNew, TypeOK, Present
    <3> QED
      BY <2>1, <3>1
  <2>6. ASSUME NEW p \in Procs, NEW k \in Keys, NEW h \in Harnesses,
               NEW tokens \in 0 .. MaxTokens, Track(p, k, h, tokens)
        PROVE  Named'
    <3>1. \A j \in Keys : usage[j].requests > 0 => usage'[j].requests > 0
      <4>1. usage[k].requests \in Nat
        BY DEF TypeOK, Rows
      <4> QED
        BY <2>6, <4>1, TrackStep
    <3>2. Present \subseteq Present' /\ UNCHANGED stats
      BY <2>6, <3>1, TrackStep DEF Present
    <3> QED
      BY <2>1, <3>2
  <2>7. ASSUME NEW p \in Procs, NEW new \in StatsState, stats' = [stats EXCEPT ![p] = new],
               UNCHANGED usage, NamedBy(new)
        PROVE  Named'
    BY <2>7 DEF Named, NamedBy, Present, TypeOK
  <2>8. ASSUME NEW p \in Procs, Stop(p) \/ AnswerStats(p) PROVE Named'
    BY <2>7, <2>8, NoStatsType DEF Stop, AnswerStats, NamedBy, tables
  <2>9. ASSUME NEW p \in Procs, AskStats(p) PROVE Named'
    <3>1. PICK new \in StatsState :
            /\ stats' = [stats EXCEPT ![p] = new] /\ UNCHANGED <<tables, tracked, misread, open>>
            /\ new.pc = "totals" /\ new.counted = stats[p].counted /\ new.whole = stats[p].whole
      BY <2>9, AskStep
    <3>2. NamedBy(new)
      BY <3>1 DEF Named, NamedBy
    <3> QED
      BY <2>7, <3>1, <3>2 DEF tables
  <2>10. ASSUME NEW p \in Procs, ReadTotals(p) PROVE Named'
    <3>1. PICK new \in StatsState :
            /\ stats' = [stats EXCEPT ![p] = new] /\ UNCHANGED <<tables, tracked, misread, open>>
            /\ new.pc = "models" /\ new.counted = Present
      BY <2>10, TotalsStep
    <3>2. NamedBy(new)
      BY <3>1 DEF NamedBy
    <3> QED
      BY <2>7, <3>1, <3>2 DEF tables
  <2>11. ASSUME NEW p \in Procs, ReadModels(p) PROVE Named'
    <3>1. PICK new \in StatsState :
            /\ stats' = [stats EXCEPT ![p] = new] /\ UNCHANGED <<tables, tracked, misread, open>>
            /\ new.pc = "harnesses" /\ new.counted = stats[p].counted
            /\ new.whole => /\ stats[p].whole
                           /\ new.models = {k.model : k \in Present}
      BY <2>11, ModelsStep
    <3>2. NamedBy(new)
      BY <3>1 DEF Named, NamedBy
    <3> QED
      BY <2>7, <3>1, <3>2 DEF tables
  <2>12. ASSUME NEW p \in Procs, ReadHarnesses(p) PROVE Named'
    <3>1. PICK new \in StatsState :
            /\ stats' = [stats EXCEPT ![p] = new] /\ UNCHANGED <<tables, tracked, misread, open>>
            /\ stats[p].pc = "harnesses" /\ new.pc = "sessions"
            /\ new.counted = stats[p].counted /\ new.models = stats[p].models
            /\ new.whole => stats[p].whole
      BY <2>12, HarnessesStep
    <3>2. NamedBy(new)
      BY <3>1 DEF Named, NamedBy
    <3> QED
      BY <2>7, <3>1, <3>2 DEF tables
  <2>13. ASSUME NEW p \in Procs, ReadSessions(p) PROVE Named'
    <3>1. PICK new \in StatsState :
            /\ stats' = [stats EXCEPT ![p] = new] /\ UNCHANGED <<tables, tracked, misread, open>>
            /\ stats[p].pc = "sessions" /\ new.pc = "done"
            /\ new.counted = stats[p].counted /\ new.models = stats[p].models
            /\ new.whole => /\ stats[p].whole
                            /\ new.sessions = {k.session : k \in Present} \ {NoSession}
      BY <2>13, SessionsStep
    <3>2. NamedBy(new)
      BY <3>1 DEF Named, NamedBy
    <3> QED
      BY <2>7, <3>1, <3>2 DEF tables
  <2>14. CASE UNCHANGED vars
    BY <2>2, <2>14 DEF vars, tables
  <2> QED
    BY <2>3, <2>4, <2>5, <2>6, <2>8, <2>9, <2>10, <2>11, <2>12, <2>13, <2>14
    DEF Next, OpenSteps
<1>3. Named => StatsNameWhatTheyCount
  BY DEF Named, NamedBy, StatsNameWhatTheyCount
<1> QED
  BY <1>1, <1>2, <1>3, TypeCorrect, PTL DEF Spec
=============================================================================
