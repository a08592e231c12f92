---------------------------- MODULE UsageLedger ----------------------------
(***************************************************************************)
(* The usage table of store.go and usage.go: Open and its migration, one   *)
(* statement after another, by processes that share the file (model-store  *)
(* links the library); Track, an upsert that adds; and Stats, which reads  *)
(* totals and lists of names in queries that no transaction holds together.*)
(*                                                                         *)
(* A row's key is its model and session; date, agent and orchestrator are  *)
(* left out, being further parts of the key, and of the counters tokens    *)
(* and requests stand for the others.                                      *)
(***************************************************************************)
EXTENDS Integers, FiniteSets, Sums

CONSTANTS
  Procs,      \* processes that open the file
  Readers,    \* those of them that ask for Stats
  Models,     \* model names
  Sessions,   \* session names, NoSession among them
  NoSession,  \* the empty session
  Harnesses,  \* harness names, NoHarness among them
  NoHarness,  \* the empty harness
  MaxTokens,  \* bound on the tokens of one call
  MaxCalls    \* bound on the calls recorded under one key

ASSUME LedgerAssumption ==
  /\ IsFiniteSet(Sessions) /\ NoSession \in Sessions /\ NoHarness \in Harnesses
  /\ MaxTokens \in Nat /\ MaxCalls \in Nat \ {0}

Keys == [model : Models, session : Sessions]
Key(m, s) == [model |-> m, session |-> s]

VARIABLES
  schema,    \* the usage table: absent, without the session column, or current
  usage,     \* its rows by key, no requests for no row
  newTable,  \* whether there is a table usage_new
  copied,    \* its rows by model, all of them without a session
  tracked,   \* history: what accepted calls to Track add up to, per key
  misread,   \* history: a read of sqlite_master by Open has failed
  open,      \* per process: where Open is
  stats      \* per process: where Stats is and what it has read

tables == <<schema, usage, newTable, copied>>
vars == <<schema, usage, newTable, copied, tracked, misread, open, stats>>

NoRow == [tokens |-> 0, requests |-> 0, harness |-> NoHarness]
OldRow == [tokens |-> 1, requests |-> 1, harness |-> NoHarness]
NothingCopied == [m \in Models |-> NoRow]

NoStats == [pc |-> "idle", counted |-> {}, models |-> {}, harnesses |-> {}, sessions |-> {},
            whole |-> TRUE]
\* history: "counted" are the rows in the totals, as they were; "whole" that
\* no list was cut short and the table not dropped since they were counted

(* A legacy table has rows already, all of them without a session. *)
Init ==
  /\ schema \in {"absent", "legacy", "current"}
  /\ usage \in [Keys -> {NoRow, OldRow}]
  /\ \A k \in Keys : usage[k] # NoRow => schema = "legacy" /\ k.session = NoSession
  /\ newTable = FALSE /\ copied = NothingCopied
  /\ tracked = [k \in Keys |-> [tokens |-> usage[k].tokens, requests |-> usage[k].requests]]
  /\ misread = FALSE
  /\ open = [p \in Procs |-> "down"]
  /\ stats = [p \in Procs |-> NoStats]

-----------------------------------------------------------------------------
(* Open: the statements of migrate run one by one, each on its own, and    *)
(* end at the first that fails, all but the read of sqlite_master.         *)

At(p, pc) == open[p] = pc
GoTo(p, pc) == open' = [open EXCEPT ![p] = pc]

Start(p) ==
  /\ open[p] \in {"down", "refused"} /\ GoTo(p, "table")
  /\ UNCHANGED <<tables, tracked, misread, stats>>

(* Mutant: the table is dropped and made anew. *)
CreateTable_Anew(p) ==
  /\ At(p, "table") /\ GoTo(p, "indexes")
  /\ schema' = "current" /\ usage' = [k \in Keys |-> NoRow]
  /\ UNCHANGED <<newTable, copied, tracked, misread, stats>>

(* CREATE TABLE IF NOT EXISTS leaves a legacy table as it is. *)
CreateTable(p) ==
  /\ At(p, "table") /\ GoTo(p, "indexes")
  /\ schema' = IF schema = "absent" THEN "current" ELSE schema
  /\ UNCHANGED <<usage, newTable, copied, tracked, misread, stats>>

(* Mutant: the error of migrate is dropped. *)
CreateIndexes_ErrorDropped(p) ==
  /\ At(p, "indexes") /\ GoTo(p, IF schema = "current" THEN "columns" ELSE "up")
  /\ UNCHANGED <<tables, tracked, misread, stats>>

(* CREATE INDEX ... ON usage(session) fails when there is no such column,  *)
(* or no table, and Open with it.                                          *)
CreateIndexes(p) ==
  /\ At(p, "indexes") /\ GoTo(p, IF schema = "current" THEN "columns" ELSE "refused")
  /\ UNCHANGED <<tables, tracked, misread, stats>>

(* migrateAddSessionHarness reads the table's definition.  The error of    *)
(* the read is not looked at, so one that fails finds no column, just as   *)
(* one that finds no table, and the table is rebuilt.                      *)
ReadSchema(p) ==
  /\ At(p, "columns")
  /\ \/ GoTo(p, IF schema = "current" THEN "up" ELSE "rebuild") /\ UNCHANGED misread
     \/ GoTo(p, "rebuild") /\ misread' = TRUE
  /\ UNCHANGED <<tables, tracked, stats>>

(* The rebuild.  CREATE TABLE IF NOT EXISTS usage_new: what an earlier     *)
(* rebuild left in it stays.                                               *)
CreateNew(p) ==
  /\ At(p, "rebuild") /\ GoTo(p, "copy")
  /\ newTable' = TRUE
  /\ UNCHANGED <<schema, usage, copied, tracked, misread, stats>>

(* The rows of model m that the copy may take: the session is blanked, so  *)
(* they collide, and the first in the table's own order is kept.           *)
Candidates(m) ==
  LET present == {s \in Sessions : usage[Key(m, s)].requests > 0}
  IN  IF present = {} THEN {NoRow}
      ELSE {[usage[Key(m, s)] EXCEPT !.harness = NoHarness] : s \in present}

(* Mutant: rows that are there already are added to. *)
CopyRows_Adds(p) ==
  /\ At(p, "copy") /\ GoTo(p, "drop")
  /\ schema # "absent" /\ newTable
  /\ \E row \in [Models -> UNION {Candidates(m) : m \in Models}] :
       /\ \A m \in Models : row[m] \in Candidates(m)
       /\ copied' = [m \in Models |->
            [row[m] EXCEPT !.tokens = @ + copied[m].tokens, !.requests = @ + copied[m].requests]]
  /\ UNCHANGED <<schema, usage, newTable, tracked, misread, stats>>

(* INSERT OR IGNORE INTO usage_new ... SELECT ..., '', '', ... FROM usage. *)
CopyRows(p) ==
  /\ At(p, "copy") /\ GoTo(p, "drop")
  /\ schema # "absent" /\ newTable
  /\ \E row \in [Models -> UNION {Candidates(m) : m \in Models}] :
       /\ \A m \in Models : row[m] \in Candidates(m)
       /\ copied' = [m \in Models |-> IF copied[m].requests > 0 THEN copied[m] ELSE row[m]]
  /\ UNCHANGED <<schema, usage, newTable, tracked, misread, stats>>

(* DROP TABLE usage, whatever was written to it since. *)
DropOld(p) ==
  /\ At(p, "drop") /\ GoTo(p, "rename")
  /\ schema # "absent"
  /\ schema' = "absent" /\ usage' = [k \in Keys |-> NoRow]
  /\ stats' = [q \in Procs |-> [stats[q] EXCEPT !.whole = @ /\ stats[q].counted = {}]]
  /\ UNCHANGED <<newTable, copied, tracked, misread>>

(* ALTER TABLE usage_new RENAME TO usage. *)
RenameNew(p) ==
  /\ At(p, "rename") /\ GoTo(p, "reindex")
  /\ schema = "absent" /\ newTable
  /\ schema' = "current" /\ newTable' = FALSE
  /\ usage' = [k \in Keys |-> IF k.session = NoSession THEN copied[k.model] ELSE NoRow]
  /\ copied' = NothingCopied
  /\ UNCHANGED <<tracked, misread, stats>>

Reindex(p) ==
  /\ At(p, "reindex") /\ GoTo(p, "up")
  /\ schema = "current"
  /\ UNCHANGED <<tables, tracked, misread, stats>>

(* The process ends, at any point: killed, closed, or because a statement  *)
(* of Open failed, for what other processes did to the tables or for a     *)
(* locked or full database.                                                *)
Stop(p) ==
  /\ open[p] # "down" /\ GoTo(p, "down")
  /\ stats' = [stats EXCEPT ![p] = NoStats]
  /\ UNCHANGED <<tables, tracked, misread>>

-----------------------------------------------------------------------------
(* Mutant: the insert counts no request. *)
Merge_NotCounted(row, tokens) ==
  [row EXCEPT !.tokens = @ + tokens, !.requests = IF @ = 0 THEN 0 ELSE @ + 1]

(* ON CONFLICT DO UPDATE SET input_tokens = input_tokens + excluded...     *)
Merge(row, tokens) == [row EXCEPT !.tokens = @ + tokens, !.requests = @ + 1]

(* One upsert.  The harness is no part of the key and is that of the call  *)
(* that made the row.  A call that fails (a locked file, no table) adds    *)
(* nothing and says so.                                                    *)
Track(p, k, h, tokens) ==
  /\ At(p, "up") /\ schema = "current" /\ tracked[k].requests < MaxCalls
  /\ usage' = [usage EXCEPT ![k] =
       Merge(IF @.requests = 0 THEN [NoRow EXCEPT !.harness = h] ELSE @, tokens)]
  /\ tracked' = [tracked EXCEPT ![k].tokens = @ + tokens, ![k].requests = @ + 1]
  /\ UNCHANGED <<schema, newTable, copied, misread, open, stats>>

-----------------------------------------------------------------------------
(* Stats. *)

Present == {k \in Keys : usage[k].requests > 0}

(* Mutant: the lists are read before the totals. *)
StatsAfter_TotalsLast(pc) ==
  CASE pc = "idle" -> "models" [] pc = "models" -> "harnesses" [] pc = "harnesses" -> "sessions"
    [] pc = "sessions" -> "totals" [] pc = "totals" -> "done"

StatsAfter(pc) ==
  CASE pc = "idle" -> "totals" [] pc = "totals" -> "models" [] pc = "models" -> "harnesses"
    [] pc = "harnesses" -> "sessions" [] pc = "sessions" -> "done"

AskStats(p) ==
  /\ p \in Readers /\ At(p, "up") /\ stats[p].pc = "idle"
  /\ stats' = [stats EXCEPT ![p].pc = StatsAfter("idle")]
  /\ UNCHANGED <<tables, tracked, misread, open>>

ReadTotals(p) ==
  /\ stats[p].pc = "totals" /\ schema # "absent"
  /\ stats' = [stats EXCEPT ![p] = [@ EXCEPT !.pc = StatsAfter("totals"), !.counted = Present]]
  /\ UNCHANGED <<tables, tracked, misread, open>>

(* distinctCol, for the list it fills: a row that cannot be scanned is     *)
(* skipped, and an iteration that ends early is not told from one that is  *)
(* complete, so any part of the names may be all there is.                 *)
ReadModels(p) ==
  /\ stats[p].pc = "models" /\ schema # "absent"
  /\ LET names == {k.model : k \in Present}
     IN  \E list \in SUBSET names :
           stats' = [stats EXCEPT ![p] = [@ EXCEPT !.pc = StatsAfter("models"), !.models = list,
                                                   !.whole = stats[p].whole /\ list = names]]
  /\ UNCHANGED <<tables, tracked, misread, open>>

ReadHarnesses(p) ==
  /\ stats[p].pc = "harnesses" /\ schema # "absent"
  /\ LET names == {usage[k].harness : k \in Present} \ {NoHarness}
     IN  \E list \in SUBSET names :
           stats' = [stats EXCEPT ![p] = [@ EXCEPT !.pc = StatsAfter("harnesses"),
                                                   !.harnesses = list,
                                                   !.whole = stats[p].whole /\ list = names]]
  /\ UNCHANGED <<tables, tracked, misread, open>>

ReadSessions(p) ==
  /\ stats[p].pc = "sessions" /\ schema # "absent"
  /\ LET names == {k.session : k \in Present} \ {NoSession}
     IN  \E list \in SUBSET names :
           stats' = [stats EXCEPT ![p] = [@ EXCEPT !.pc = StatsAfter("sessions"),
                                                   !.sessions = list,
                                                   !.whole = stats[p].whole /\ list = names]]
  /\ UNCHANGED <<tables, tracked, misread, open>>

(* The answer is given, or a query was refused and the error is. *)
AnswerStats(p) ==
  /\ stats[p].pc # "idle"
  /\ stats' = [stats EXCEPT ![p] = NoStats]
  /\ UNCHANGED <<tables, tracked, misread, open>>

-----------------------------------------------------------------------------
Next ==
  \E p \in Procs :
    \/ Start(p) \/ CreateTable(p) \/ CreateIndexes(p) \/ ReadSchema(p) \/ Stop(p)
    \/ CreateNew(p) \/ CopyRows(p) \/ DropOld(p) \/ RenameNew(p) \/ Reindex(p)
    \/ \E k \in Keys, h \in Harnesses, tokens \in 0 .. MaxTokens : Track(p, k, h, tokens)
    \/ AskStats(p) \/ ReadTotals(p) \/ ReadModels(p) \/ ReadHarnesses(p) \/ ReadSessions(p)
    \/ AnswerStats(p)

Spec == Init /\ [][Next]_vars

-----------------------------------------------------------------------------
\* A row, or none.
Rows == {row \in [tokens : Nat, requests : Nat, harness : Harnesses] :
           row.requests = 0 => row = NoRow}

Rebuilding == {"rebuild", "copy", "drop", "rename", "reindex"}

TypeOK ==
  /\ schema \in {"absent", "legacy", "current"}
  /\ usage \in [Keys -> Rows] /\ copied \in [Models -> Rows] /\ newTable \in BOOLEAN
  /\ schema = "absent" => usage = [k \in Keys |-> NoRow]
  /\ tracked \in [Keys -> [tokens : Nat, requests : 0 .. MaxCalls]] /\ misread \in BOOLEAN
  /\ open \in [Procs -> {"down", "table", "indexes", "columns", "up", "refused"} \cup Rebuilding]
  /\ stats \in [Procs -> [pc : {"idle", "totals", "models", "harnesses", "sessions", "done"},
                          counted : SUBSET Keys, models : SUBSET Models,
                          harnesses : SUBSET Harnesses, sessions : SUBSET Sessions,
                          whole : BOOLEAN]]

\* What a table holds of a model, over all sessions.
TokensOf(table, m) == SumOver([s \in Sessions |-> table[Key(m, s)].tokens], Sessions)
RequestsOf(table, m) == SumOver([s \in Sessions |-> table[Key(m, s)].requests], Sessions)

(* Nothing is ever counted twice: however many rebuilds run, overlap, stop *)
(* half way and are begun again over what they left, a model has no more   *)
(* tokens and requests than its accepted calls, and a session no more than *)
(* its own.                                                                *)
NeverOverCounted ==
  /\ \A m \in Models : /\ TokensOf(usage, m) <= TokensOf(tracked, m)
                      /\ RequestsOf(usage, m) <= RequestsOf(tracked, m)
  /\ \A k \in Keys : k.session # NoSession => /\ usage[k].tokens <= tracked[k].tokens
                                             /\ usage[k].requests <= tracked[k].requests

(* As long as every read of sqlite_master has succeeded the ledger is      *)
(* exact: whatever processes open the file, stop, and write to one row in  *)
(* turn, each row holds what the accepted calls add up to.                 *)
LedgerExact ==
  ~misread => \A k \in Keys : /\ usage[k].tokens = tracked[k].tokens
                             /\ usage[k].requests = tracked[k].requests

(* A process that is past the indexes never meets a table without the      *)
(* columns, whatever others do to the file; nor no table, unless a failed  *)
(* read of sqlite_master has made some process rebuild it.                 *)
OpenMeansColumns ==
  \A p \in Procs : open[p] \in {"columns", "up"} \cup Rebuilding =>
    schema = "current" \/ (schema = "absent" /\ misread)

(* The lists of an answer of Stats name the model and the session of every *)
(* row in its totals, although rows appear between its queries: unless a   *)
(* list was cut short, or a rebuild dropped the table between them.        *)
StatsNameWhatTheyCount ==
  \A p \in Procs : (stats[p].pc = "done" /\ stats[p].whole) =>
    \A k \in stats[p].counted :
      /\ k.model \in stats[p].models
      /\ k.session \in stats[p].sessions \cup {NoSession}

(* store.go: "migrateAddSessionHarness adds session and harness columns if *)
(* missing": a file of an older version can be opened.                     *)
LegacyOpens == schema = "legacy" => \A p \in Procs : open[p] # "refused"

(* The same words, of a table that is not missing them: opening the file   *)
(* leaves what is recorded under a session there.                          *)
SessionsKept ==
  \A k \in Keys : k.session # NoSession /\ tracked[k].requests > 0 => usage[k].requests > 0
=============================================================================
