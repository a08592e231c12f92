# A model of usage-store in TLA+

usage-store is one Go process (`cmd/usage-store-server`) around one SQLite file.
It polls the subscription limits of Anthropic and Codex, collects the daily
spend of the organisation's API keys, and keeps a ledger of token usage that
other programs write through the library. Everything hard in it comes from
actors that overlap: two refresher goroutines, any number of HTTP handlers, the
wall clock, and a database whose statements mostly stand alone.

## Inventory

| Part (source) | State | Operations | Meets others through |
|---|---|---|---|
| Limits refresher (`internal/limitsrefresh`) | `lastWatchedAt`; per provider `lastAttemptAt`, `failureBackoff`; the `wake` channel; the ticker | `Run` -> `dueProviders`, Fetch, save, `recordAttempt`; `MarkWatched`; ctx cancelled | handlers call `MarkWatched`; saves through `SaveLimits` |
| Staleness (`server.go` `markStaleness`, `main.go:68`) | none, a budget of 3 idle intervals | at every read of a snapshot | depends on when the refresher reads |
| Limit snapshots (`limits.go`) | table `limit_snapshots`, append-only | `SaveLimits` (transaction), `LatestLimits` (two queries), `HistoryLimits` | refresher and `POST /limits/refresh` write, handlers read |
| Spend collection (`spend/anthropic.go`, `main.go` `runSpendRefresher`, `server.go` `handleSpendRefresh`) | `spend_keys`, `spend_daily`, the map `adminHints` | `Fetch` (hint, keys, usage), upserts, `SaveAdminHint` | hourly tick and requests overlap; the report reads what they write |
| Spend report and top-ups (`server.go` `assembleProvider`, `spend.go`) | `spend_topups` | six separate reads; `AddTopup`, `DeleteTopup` | reads while refreshes write |
| Token ledger (`store.go`, `usage.go`) | table `usage` and its schema version | `Open` with migration (and the rebuild of the table it may run), `Track`, `Stats`, `Query`, `Summary`, `TotalCost` | several processes share the file |
| HTTP server (`internal/server`) | `adminHints` only | routes to the parts above; `handleRefresh` (read, save, answer), `handleUsage` (three reads of the ledger) | everything |
| Codex reader (`codex`) | a process group per read | start, JSON-lines exchange, close stdin, timeout and kill, `Wait` with its delay | the refresher's Fetch and `handleRefresh` |
| Anthropic limits collector (`anthropic`) | none | credentials, one HTTP request, 10 s timeout | the refresher's Fetch and `handleRefresh` |
| Auth-store client, configuration, prices, text helpers, wiring | none after boot | stateless calls and pure functions | inputs of the parts above |

What makes each part correct:

- *refresher*: a mark is served at once; failing providers are asked ever more
  rarely and never too soon; nobody is forgotten; shutdown works;
- *staleness*: a provider that answers is never shown as stale;
- *collectors*: every read ends in time, with all the windows that were stated or
  with an error somebody is to blame for, and leaves no process behind;
- *snapshots*: stored whole, answered whole, and never older than asked for;
- *spend collection*: never counted twice, only for days that are over, and in
  the end equal to what the provider reports;
- *report*: figures of one answer agree, and the balance is not too rosy;
- *ledger*: exact through restarts and several writers, and never too high whatever a
  rebuild loses;
- *usage by period*: every call in the periods it belongs to, in one row of each.

## Modules

| Module | Models | State ↔ code |
|---|---|---|
| `LimitsRefresh` | `limitsrefresh.go` | `run` is the place `Run` is at; `due`, `reading`, `readErr` are its locals; `wake` and `tick` are the two one-value channels; `marking` holds handlers between the unlock and the send of `MarkWatched`; times are kept as ages, saturated where no comparison can tell them apart, so time is unbounded |
| `LimitsRefreshTimed` | the same with time and snapshots | EXTENDS `LimitsRefresh`; `snapshotAge` is now − `snapshot_at`; time passes only inside a read or in a parked `select` |
| `LimitsRead` | abstract: what one read of a provider's limits promises its caller | `left` is the time the read still has, `reply` what the provider stated, `given` what the read returns |
| `LimitsReader` | what both collectors share | `pc` is the place in `Read` or `Fetch`, `time` since it began, `given` the windows of the result |
| `CodexReader` | `codex.Reader.Read`; external: the wrapper, the native binary under it, os/exec's watcher and `Wait` | `stdout` the lines in the pipe, `watcher` the goroutine that kills the group, `expiry` the end of `WaitDelay`, `raw` and `waitErr` the results of `exchange` and `Wait` |
| `AnthropicReader` | `anthropic.Collector.Fetch` | `status` and `body` of the response |
| `RefreshRequest` | `handleRefresh` over both collectors | `response` the HTTP status, `stored` whether rows were written; implements `LimitsRead` by the mapping at its end |
| `LimitBoard` | abstract: what the snapshot table promises its readers | `published` snapshots, a `question` per reader |
| `LimitStore` | `SaveLimits`, `LatestLimits` | `save` and `read` are the calls in progress, `rows` the committed rows; implements `LimitBoard` by the mapping at the end of the module |
| `SpendRefresh` | `Fetch`, the tick, `POST /spend/refresh`, `adminHints` | `fetch[f]` is one refresh in progress, with the days `left` to read of its window, a page after another, and the `rows` read; `daily`/`metas` the tables, `cost` the provider's usage report (outside world) |
| `SpendService` | nothing of its own: puts `SpendRefresh` in the place of the environment of `SpendReport` | the tables `metas` and `daily` of both |
| `SpendReport` | `assembleProvider` with `PerKeyTotals`, `SumSpendSince`, `ListKeyMeta`, `ListTopups` | `report` holds what has been read so far; `failed` which of the reads a property relies on failed and were only logged; history: `least`, the least that was stored since each top-up date while the request is answered, and `lowered`, between which reads a stored total was replaced by a smaller one |
| `UsageLedger` | `Open`, `Track`, `Stats` | `open[p]` is the next statement of `migrate` or of the rebuild in `migrateAddSessionHarness`, `schema` the version of the table, absent between `DROP` and `RENAME`, `usage` its rows, `newTable` and `copied` the table `usage_new`; history: `tracked`, what accepted calls add up to, `misread`, that a read of `sqlite_master` has failed, and in `stats` the rows `counted` and whether the lists are `whole` |
| `Sums` | `SUM(...)` | used by both |
| `UsagePeriods` | `handleUsage` beside `Track` | `calls` is what the rows add up, each with its local date; `report` the periods read so far and those `left` of the map |

`MC*.tla` give small instances for TLC, `*_proofs.tla` hold the theorems.
Definitions named `X_...` are mutants of `X`: plausible bugs, used nowhere in a
specification, which the property named with them in `PROJECT.json` detects.

Handlers between two accesses, failed calls and crashes are steps of their own.
The outside world (the provider's API, auth-store, the clock, SQLite's write
lock) is modelled from how the code uses it. Kept out: formatting, JSON,
the pages of the key list, prices, log lines. Where a history variable is needed to state a
property (`markUnseen`, `failures`, `floor`, `tracked`, `misread`, `counted`,
`whole`, `least`, `lowered`, `healthy`, `blamed`, `known`) its comment says so; no guard of the code's
actions depends on one except `healthy`, which stands for "calls no longer fail and the process stays up".

## Runs

| Run | Asks | Bounds |
|---|---|---|
| `refresh` | are wake-ups kept, marks served, backoffs right, reads spaced, providers read for ever, shutdown obeyed? | 2 providers, 2 handlers at once, Idle 3, Watched 1, expiry 2, check 1: the backoff takes the values 1, 2, 3, so it is seen doubling and capped, and 3 is not a multiple of 2 |
| `timed_fresh` | how old does a snapshot get? | Idle 6, Watched 2, a check each unit, reads of up to one unit; the second provider may also answer without windows. Drift within 3 intervals, backoff and a late mark are all seen; the first provider stays one unit under `ReadGap`, which the last one would reach if it never answered empty |
| `limit_store` | overlapping saves, crashes, clock set back, two-query reads | 2 savers, 1 reader, 2 windows, 3 snapshots, 2 seconds: two snapshots fit in one second and a third falls outside it |
| `spend_refresh` | overlap of tick and request, midnight, faults, rotation | 1 post, 1 key, 3 days, 2 days back, cost 0..1, 2 versions of the admin key: costs grow and midnight passes anywhere in a refresh, between two pages of the report too, and an older fetch may overwrite a newer one; keys meet only in the list, which may lag the usage with one key too. The process may end at any point. The same run checks that the refreshes are an environment `SpendReport` allows |
| `spend_report` | do six reads, any of which may fail, give one consistent answer? | 1 key, 3 days, windows of 1, 1 and 2 days back, 2 top-ups on days 1 or 2; a day's total may fall as well as rise. That 24h and 7d have one cutoff here leaves their order to be told by what is stored between them; the theorem holds for any lengths |
| `usage_ledger` | restarts, migration, rebuilds, concurrent writers, Stats | 2 processes, one of which asks for Stats, 1 model, 2 sessions, 2 harnesses, 2 calls per row of up to 1 token: two rows collide in a copy, and two rebuilds can overlap, stop half way and be begun again |
| `refresh_request` | does a read end in time, with all windows or a reason, whatever the process, the endpoint and the client do? | one request; Timeout, WaitDelay and the HTTP timeout 2 each, so an answer can come before, at and after the kill; a pipe of 2 lines, which the server's own messages can fill; windows of 300, 60 or no minutes or absent, so two may have one name; 2 rolling windows |
| `usage_periods` | do three reads in any order agree, with midnight between them and a local day that is not UTC's? | days of 2 units, local time up to half a day off, periods of 1, 2 and 3 days, 2 calls, clock to 10: a call can fall out of every period |

Deadlock is checked in every run but `refresh_request`, where the one request ends.

Where the code and its documents disagree, a run shows it (each expects TLC to
find a violation):

| Run | What a document says | What the code does |
|---|---|---|
| `limits_nil` | `LatestLimits` "Returns nil (no error) if no snapshot exists." (`limits.go:108`) | a failed first query gives nil, nil as well: the error is tested after `snapAt == 0` (`limits.go:115`) |
| `hints_race` | "Failures are logged but never stop the loop." (`main.go:164`) | `adminHints` is written and read by several goroutines without a lock, which the Go runtime may end the process for |
| `legacy_open` | "adds session and harness columns if missing" (`store.go:130`) | the index on `session` is created first and fails, so the migration is never reached |
| `ledger_rebuild` | the same line | `store.go:133` drops the error of its read of `sqlite_master`: when it fails, a table that has the columns is rebuilt, and what was recorded under a session is not there any more |

Besides these, `server.go:359` calls "24h" "effectively today + yesterday": the usage
report is asked for up to 00:00 UTC today, exclusive (`OnlyPastDays`), so the figure is
yesterday's. `README.md:60` calls a stale snapshot the sign of "three missed idle
reads in a row". The third read is due a little after three intervals have passed, so
two failed reads and the drift of the checks are enough, and `StaleAfterTwoMisses`
says two. A provider that answers without windows fails not even once.

A configuration with Idle < Watched makes the first backoff
longer than the idle interval, although the package comment says "never past the
idle interval"; nothing in `config.go` forbids it. `BackoffDoubles` and the
theorems on ages therefore assume `Watched <= Idle`, and `ReadsSpaced` names the shorter interval.

## Fairness

- `LimitsRefresh`: weak fairness of `RunStep`, since a goroutine that can run
  does and a read returns (HTTP timeout 10 s, Codex timeout 30 s); weak fairness of the
  send in `MarkWatched`, which cannot block; strong fairness of `SelectDone`,
  since Go's `select` picks at random among ready cases. The clock is *not* fair:
  `EveryProviderReadAgain` assumes in its formula that it goes on, and
  `WatchedReadIsServed` and `CancelStopsRun` hold even if the ticker never fires.
- `SpendRefresh`: the ticker fires for ever (weak fairness of the tick's start)
  and a refresh in progress goes on, each request having a timeout. That the
  world comes to rest and faults end is the hypothesis `Settles` of the two
  liveness properties, not an assumption of the specification. Requests are not
  assumed to be made.
- `RefreshRequest`: time passes, the goroutine that can run does, timers fire and the
  handler answers (weak fairness of each). Nothing is assumed of the child process, the
  endpoint or the client: that a silent one does not hold the request up is the
  point of `RequestAnswered`.
- The other specifications have no fairness and no liveness.

## Proofs

tlapm checks every proof for all values of the constants, from the named
assumptions in the modules, those a theorem states itself, and no others.

- **`LimitsRefresh_proofs`**: `TypeCorrect`; `WakeNeverLost` from
  an invariant strengthened with the type; `ReadsAreSpaced` needs an invariant of
  its own: a provider in the due list has waited for its interval and its
  backoff *and neither can have changed since*, because only `recordAttempt` for
  that provider sets them and it is not being read while still in the list.
  `BackoffDoubles` gives the wait after any number of failures
  in a row; it needs `Watched <= Idle`, else the first wait is past the idle interval.
  `failures` counts to `MaxWait` only, and that many doublings are past the cap
  because n of them reach beyond n (`DoubledGrows`). `MarkKeptUntilRead` is the safety
  half of `WatchedReadIsServed`, for any intervals: a mark that finds a provider due is
  *promised* a read, by the mark still unseen or by the due list, and no step breaks the
  promise but the read itself or the watchers' expiry. It needs `ListedInRound` (the list is empty
  whenever `Run` looks again, so a look never drops a provider) and `DueUntilRead`.
- **`LimitsRefresh_proofs`**, of `LimitsRefreshTimed`: `HealthySnapshotsStayFresh` and `OneMissIsNotStale`,
  assuming `Watched <= Idle`. Neither property is inductive, since how old a snapshot
  may be depends on where Run is. `Ages` says it for every place, of the age less one
  `ReadGap` per failure in a row: a provider *awaited* in a round was found due by
  `FoundBy` and has waited for the reads of those before it in the order of New; one
  that is *passed* was younger than the idle interval at the last check and has since
  waited for the reads of the others, and, as long as no tick is pending, for less than
  one period of the ticker. `Round` adds that due providers come in order and that a
  recorded success has stored its snapshot. Products with a variable are kept closed
  in `Reads` and `Missed`. `OneMissIsNotStale` needs
  `(StaleIntervals - 1) * ReadGap <= StaleIntervals * Idle`: with the defaults (15 min, a
  check each 15 s, reads of up to 35 s, two providers) a gap is below 17 min and two
  of them fit into 45 min; with an idle interval of two minutes they would not, and one
  miss could mark a snapshot stale.
- **`LimitStore_proofs`**: `SnapshotsStoredWhole`; `AnswersNewest` and
  `AnswersWhole` from the invariant `ReadsOK`, which relates what a reader found
  in its first query to the rows committed by the second: rows only grow
  (`OnlyGrows`), so the second it found still has its whole snapshot.
  `StoreKeepsPromise` is the refinement: every step of the store is a step of
  `LimitBoard` or none. It needs that a save
  works under an id of its own (`Fresh`), that a stored row is of a window its answer
  had (`RowsStated`) and that an open question has been told nothing yet (`Untold`). It and `AnswersWhole` assume `~TruncatedReads`, that an
  iteration over rows is not cut short.
- **`RefreshRequest_proofs`**: `PromiseKept` is the refinement of `LimitsRead` by both
  collectors. Its invariant has three parts: `Roles` (what process, pipe and watcher can
  be at each place of `Read`), `Clock` (the deadline in force at each place, so that
  `left` never runs out) and `Faithful` (what has been read is what was stated).
  `NoStrayProcessHolds` and `EveryFailureHasACauseHolds` have invariants of their own,
  `StrayInv` and `CauseInv`: the second says that, as long as nothing outside is to blame,
  processes, pipe and answer are as they should be at every place of `Read`, so that none
  of its ways to fail is open.
- **`SpendRefresh_proofs`**: `SpendNeverOverstated` and `StoredDaysAreOver`. Neither is
  inductive. `Honest` adds that the rows *held by a refresh in progress* are of
  days that are over and not above the report, and that the days it has still to read
  are over; costs and days only grow, so old rows stay honest in whatever order two
  refreshes store them. `OkMeansAllSaved`
  adds that a request leaves its keys, then its rows, behind only when
  none is left, and that of its steps only a save drops one. `RefreshPutsRight` is the part of
  `ReportCatchesUp` that is not liveness: while calls succeed and nothing changes outside
  (`QuietStep`), a refresh that has listed the keys holds, has stored or has still to read
  everything the books lack (`CatchingUp`), whatever others store beside it, provided no refresh still
  holds rows from before (`RowsCurrent`); and none takes such rows on. What is left to
  liveness is that old refreshes end and a new one gets through. It needs
  `NeverOverstated`: a day that cost nothing may give no row, and what is stored for it
  must already be zero. `ReportAssumptionMet` composes `SpendRefresh` with `SpendReport`: each
  step of the refreshes is one the report allows its environment, so what is proved of
  reports beside that environment holds beside real refreshes.
- **`SpendReport_proofs`**: `WindowsStayNested`, `BalanceCoversTheMonth` and
  `BalanceNeverOverstated`. Nothing in an answer says why its figures agree, so the
  invariant `ReportInv` relates them to the books between the reads. `WindowsWithin`:
  what was read of a window is no more than the books hold *now* for the same days, as long
  as no total was lowered between the reads of the windows; so a window read later, from
  the same day or an earlier one, cannot be smaller, which is the whole reason for the
  order of the reads (`NestedSoFar`). `MonthWithin` says the same of the month until the
  spend is summed, hence `BalanceCoversMonth`. `LeastStored` needs no such condition: the
  least that was stored since a day is no more than what is stored now, so the sum, which
  is read last and over all keys, covers it whatever is lowered (`SpendCoversLeast`). A
  window that failed counts as zero and does no harm to `WindowsWithin`; the nesting
  excepts it. Assumed are finitely many keys and 1 <= Week <= Month.
- **`UsageLedger_proofs`**: `OpenStoresHaveColumns` from `Opened`: a process past the
  creation of the table has found or made one, the indexes fail on a legacy one, nothing
  makes a table legacy again, and without a failed read of `sqlite_master` no process is
  in the rebuild at all. `LedgerStaysExact` follows: the rebuild is the only part of Open
  that drops rows. `LedgerNeverOverCounts` holds with failed reads too. `CopyCovered` adds
  that what is in `usage_new` is no more, per model, than the accepted calls: a copy takes
  one row of a model at most and leaves what is there, so a rebuild begun again over what
  another left counts nothing twice. `StatsNameAllTheyCount` from `Named`: what is counted
  stays in the table until it is dropped, so lists read later name it.
- **`UsagePeriods_proofs`**: `OneRowPerGroupHolds`, `PeriodHoldsItsDaysHolds` and
  `PeriodsNestedHolds`, from what a period read earlier still says about the calls now
  (`EveryRead`): calls are only added, and the cutoff only moves on.

*Sums and powers.* `SumOver` and `Doubled` are recursive functions, and the provers do no
induction over data. Both are reasoned about through the smallest counterexample: the
numbers, or the subsets of a finite set, for which a law fails are a set, so if it is not
empty it has a minimal member (`WFMin`, with the orders that the library shows to be
well-founded), and the member before it, for which the law holds, gives the contradiction.
`SmallestSet` and `SmallestNumber` say so once each. The recursive function is shown to exist the same
way (`TableExists`, from `TablesAgree`: two tables agree where both are defined); then
come the laws the invariants need: `SumUnfolds`, `SumIsNat`, `SumTakesOut` (in any
order), `SumGrows`, `SumOfPart` and others; those of `SumOver` are in `Sums_proofs`.

Every safety property a passing run checks is also the statement of a theorem. Only
model-checked is liveness, which is beyond the prover: `WatchedReadIsServed`,
`EveryProviderReadAgain`, `CancelStopsRun`, `ReportCatchesUp`, `RotationPickedUp` and
`RequestAnswered`.

## Limits of the models

- `LatestLimits` and `distinctCol` do not ask `rows.Err()`, so an iteration cut short by
  an error is answered as if it were whole; `distinctCol` also skips rows it cannot scan.
  `AnswerWhole` says nothing of such an answer (`TruncatedReads` turns it on; with it the
  property fails, as it must), nor does `StatsNameWhatTheyCount`: in `UsageLedger` a list
  may always be cut short, and `whole` remembers it.
- `AnswerWhole` allows an answer that mixes two snapshots of one second: the rows carry
  nothing that would tell them apart, so the code cannot do otherwise.
- An answer without windows is a success that stores nothing: the snapshot of such a
  provider grows old with no failure recorded. `MayAnswerEmpty` names the providers that
  do it, and the two properties are about the others.
- That a read takes at most `MaxReadTime` is assumed in `LimitsRefreshTimed` and is what
  `KeepsPromise` shows, for 10 s with Anthropic. With Codex it is Timeout *and*
  `WaitDelay`, 35 s by default, although `codex.go:68` says that Timeout bounds the exchange
  "from starting the process to its exit".
- The wrapper, the native binary and os/exec are modelled from how `codex.go` uses them.
  A process that leaves the group is not modelled. `NoStrayProcess` excepts the
  native whose wrapper went first, before the timeout: os/exec then has nothing to kill
  the group for, and Read returns after `WaitDelay` with the native still alive.
- `RefreshRequest` is one request. Two at once share nothing but the store, and
  their saves are the savers of `LimitStore`.
- `LimitsRefreshTimed` takes `snapshot_at` and the monotonic clock to agree; a
  wall clock set back is in `LimitStore` instead.
- `SpendReport` keeps days, not hours, as the code's comparisons do.
- `WindowsNested` and `BalanceCoversMonth` say nothing of an answer between whose reads a
  stored total was lowered, which an older refresh that overlaps a newer one does: its
  figures can then disagree. `BalanceNotOverstated` holds all the same; it is about
  answers whose sum was read.
- In `SpendRefresh` the costs of the provider only grow, up to yesterday's. A page of its
  report is taken a day at a time; one of several days is that of each, one right after
  the other. A key that cost nothing on a day has no row, if it was not used, or
  one of 0, if its models have no known price. Of the reads of `adminHints` only those
  that overlap a write are kept: the others change nothing.
- `NeverOverCounted` and `OpenMeansColumns` hold whatever reads of `sqlite_master` fail;
  `LedgerExact` only as long as none does, as `ledger_rebuild` shows. The rebuild keeps one
  row of those that collide when their sessions are blanked, any of them: it is the first
  in the table's own order, which the model does not keep.
- `UsageLedger` counts rows with non-empty model names: `distinctCol` leaves out
  empty ones. A row names the harness of its first call only, since the harness is not
  part of the key (`usage.go:37`); the model does the same.
- `UsagePeriods` keeps one agent and one model, and the offset of local time does not
  change. `PeriodsNested` is about requests that see midnight once at most.

Not modelled: `HistoryLimits`, `Query`, `Summary`, `TotalCost` and `LatestKeyRaw`, single
filtered reads; `migrateSpend`, which drops a table the next refresh rebuilds; prices,
text helpers, configuration and scripts, which have no behaviour over time; credential
discovery, which runs once; and the auth-store client, whose answers are inputs of
`SpendRefresh`.

## Plan

The modules were written in the order of the table above: first what runs all the
time, then what requests do beside it. Left to do:

1. `migrateSpend`, and `UsageLedger` with programs of two versions on one file, once the
   order of the statements lets a legacy table be opened.
2. `RefreshRequest` with the refresher's own read of the same provider beside it, and
   with the store as `LimitStore` has it.
3. The steps the other liveness properties rest on as action properties with a proof, as
   `RefreshPutsRight` has them for `ReportCatchesUp` and `MarkKeptUntilRead` for
   `WatchedReadIsServed`.
