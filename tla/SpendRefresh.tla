---------------------------- MODULE SpendRefresh ----------------------------
(***************************************************************************)
(* Per-key spend of the Anthropic organisation: Fetch of                   *)
(* spend/anthropic.go and the two places that store its result, the hourly *)
(* tick of runSpendRefresher and POST /spend/refresh, which may overlap.   *)
(*                                                                         *)
(* A day's cost of a key is a small number; names, hints and raw JSON are  *)
(* left out, a fingerprint of the admin key is the key's own version.      *)
(***************************************************************************)
EXTENDS Integers, FiniteSets

CONSTANTS
  Tick,       \* the goroutine of runSpendRefresher
  Posts,      \* POST /spend/refresh requests that may be in progress at once
  Gets,       \* GET /spend/keys requests
  Keys,       \* API keys the organisation may have
  MaxDay,     \* bound on the days
  FetchDays,  \* how many days back one Fetch asks for
  MaxCost,    \* bound on a day's cost
  MaxAdmin    \* bound on the admin key's versions

ASSUME SpendAssumption ==
  /\ Tick \notin Posts
  /\ MaxDay \in Nat \ {0} /\ FetchDays \in Nat \ {0}
  /\ MaxCost \in Nat /\ MaxAdmin \in Nat \ {0}

Fetchers == Posts \cup {Tick}
Days == 1 .. MaxDay

VARIABLES
  today,     \* the UTC day
  healthy,   \* history: from now on no call fails and the process stays up
  adminKey,  \* the version of the admin key auth-store resolves to
  orgKeys,   \* the organisation's API keys
  cost,      \* what the provider's usage report says, per key and day
  fetch,     \* per fetcher: where its refresh is and what it has read
  metas,     \* spend_keys: the keys with a row
  daily,     \* spend_daily: the total per key and day, 0 for no row
  hint,      \* adminHints["anthropic"], 0 for none
  reading    \* GET requests whose read of the adminHints map overlaps a write

world == <<today, healthy, adminKey, orgKeys, cost>>
store == <<metas, daily>>
vars == <<today, healthy, adminKey, orgKeys, cost, fetch, metas, daily, hint, reading>>

Rows == [key : Keys, day : Days, usd : 0 .. MaxCost]

NotFetching == [pc |-> "idle", hint |-> 0, keys |-> {}, left |-> {}, rows |-> {}]

Init ==
  /\ today = 1 /\ healthy = FALSE
  /\ adminKey = 1 /\ orgKeys = {}
  /\ cost = [k \in Keys |-> [d \in Days |-> 0]]
  /\ fetch = [f \in Fetchers |-> NotFetching]
  /\ metas = {}
  /\ daily = [k \in Keys |-> [d \in Days |-> 0]]
  /\ hint = 0 /\ reading = {}

-----------------------------------------------------------------------------
(* The world outside: days pass, keys are created and used (the report of  *)
(* yesterday may still grow), the admin key is rotated, faults end.        *)

NextDay ==
  /\ today < MaxDay /\ today' = today + 1
  /\ UNCHANGED <<healthy, adminKey, orgKeys, cost, fetch, store, hint, reading>>

CreateKey(k) ==
  /\ k \notin orgKeys /\ orgKeys' = orgKeys \cup {k}
  /\ UNCHANGED <<today, healthy, adminKey, cost, fetch, store, hint, reading>>

Use(k, d) ==
  /\ k \in orgKeys /\ d \in {today - 1, today} /\ cost[k][d] < MaxCost
  /\ cost' = [cost EXCEPT ![k][d] = @ + 1]
  /\ UNCHANGED <<today, healthy, adminKey, orgKeys, fetch, store, hint, reading>>

RotateAdminKey ==
  /\ adminKey < MaxAdmin /\ adminKey' = adminKey + 1
  /\ UNCHANGED <<today, healthy, orgKeys, cost, fetch, store, hint, reading>>

FaultsEnd ==
  /\ ~healthy /\ healthy' = TRUE
  /\ UNCHANGED <<today, adminKey, orgKeys, cost, fetch, store, hint, reading>>

-----------------------------------------------------------------------------
(* Fetch: the admin key is resolved anew for its hint, for the list of     *)
(* keys and for the report; a failure of any request ends the refresh with *)
(* nothing stored.                                                         *)

(* Mutant: the key is resolved once and kept for the life of the process. *)
ResolveHint_Once(f) ==
  /\ fetch[f].pc = "idle"
  /\ fetch' = [fetch EXCEPT ![f] = [NotFetching EXCEPT !.pc = "list",
                                      !.hint = IF hint = 0 THEN adminKey ELSE hint]]
  /\ UNCHANGED <<world, store, hint, reading>>

ResolveHint(f) ==
  /\ fetch[f].pc = "idle"
  /\ fetch' = [fetch EXCEPT ![f] = [NotFetching EXCEPT !.pc = "list", !.hint = adminKey]]
  /\ UNCHANGED <<world, store, hint, reading>>

ListKeys(f) ==
  /\ fetch[f].pc = "list"
  /\ fetch' = [fetch EXCEPT ![f] = [@ EXCEPT !.pc = "usage", !.keys = orgKeys]]
  /\ UNCHANGED <<world, store, hint, reading>>

(* Mutant: today's bucket, still growing, is asked for instead of the      *)
(* oldest day of the window.                                               *)
InWindow_OneDayLate(d) == d > today - FetchDays /\ d <= today

(* [today 00:00 - FetchDays, today 00:00): the day in progress is not part *)
(* of the report.                                                          *)
InWindow(d) == d >= today - FetchDays /\ d < today

(* The window is cut once; the pages of the report that come after it may  *)
(* be read on a later day, and after more spend.                           *)
CutWindow(f) ==
  /\ fetch[f].pc = "usage"
  /\ fetch' = [fetch EXCEPT ![f] = [@ EXCEPT !.pc = "pages", !.rows = {},
                                      !.left = {d \in Days : InWindow(d)}]]
  /\ UNCHANGED <<world, store, hint, reading>>

\* What the report now says of a day, a key that was not used left out.  One
\* used only with models that have no known price has a row of 0.
RowsOf(d) == {row \in Rows : row.day = d /\ row.usd = cost[row.key][d]}
Priced(rows) == {row \in rows : row.usd > 0}

(* Mutant: has_more is not looked at. *)
ReadPage_FirstOnly(f) ==
  /\ fetch[f].pc = "pages"
  /\ \E d \in fetch[f].left :
       /\ \A e \in fetch[f].left : d <= e
       /\ fetch' = [fetch EXCEPT ![f] = [@ EXCEPT !.left = {}, !.rows = RowsOf(d)]]
  /\ UNCHANGED <<world, store, hint, reading>>

(* A page is taken a day at a time, the next day first. *)
ReadPage(f) ==
  /\ fetch[f].pc = "pages"
  /\ \E d \in fetch[f].left :
       /\ \A e \in fetch[f].left : d <= e
       /\ \E page \in SUBSET RowsOf(d) :
            /\ Priced(RowsOf(d)) \subseteq page
            /\ fetch' = [fetch EXCEPT ![f] = [@ EXCEPT !.left = fetch[f].left \ {d},
                                                      !.rows = fetch[f].rows \cup page]]
  /\ UNCHANGED <<world, store, hint, reading>>

AllPagesRead(f) ==
  /\ fetch[f].pc = "pages" /\ fetch[f].left = {}
  /\ fetch' = [fetch EXCEPT ![f].pc = "keys"]
  /\ UNCHANGED <<world, store, hint, reading>>

FetchFails(f) ==
  /\ ~healthy /\ fetch[f].pc \in {"list", "usage", "pages"}
  /\ fetch' = [fetch EXCEPT ![f] = NotFetching]
  /\ UNCHANGED <<world, store, hint, reading>>

-----------------------------------------------------------------------------
(* Storing the result: SaveKeyMeta for every key, then SaveDailySpend for  *)
(* every row (the rows of a day come out of a Go map in any order).        *)

SaveKeyMeta(f) ==
  /\ fetch[f].pc = "keys"
  /\ \E k \in fetch[f].keys :
       /\ fetch' = [fetch EXCEPT ![f].keys = @ \ {k}]
       /\ metas' = metas \cup {k}
  /\ UNCHANGED <<world, daily, hint, reading>>

AllKeysSaved(f) ==
  /\ fetch[f].pc = "keys" /\ fetch[f].keys = {}
  /\ fetch' = [fetch EXCEPT ![f].pc = "daily"]
  /\ UNCHANGED <<world, store, hint, reading>>

(* Mutant: an upsert that adds. *)
Upsert_Adds(stored, usd) == stored + usd

(* ON CONFLICT DO UPDATE SET total_usd = excluded.total_usd *)
Upsert(stored, usd) == usd

SaveDailySpend(f) ==
  /\ fetch[f].pc = "daily"
  /\ \E row \in fetch[f].rows :
       /\ fetch' = [fetch EXCEPT ![f].rows = @ \ {row}]
       /\ daily' = [daily EXCEPT ![row.key][row.day] = Upsert(@, row.usd)]
  /\ UNCHANGED <<world, metas, hint, reading>>

AllRowsSaved(f) ==
  /\ fetch[f].pc = "daily" /\ fetch[f].rows = {}
  /\ fetch' = [fetch EXCEPT ![f].pc = "hint"]
  /\ UNCHANGED <<world, store, hint, reading>>

(* The tick logs a failed save and goes on with the next row. *)
TickSaveFails ==
  /\ ~healthy
  /\ \/ /\ fetch[Tick].pc = "keys"
        /\ \E k \in fetch[Tick].keys :
             fetch' = [fetch EXCEPT ![Tick].keys = @ \ {k}]
     \/ /\ fetch[Tick].pc = "daily"
        /\ \E row \in fetch[Tick].rows :
             fetch' = [fetch EXCEPT ![Tick].rows = @ \ {row}]
  /\ UNCHANGED <<world, store, hint, reading>>

(* Mutant: the request goes on as the tick does and answers 200. *)
PostSaveFails_GoesOn(f) ==
  /\ ~healthy /\ fetch[f].pc = "keys" /\ fetch[f].keys # {}
  /\ \E k \in fetch[f].keys :
       fetch' = [fetch EXCEPT ![f].keys = @ \ {k}]
  /\ UNCHANGED <<world, store, hint, reading>>

(* The request stops at the first failed save and answers 500. *)
PostSaveFails(f) ==
  /\ ~healthy
  /\ \/ fetch[f].pc = "keys" /\ fetch[f].keys # {}
     \/ fetch[f].pc = "daily" /\ fetch[f].rows # {}
  /\ fetch' = [fetch EXCEPT ![f] = NotFetching]
  /\ UNCHANGED <<world, store, hint, reading>>

(* SaveAdminHint writes a Go map that has no lock: the write and every     *)
(* read of it take time, and the runtime ends the process when it sees     *)
(* a write overlap another access.  pc "hint" is inside the write.         *)
SaveAdminHint(f) ==
  /\ fetch[f].pc = "hint"
  /\ hint' = fetch[f].hint
  /\ fetch' = [fetch EXCEPT ![f] = NotFetching]
  /\ reading' = {}
  /\ UNCHANGED <<world, store>>

(* assembleProvider's read of adminHints changes nothing: only a read that *)
(* overlaps a write is kept, and which of the two ends first is all one.   *)
ReadHint(g) ==
  /\ \E f \in Fetchers : fetch[f].pc = "hint"
  /\ reading' = IF g \in reading THEN reading \ {g} ELSE reading \cup {g}
  /\ UNCHANGED <<world, fetch, store, hint>>

(* The process ends, between any two statements, and is started again: the *)
(* rows saved stay, what was fetched and the hint are gone.                *)
Restart ==
  /\ ~healthy
  /\ fetch' = [f \in Fetchers |-> NotFetching] /\ hint' = 0 /\ reading' = {}
  /\ UNCHANGED <<world, store>>

-----------------------------------------------------------------------------
World == NextDay \/ (\E k \in Keys : CreateKey(k) \/ \E d \in Days : Use(k, d))
         \/ RotateAdminKey \/ FaultsEnd

Progress(f) ==
  \/ ListKeys(f) \/ CutWindow(f) \/ ReadPage(f) \/ AllPagesRead(f)
  \/ SaveKeyMeta(f) \/ AllKeysSaved(f) \/ SaveDailySpend(f) \/ AllRowsSaved(f)
  \/ SaveAdminHint(f)

Next ==
  \/ World
  \/ \E f \in Fetchers : ResolveHint(f) \/ FetchFails(f) \/ Progress(f)
  \/ TickSaveFails \/ Restart
  \/ \E f \in Posts : PostSaveFails(f)
  \/ \E g \in Gets : ReadHint(g)

Spec == Init /\ [][Next]_vars

(* The ticker fires for ever, and a refresh in progress goes on: every     *)
(* request it makes has a timeout.                                         *)
FairSpec ==
  /\ Spec
  /\ WF_vars(ResolveHint(Tick))
  /\ \A f \in Fetchers : WF_vars(Progress(f))

-----------------------------------------------------------------------------
TypeOK ==
  /\ today \in Days /\ healthy \in BOOLEAN
  /\ adminKey \in 1 .. MaxAdmin /\ orgKeys \subseteq Keys
  /\ cost \in [Keys -> [Days -> 0 .. MaxCost]]
  /\ fetch \in [Fetchers -> [pc : {"idle", "list", "usage", "pages", "keys", "daily",
                                   "hint"},
                             hint : 0 .. MaxAdmin, keys : SUBSET Keys,
                             left : SUBSET Days, rows : SUBSET Rows]]
  /\ metas \subseteq Keys
  /\ daily \in [Keys -> [Days -> 0 .. MaxCost]]
  /\ hint \in 0 .. MaxAdmin /\ reading \subseteq Gets

(* However often a day is fetched again, and however the saves of two      *)
(* refreshes interleave, the stored total of a day is never more than what *)
(* the provider reports: spend is neither counted twice nor invented.      *)
NeverOverstated == \A k \in Keys, d \in Days : daily[k][d] <= cost[k][d]

(* Only days that are over are stored, so a stored total is that of a      *)
(* whole day.                                                              *)
OnlyPastDays == \A k \in Keys, d \in Days : daily[k][d] # 0 => d < today

(* A request that goes on after a save, and so may come to answer 200, has *)
(* what it saved in the store, and it comes to the hint with nothing left. *)
OkMeansSaved ==
  [][\A f \in Posts :
       fetch[f].pc \in {"keys", "daily"} /\ fetch'[f].pc \in {"keys", "daily", "hint"} =>
         /\ \A k \in fetch[f].keys \ fetch'[f].keys : k \in metas'
         /\ \A row \in fetch[f].rows \ fetch'[f].rows : daily'[row.key][row.day] = row.usd
         /\ fetch'[f].pc = "hint" => fetch'[f].keys = {} /\ fetch'[f].rows = {}]_vars

(* From some time on nothing outside changes and no call fails. *)
Settles == <>[]healthy /\ <>[][FALSE]_world

ReportStored ==
  /\ orgKeys \subseteq metas
  /\ \A k \in Keys, d \in Days : InWindow(d) => daily[k][d] = cost[k][d]

(* An older fetch may overwrite a newer one, a tick may skip rows, a key   *)
(* may appear between the list and the usage report: once the world is     *)
(* quiet and calls succeed, the next ticks put all of it right for good.   *)
ReportCatchesUp == Settles => <>[]ReportStored

(* main.go: "Future rotations are picked up because the resolve happens    *)
(* lazily on every Fetch."                                                 *)
RotationPickedUp == Settles => <>[](hint = adminKey)

(* The claim that access to adminHints needs no lock.  main.go:            *)
(* "Failures are logged but never stop the loop."                          *)
HintsNeverRace ==
  \A f \in Fetchers : fetch[f].pc = "hint" =>
    reading = {} /\ \A g \in Fetchers \ {f} : fetch[g].pc # "hint"
=============================================================================
