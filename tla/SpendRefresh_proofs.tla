------------------------ MODULE SpendRefresh_proofs -------------------------
(* Theorems about SpendRefresh, for any number of requests, keys, days and *)
(* costs: what is stored comes from the provider, 200 means stored, and the *)
(* books are written as SpendReport assumes.                               *)
EXTENDS SpendService, TLAPS

FetchState == [pc : {"idle", "list", "usage", "pages", "keys", "daily", "hint"},
               hint : 0 .. MaxAdmin, keys : SUBSET Keys, left : SUBSET Days,
               rows : SUBSET Rows]

LEMMA IdleType == NotFetching \in FetchState /\ NotFetching.rows = {} /\ NotFetching.left = {}
BY SpendAssumption DEF SpendAssumption, NotFetching, FetchState

LEMMA StateOf ==
  ASSUME TypeOK, NEW f \in Fetchers
  PROVE  fetch[f] \in FetchState
BY DEF TypeOK, FetchState

-----------------------------------------------------------------------------
(* What the steps of a fetcher make of its own state. *)

(* A step that reads no row: the rows are left or become fewer, and so are *)
(* the days to be read but for those of a new window, which are over.      *)
Narrows(f, new) ==
  /\ new \in FetchState /\ new.rows \subseteq fetch[f].rows
  /\ \A d \in new.left : d \in fetch[f].left \/ d < today
  /\ fetch' = [fetch EXCEPT ![f] = new]

LEMMA ResolveHintStep ==
  ASSUME TypeOK, NEW f \in Fetchers, ResolveHint(f)
  PROVE  \E new : Narrows(f, new) /\ new.pc = "list"
<1> DEFINE new == [NotFetching EXCEPT !.pc = "list", !.hint = adminKey]
<1>1. new \in FetchState /\ new.rows = {} /\ new.left = {} /\ new.pc = "list"
  <2>1. adminKey \in 0 .. MaxAdmin
    BY SpendAssumption DEF TypeOK, SpendAssumption
  <2> QED
    BY <2>1, IdleType DEF FetchState
<1>2. fetch' = [fetch EXCEPT ![f] = new]
  BY DEF ResolveHint
<1> HIDE DEF new
<1> QED
  BY <1>1, <1>2 DEF Narrows

LEMMA ListKeysStep ==
  ASSUME TypeOK, NEW f \in Fetchers, ListKeys(f)
  PROVE  \E new : Narrows(f, new) /\ new.pc = "usage"
<1> DEFINE new == [fetch[f] EXCEPT !.pc = "usage", !.keys = orgKeys]
<1>1. new \in FetchState /\ new.rows = fetch[f].rows /\ new.left = fetch[f].left /\ new.pc = "usage"
  BY StateOf DEF TypeOK, FetchState
<1>2. fetch' = [fetch EXCEPT ![f] = new]
  BY DEF ListKeys
<1> HIDE DEF new
<1> QED
  BY <1>1, <1>2 DEF Narrows

(* A new window has no rows yet. *)
LEMMA CutWindowStep ==
  ASSUME TypeOK, NEW f \in Fetchers, CutWindow(f)
  PROVE  \E new : /\ Narrows(f, new) /\ new.pc = "pages" /\ new.rows = {}
                  /\ new.left = {d \in Days : InWindow(d)} /\ new.keys = fetch[f].keys
<1> DEFINE window == {d \in Days : InWindow(d)}
           new == [fetch[f] EXCEPT !.pc = "pages", !.rows = {}, !.left = window]
<1>1. fetch' = [fetch EXCEPT ![f] = new] /\ window \in SUBSET Days
  BY DEF CutWindow
<1> HIDE DEF window
<1>2. /\ new \in FetchState /\ new.rows = {} /\ new.pc = "pages"
      /\ new.left = window /\ new.keys = fetch[f].keys
  BY <1>1, StateOf DEF FetchState
<1> HIDE DEF new
<1>3. \A d \in window : d < today
  BY DEF window, InWindow
<1> QED
  BY <1>1, <1>2, <1>3 DEF Narrows, window

(* The rows of a page: what the provider says of a day of the window, of   *)
(* every key that cost something.                                          *)
LEMMA ReadPageStep ==
  ASSUME TypeOK, NEW f \in Fetchers, ReadPage(f)
  PROVE  \E d \in fetch[f].left, page \in SUBSET Rows, new \in FetchState :
           /\ fetch' = [fetch EXCEPT ![f] = new]
           /\ page \subseteq RowsOf(d) /\ Priced(RowsOf(d)) \subseteq page
           /\ new.pc = "pages" /\ new.left = fetch[f].left \ {d}
           /\ new.rows = fetch[f].rows \cup page /\ new.keys = fetch[f].keys
<1>1. PICK d \in fetch[f].left : \E page \in SUBSET RowsOf(d) :
        /\ Priced(RowsOf(d)) \subseteq page
        /\ fetch' = [fetch EXCEPT ![f] = [@ EXCEPT !.left = fetch[f].left \ {d},
                                                  !.rows = fetch[f].rows \cup page]]
  BY DEF ReadPage
<1>2. PICK page \in SUBSET RowsOf(d) :
        /\ Priced(RowsOf(d)) \subseteq page
        /\ fetch' = [fetch EXCEPT ![f] = [@ EXCEPT !.left = fetch[f].left \ {d},
                                                  !.rows = fetch[f].rows \cup page]]
  BY <1>1
<1> DEFINE days == fetch[f].left \ {d}
           rows == fetch[f].rows \cup page
           new == [fetch[f] EXCEPT !.left = days, !.rows = rows]
<1>3. days \in SUBSET Days /\ rows \in SUBSET Rows
  BY StateOf DEF FetchState, RowsOf
<1>4. fetch' = [fetch EXCEPT ![f] = new]
  BY <1>2
<1> HIDE DEF days, rows
<1>5. /\ new \in FetchState /\ new.pc = "pages" /\ new.left = days
      /\ new.rows = rows /\ new.keys = fetch[f].keys
  BY <1>3, StateOf DEF FetchState, ReadPage
<1> HIDE DEF new
<1> QED
  BY <1>2, <1>4, <1>5 DEF days, rows, RowsOf

(* A step of SaveKeyMeta, or of the three ends of a loop. *)
LEMMA SavingStep ==
  ASSUME TypeOK, NEW f \in Fetchers,
         SaveKeyMeta(f) \/ AllPagesRead(f) \/ AllKeysSaved(f) \/ AllRowsSaved(f)
  PROVE  \E new : Narrows(f, new)
<1>1. CASE SaveKeyMeta(f)
  <2>1. PICK k \in fetch[f].keys : fetch' = [fetch EXCEPT ![f].keys = @ \ {k}]
    BY <1>1 DEF SaveKeyMeta
  <2> DEFINE new == [fetch[f] EXCEPT !.keys = @ \ {k}]
  <2>2. new \in FetchState /\ new.rows = fetch[f].rows /\ new.left = fetch[f].left
    BY StateOf DEF FetchState
  <2>3. fetch' = [fetch EXCEPT ![f] = new]
    BY <2>1
  <2> HIDE DEF new
  <2> QED
    BY <2>2, <2>3 DEF Narrows
<1>2. CASE AllPagesRead(f) \/ AllKeysSaved(f) \/ AllRowsSaved(f)
  <2>1. PICK pc \in {"keys", "daily", "hint"} : fetch' = [fetch EXCEPT ![f].pc = pc]
    BY <1>2 DEF AllPagesRead, AllKeysSaved, AllRowsSaved
  <2> DEFINE new == [fetch[f] EXCEPT !.pc = pc]
  <2>2. new \in FetchState /\ new.rows = fetch[f].rows /\ new.left = fetch[f].left
    BY StateOf DEF FetchState
  <2>3. fetch' = [fetch EXCEPT ![f] = new]
    BY <2>1
  <2> HIDE DEF new
  <2> QED
    BY <2>2, <2>3 DEF Narrows
<1> QED
  BY <1>1, <1>2

LEMMA SaveDailyStep ==
  ASSUME TypeOK, NEW f \in Fetchers, SaveDailySpend(f)
  PROVE  /\ \E new : Narrows(f, new)
         /\ \E row \in fetch[f].rows : daily' = [daily EXCEPT ![row.key][row.day] = row.usd]
<1>1. PICK row \in fetch[f].rows :
         /\ fetch' = [fetch EXCEPT ![f].rows = @ \ {row}]
         /\ daily' = [daily EXCEPT ![row.key][row.day] = Upsert(@, row.usd)]
  BY DEF SaveDailySpend
<1> DEFINE new == [fetch[f] EXCEPT !.rows = @ \ {row}]
<1>2. new \in FetchState /\ new.rows \subseteq fetch[f].rows /\ new.left = fetch[f].left
  BY StateOf DEF FetchState
<1>3. fetch' = [fetch EXCEPT ![f] = new]
  BY <1>1
<1>4. daily' = [daily EXCEPT ![row.key][row.day] = row.usd]
  BY <1>1 DEF Upsert
<1> HIDE DEF new
<1> QED
  BY <1>2, <1>3, <1>4 DEF Narrows

LEMMA TickSaveFailsStep ==
  ASSUME TypeOK, TickSaveFails
  PROVE  \E new : Narrows(Tick, new)
<1>0. Tick \in Fetchers
  BY DEF Fetchers
<1>1. CASE \E k \in fetch[Tick].keys :
             fetch' = [fetch EXCEPT ![Tick].keys = @ \ {k}]
  <2>1. PICK k \in fetch[Tick].keys :
             fetch' = [fetch EXCEPT ![Tick].keys = @ \ {k}]
    BY <1>1
  <2> DEFINE left == fetch[Tick].keys \ {k}
             new == [fetch[Tick] EXCEPT !.keys = left]
  <2>2. left \in SUBSET Keys
    BY <1>0, StateOf DEF FetchState
  <2>3. fetch' = [fetch EXCEPT ![Tick] = new]
    BY <2>1
  <2> HIDE DEF left
  <2>4. new \in FetchState /\ new.rows = fetch[Tick].rows /\ new.left = fetch[Tick].left
    BY <1>0, <2>2, StateOf DEF FetchState
  <2> HIDE DEF new
  <2> QED
    BY <2>3, <2>4 DEF Narrows
<1>2. CASE \E row \in fetch[Tick].rows :
             fetch' = [fetch EXCEPT ![Tick].rows = @ \ {row}]
  <2>1. PICK row \in fetch[Tick].rows :
             fetch' = [fetch EXCEPT ![Tick].rows = @ \ {row}]
    BY <1>2
  <2> DEFINE left == fetch[Tick].rows \ {row}
             new == [fetch[Tick] EXCEPT !.rows = left]
  <2>2. left \in SUBSET Rows /\ left \subseteq fetch[Tick].rows
    BY <1>0, StateOf DEF FetchState
  <2>3. fetch' = [fetch EXCEPT ![Tick] = new]
    BY <2>1
  <2> HIDE DEF left
  <2>4. new \in FetchState /\ new.rows = left /\ new.left = fetch[Tick].left
    BY <1>0, <2>2, StateOf DEF FetchState
  <2> HIDE DEF new
  <2> QED
    BY <2>2, <2>3, <2>4 DEF Narrows
<1> QED
  BY <1>1, <1>2 DEF TickSaveFails

LEMMA EndingStep ==
  ASSUME TypeOK, NEW f \in Fetchers, FetchFails(f) \/ PostSaveFails(f) \/ SaveAdminHint(f)
  PROVE  Narrows(f, NotFetching)
BY IdleType DEF FetchFails, PostSaveFails, SaveAdminHint, Narrows

-----------------------------------------------------------------------------
(* The types of a fetcher's state and of everything else, apart. *)

LEMMA NarrowsType ==
  ASSUME TypeOK, NEW f \in Fetchers, NEW new, Narrows(f, new)
  PROVE  fetch' \in [Fetchers -> FetchState]
BY DEF TypeOK, FetchState, Narrows

LEMMA RestType ==
  ASSUME TypeOK, fetch' \in [Fetchers -> FetchState], UNCHANGED world, reading' \subseteq Gets,
         metas' \subseteq Keys, daily' \in [Keys -> [Days -> 0 .. MaxCost]], hint' \in 0 .. MaxAdmin
  PROVE  TypeOK'
BY DEF TypeOK, FetchState, world, Days, Rows

LEMMA WorldType ==
  ASSUME TypeOK, World
  PROVE  TypeOK'
<1>1. CASE NextDay
  BY <1>1, SpendAssumption DEF NextDay, TypeOK, SpendAssumption, Days, Rows, store
<1>2. ASSUME NEW k \in Keys, CreateKey(k) PROVE TypeOK'
  BY <1>2 DEF CreateKey, TypeOK, store
<1>3. ASSUME NEW k \in Keys, NEW d \in Days, Use(k, d) PROVE TypeOK'
  <2>1. cost[k][d] + 1 \in 0 .. MaxCost
    BY <1>3, SpendAssumption DEF Use, TypeOK, SpendAssumption
  <2>2. cost' \in [Keys -> [Days -> 0 .. MaxCost]]
    BY <1>3, <2>1 DEF Use, TypeOK
  <2> QED
    BY <1>3, <2>2 DEF Use, TypeOK, store
<1>4. CASE RotateAdminKey
  BY <1>4, SpendAssumption DEF RotateAdminKey, TypeOK, SpendAssumption, store
<1>5. CASE FaultsEnd
  BY <1>5 DEF FaultsEnd, TypeOK, store
<1> QED
  BY <1>1, <1>2, <1>3, <1>4, <1>5 DEF World

LEMMA InitType == Init => TypeOK
<1> SUFFICES ASSUME Init PROVE TypeOK
  OBVIOUS
<1>1. 1 \in Days /\ 0 \in 0 .. MaxCost /\ 1 \in 1 .. MaxAdmin /\ 0 \in 0 .. MaxAdmin
  BY SpendAssumption DEF SpendAssumption, Days
<1>2. fetch \in [Fetchers -> FetchState]
  BY IdleType DEF Init
<1> QED
  BY <1>1, <1>2 DEF Init, TypeOK, FetchState

LEMMA NextType == TypeOK /\ [Next]_vars => TypeOK'
<1> SUFFICES ASSUME TypeOK, [Next]_vars PROVE TypeOK'
  OBVIOUS
<1> DEFINE Quiet == UNCHANGED <<world, store, hint, reading>>
<1>1. ASSUME NEW f \in Fetchers, NEW new, Narrows(f, new), Quiet PROVE TypeOK'
  BY <1>1, NarrowsType, RestType DEF TypeOK, store
<1>2. CASE World
  BY <1>2, WorldType
<1>3. ASSUME NEW f \in Fetchers, ResolveHint(f) PROVE TypeOK'
  BY <1>3, <1>1, ResolveHintStep DEF ResolveHint
<1>4. ASSUME NEW f \in Fetchers, FetchFails(f) \/ PostSaveFails(f) PROVE TypeOK'
  BY <1>4, <1>1, EndingStep DEF FetchFails, PostSaveFails
<1>5. ASSUME NEW f \in Fetchers, ListKeys(f) PROVE TypeOK'
  BY <1>5, <1>1, ListKeysStep DEF ListKeys
<1>15. ASSUME NEW f \in Fetchers, CutWindow(f) PROVE TypeOK'
  BY <1>15, <1>1, CutWindowStep DEF CutWindow
<1>6. ASSUME NEW f \in Fetchers, ReadPage(f) PROVE TypeOK'
  <2>1. PICK new \in FetchState : fetch' = [fetch EXCEPT ![f] = new]
    BY <1>6, ReadPageStep
  <2>2. fetch' \in [Fetchers -> FetchState]
    BY <2>1 DEF TypeOK, FetchState
  <2> QED
    BY <1>6, <2>2, RestType DEF ReadPage, TypeOK, store
<1>7. ASSUME NEW f \in Fetchers, SaveKeyMeta(f) PROVE TypeOK'
  <2>1. metas' \subseteq Keys
    BY <1>7, StateOf DEF SaveKeyMeta, TypeOK, FetchState
  <2>2. PICK new : Narrows(f, new)
    BY <1>7, SavingStep
  <2> QED
    BY <1>7, <2>1, <2>2, NarrowsType, RestType DEF SaveKeyMeta, TypeOK
<1>8. ASSUME NEW f \in Fetchers,
             AllPagesRead(f) \/ AllKeysSaved(f) \/ AllRowsSaved(f)
      PROVE  TypeOK'
  BY <1>8, <1>1, SavingStep DEF AllPagesRead, AllKeysSaved, AllRowsSaved
<1>9. ASSUME NEW f \in Fetchers, SaveDailySpend(f) PROVE TypeOK'
  <2>1. PICK new : Narrows(f, new)
    BY <1>9, SaveDailyStep
  <2>2. PICK row \in fetch[f].rows : daily' = [daily EXCEPT ![row.key][row.day] = row.usd]
    BY <1>9, SaveDailyStep
  <2>3. row \in Rows
    BY StateOf DEF FetchState
  <2>4. daily' \in [Keys -> [Days -> 0 .. MaxCost]]
    BY <2>2, <2>3 DEF TypeOK, Rows
  <2> QED
    BY <1>9, <2>1, <2>4, NarrowsType, RestType DEF SaveDailySpend, TypeOK
<1>10. CASE TickSaveFails
  <2>1. PICK new : Narrows(Tick, new)
    BY <1>10, TickSaveFailsStep
  <2> QED
    BY <1>1, <1>10, <2>1 DEF TickSaveFails, Fetchers
<1>11. ASSUME NEW f \in Fetchers, SaveAdminHint(f) PROVE TypeOK'
  <2>1. hint' \in 0 .. MaxAdmin
    BY <1>11, StateOf DEF SaveAdminHint, FetchState
  <2> QED
    BY <1>11, <2>1, EndingStep, NarrowsType, RestType DEF SaveAdminHint, TypeOK, store
<1>12. ASSUME NEW g \in Gets, ReadHint(g) PROVE TypeOK'
  BY <1>12 DEF ReadHint, TypeOK, world, store
<1>16. CASE Restart
  <2>1. fetch' \in [Fetchers -> FetchState]
    BY <1>16, IdleType DEF Restart
  <2>2. UNCHANGED <<world, store>> /\ reading' = {} /\ hint' \in 0 .. MaxAdmin
    BY <1>16, SpendAssumption DEF Restart, SpendAssumption
  <2>3. metas' \subseteq Keys /\ daily' \in [Keys -> [Days -> 0 .. MaxCost]]
    BY <2>2 DEF TypeOK, store
  <2> QED
    BY <2>1, <2>2, <2>3, RestType
<1>13. CASE UNCHANGED vars
  BY <1>13 DEF vars, TypeOK, store
<1>14. \A f \in Posts : f \in Fetchers
  BY DEF Fetchers
<1> QED
  BY <1>2, <1>3, <1>4, <1>5, <1>6, <1>7, <1>8, <1>9, <1>10, <1>11, <1>12, <1>13, <1>14,
     <1>15, <1>16
  DEF Next, Progress

(* Type correctness of SpendRefresh. *)
THEOREM TypeCorrect == Spec => []TypeOK
BY InitType, NextType, PTL DEF Spec

-----------------------------------------------------------------------------
(* The rows a refresh still has to store are no more than the provider     *)
(* says, about days that are over: so they are when it reads them, and     *)
(* neither a day's cost nor the day goes back while it stores them.        *)
RowsHonest ==
  \A f \in Fetchers : \A row \in fetch[f].rows :
    row.usd <= cost[row.key][row.day] /\ row.day < today

\* So are the days it still has to read.
LeftOver == \A f \in Fetchers : \A d \in fetch[f].left : d < today

Honest == NeverOverstated /\ OnlyPastDays /\ RowsHonest /\ LeftOver

LEMMA HonestInit == Init => Honest
BY IdleType DEF Init, Honest, NeverOverstated, OnlyPastDays, RowsHonest, LeftOver

LEMMA HonestNext == TypeOK /\ Honest /\ [Next]_vars => Honest'
<1> SUFFICES ASSUME TypeOK, Honest, [Next]_vars PROVE Honest'
  OBVIOUS
<1>1. ASSUME UNCHANGED <<fetch, daily>>, today' >= today, today' \in Nat,
             cost' \in [Keys -> [Days -> 0 .. MaxCost]],
             \A k \in Keys, d \in Days : cost'[k][d] >= cost[k][d]
      PROVE  Honest'
  <2>0. today \in Nat /\ \A d \in Days : d \in Nat
    BY DEF TypeOK, Days
  <2>1. \A f \in Fetchers : \A row \in fetch[f].rows : row \in Rows
    BY StateOf DEF FetchState
  <2>2. NeverOverstated'
    <3> SUFFICES ASSUME NEW k \in Keys, NEW d \in Days PROVE daily[k][d] <= cost'[k][d]
      BY <1>1 DEF NeverOverstated
    <3>1. daily[k][d] \in Int /\ cost[k][d] \in Int /\ cost'[k][d] \in Int
      BY <1>1 DEF TypeOK
    <3> QED
      BY <1>1, <3>1 DEF Honest, NeverOverstated
  <2>3. OnlyPastDays'
    BY <1>1, <2>0 DEF Honest, OnlyPastDays
  <2>4. RowsHonest'
    <3> SUFFICES ASSUME NEW f \in Fetchers, NEW row \in fetch[f].rows
                 PROVE  row.usd <= cost'[row.key][row.day] /\ row.day < today'
      BY <1>1 DEF RowsHonest
    <3>1. row.key \in Keys /\ row.day \in Days /\ row.usd \in Int
      BY <2>1 DEF Rows
    <3>2. cost[row.key][row.day] \in Int /\ cost'[row.key][row.day] \in Int
      BY <1>1, <3>1 DEF TypeOK
    <3> QED
      BY <1>1, <2>0, <3>1, <3>2 DEF Honest, RowsHonest
  <2>5. LeftOver'
    <3>1. \A f \in Fetchers : \A d \in fetch[f].left : d \in Nat
      BY <2>0, StateOf DEF FetchState
    <3> QED
      BY <1>1, <2>0, <3>1 DEF Honest, LeftOver
  <2> QED
    BY <2>2, <2>3, <2>4, <2>5 DEF Honest
<1>2. ASSUME NEW f \in Fetchers, NEW new, Narrows(f, new), UNCHANGED <<world, daily>>
      PROVE  Honest'
  <2>1. NeverOverstated' /\ OnlyPastDays' /\ RowsHonest'
    BY <1>2 DEF Honest, NeverOverstated, OnlyPastDays, RowsHonest, Narrows, world, TypeOK
  <2>2. LeftOver'
    BY <1>2 DEF Honest, LeftOver, Narrows, world, TypeOK
  <2> QED
    BY <2>1, <2>2 DEF Honest
<1>3. CASE World
  <2>1. ASSUME NEW k \in Keys, NEW d \in Days, Use(k, d) PROVE Honest'
    <3>1. cost[k][d] + 1 \in 0 .. MaxCost
      BY <2>1, SpendAssumption DEF Use, TypeOK, SpendAssumption
    <3>2. /\ cost' \in [Keys -> [Days -> 0 .. MaxCost]]
          /\ \A j \in Keys, e \in Days : cost'[j][e] >= cost[j][e]
      BY <2>1, <3>1 DEF Use, TypeOK
    <3> QED
      BY <1>1, <2>1, <3>2 DEF Use, store, TypeOK, Days
  <2>2. CASE NextDay
    <3>1. UNCHANGED <<fetch, daily, cost>> /\ today' = today + 1
      BY <2>2 DEF NextDay, store
    <3>2. today \in Nat /\ cost \in [Keys -> [Days -> 0 .. MaxCost]]
      BY DEF TypeOK, Days
    <3>3. \A k \in Keys, d \in Days : cost[k][d] >= cost[k][d]
      BY <3>2
    <3> QED
      BY <1>1, <3>1, <3>2, <3>3
  <2>3. ASSUME UNCHANGED <<fetch, daily, today, cost>> PROVE Honest'
    BY <2>3 DEF Honest, NeverOverstated, OnlyPastDays, RowsHonest, LeftOver
  <2>4. CASE RotateAdminKey \/ FaultsEnd \/ \E k \in Keys : CreateKey(k)
    BY <2>3, <2>4 DEF RotateAdminKey, FaultsEnd, CreateKey, store
  <2> QED
    BY <1>3, <2>1, <2>2, <2>4 DEF World
<1>4. ASSUME NEW f \in Fetchers, ResolveHint(f) PROVE Honest'
  BY <1>2, <1>4, ResolveHintStep DEF ResolveHint, store
<1>5. ASSUME NEW f \in Fetchers, FetchFails(f) \/ PostSaveFails(f) \/ SaveAdminHint(f) PROVE Honest'
  BY <1>2, <1>5, EndingStep DEF FetchFails, PostSaveFails, SaveAdminHint, store
<1>6. ASSUME NEW f \in Fetchers, ListKeys(f) PROVE Honest'
  BY <1>2, <1>6, ListKeysStep DEF ListKeys, store
<1>14. ASSUME NEW f \in Fetchers, CutWindow(f) PROVE Honest'
  BY <1>2, <1>14, CutWindowStep DEF CutWindow, store
<1>7. ASSUME NEW f \in Fetchers, ReadPage(f) PROVE Honest'
  <2>1. PICK d \in fetch[f].left, page \in SUBSET Rows, new \in FetchState :
          /\ fetch' = [fetch EXCEPT ![f] = new]
          /\ page \subseteq RowsOf(d) /\ Priced(RowsOf(d)) \subseteq page
          /\ new.pc = "pages" /\ new.left = fetch[f].left \ {d}
          /\ new.rows = fetch[f].rows \cup page /\ new.keys = fetch[f].keys
    BY <1>7, ReadPageStep
  <2>2. \A row \in page : row.usd <= cost[row.key][row.day] /\ row.day < today
    <3> SUFFICES ASSUME NEW row \in page
                 PROVE  row.usd <= cost[row.key][row.day] /\ row.day < today
      OBVIOUS
    <3>1. row.usd \in Int /\ row.day = d /\ row.usd = cost[row.key][d]
      BY <2>1 DEF RowsOf, Rows
    <3>2. d < today
      BY DEF Honest, LeftOver
    <3> QED
      BY <3>1, <3>2
  <2>3. UNCHANGED <<today, cost, daily>>
    BY <1>7 DEF ReadPage, world, store
  <2>4. RowsHonest'
    BY <2>1, <2>2, <2>3 DEF Honest, RowsHonest, TypeOK
  <2>5. LeftOver'
    BY <2>1, <2>3 DEF Honest, LeftOver, TypeOK
  <2> QED
    BY <2>3, <2>4, <2>5 DEF Honest, NeverOverstated, OnlyPastDays
<1>8. ASSUME NEW f \in Fetchers,
             \/ SaveKeyMeta(f) \/ AllPagesRead(f) \/ AllKeysSaved(f) \/ AllRowsSaved(f)
      PROVE  Honest'
  BY <1>2, <1>8, SavingStep DEF SaveKeyMeta, AllPagesRead, AllKeysSaved, AllRowsSaved, store
<1>9. ASSUME NEW f \in Fetchers, SaveDailySpend(f) PROVE Honest'
  <2>1. PICK new : Narrows(f, new)
    BY <1>9, SaveDailyStep
  <2>2. PICK row \in fetch[f].rows : daily' = [daily EXCEPT ![row.key][row.day] = row.usd]
    BY <1>9, SaveDailyStep
  <2>3. row.key \in Keys /\ row.day \in Days /\ row.usd \in 0 .. MaxCost
    BY StateOf DEF FetchState, Rows
  <2>4. row.usd <= cost[row.key][row.day] /\ row.day < today
    BY DEF Honest, RowsHonest
  <2>5. UNCHANGED world
    BY <1>9 DEF SaveDailySpend
  <2>6. NeverOverstated' /\ OnlyPastDays'
    BY <2>2, <2>3, <2>4, <2>5 DEF Honest, NeverOverstated, OnlyPastDays, world, TypeOK
  <2>7. RowsHonest'
    BY <2>1, <2>5 DEF Honest, RowsHonest, Narrows, world, TypeOK
  <2>8. LeftOver'
    BY <2>1, <2>5 DEF Honest, LeftOver, Narrows, world, TypeOK
  <2> QED
    BY <2>6, <2>7, <2>8 DEF Honest
<1>10. CASE TickSaveFails
  BY <1>2, <1>10, TickSaveFailsStep DEF TickSaveFails, Fetchers, store
<1>11. ASSUME NEW g \in Gets, ReadHint(g) PROVE Honest'
  BY <1>11 DEF ReadHint, world, store, Honest, NeverOverstated, OnlyPastDays, RowsHonest,
                        LeftOver
<1>12. CASE UNCHANGED vars
  BY <1>12 DEF vars, store, Honest, NeverOverstated, OnlyPastDays, RowsHonest,
                        LeftOver
<1>13. \A f \in Posts : f \in Fetchers
  BY DEF Fetchers
<1>15. CASE Restart
  BY <1>15, IdleType DEF Restart, world, store, Honest, NeverOverstated, OnlyPastDays,
                         RowsHonest, LeftOver
<1> QED
  BY <1>3, <1>4, <1>5, <1>6, <1>7, <1>8, <1>9, <1>10, <1>11, <1>12, <1>13, <1>14, <1>15
  DEF Next, Progress

(* However refreshes overlap, fail and are repeated, no stored total is    *)
(* more than the provider reports for its key and day: NeverOverstated.    *)
THEOREM SpendNeverOverstated == Spec => []NeverOverstated
<1>1. Honest => NeverOverstated
  BY DEF Honest
<1> QED
  BY <1>1, HonestInit, HonestNext, TypeCorrect, PTL DEF Spec

(* No total is stored for the day in progress: OnlyPastDays.               *)
THEOREM StoredDaysAreOver == Spec => []OnlyPastDays
<1>1. Honest => OnlyPastDays
  BY DEF Honest
<1> QED
  BY <1>1, HonestInit, HonestNext, TypeCorrect, PTL DEF Spec

-----------------------------------------------------------------------------
(* A request skips nothing: it leaves the keys behind only when all are    *)
(* saved, and the rows likewise.                                           *)
Whole(state) ==
  /\ state.pc \in {"daily", "hint"} => state.keys = {}
  /\ state.pc = "hint" => state.rows = {}

PostsWhole == \A f \in Posts : Whole(fetch[f])

LEMMA IdleWhole == Whole(NotFetching)
BY DEF Whole, NotFetching

LEMMA StepWhole ==
  ASSUME TypeOK, PostsWhole, NEW f \in Fetchers, NEW new,
         fetch' = [fetch EXCEPT ![f] = new],
         f \in Posts => Whole(new)
  PROVE  PostsWhole'
<1> SUFFICES ASSUME NEW g \in Posts PROVE Whole(fetch'[g])
  BY DEF PostsWhole, Whole
<1>1. g \in Fetchers /\ fetch \in [Fetchers -> FetchState]
  BY DEF Fetchers, TypeOK, FetchState
<1>2. CASE g = f
  BY <1>1, <1>2
<1>3. CASE g # f
  BY <1>1, <1>3 DEF PostsWhole
<1> QED
  BY <1>2, <1>3

LEMMA WholeNext == TypeOK /\ PostsWhole /\ [Next]_vars => PostsWhole'
<1> SUFFICES ASSUME TypeOK, PostsWhole, [Next]_vars PROVE PostsWhole'
  OBVIOUS
<1>1. ASSUME NEW f \in Fetchers, ResolveHint(f) PROVE PostsWhole'
  <2> DEFINE new == [NotFetching EXCEPT !.pc = "list", !.hint = adminKey]
  <2>1. Whole(new)
    BY DEF Whole, NotFetching
  <2>2. fetch' = [fetch EXCEPT ![f] = new]
    BY <1>1 DEF ResolveHint
  <2> QED
    BY <2>1, <2>2, StepWhole
<1>2. ASSUME NEW f \in Fetchers, FetchFails(f) \/ PostSaveFails(f) \/ SaveAdminHint(f)
      PROVE  PostsWhole'
  <2>1. fetch' = [fetch EXCEPT ![f] = NotFetching]
    BY <1>2 DEF FetchFails, PostSaveFails, SaveAdminHint
  <2> QED
    BY <2>1, IdleWhole, StepWhole
<1>3. ASSUME NEW f \in Fetchers, NEW new, fetch' = [fetch EXCEPT ![f] = new],
             new.pc \in {"daily", "hint"} => new.keys = {},
             new.pc = "hint" => new.rows = {}
      PROVE  PostsWhole'
  <2>1. f \in Posts => Whole(new)
    BY <1>3 DEF PostsWhole, Whole
  <2> QED
    BY <1>3, <2>1, StepWhole
<1>4. ASSUME NEW f \in Fetchers, ListKeys(f) PROVE PostsWhole'
  <2> DEFINE new == [fetch[f] EXCEPT !.pc = "usage", !.keys = orgKeys]
  <2>1. new.pc = "usage"
    BY StateOf DEF FetchState
  <2>2. fetch' = [fetch EXCEPT ![f] = new]
    BY <1>4 DEF ListKeys
  <2> HIDE DEF new
  <2> QED
    BY <1>3, <2>1, <2>2
<1>13. ASSUME NEW f \in Fetchers, CutWindow(f) PROVE PostsWhole'
  <2> DEFINE window == {d \in Days : InWindow(d)}
             new == [fetch[f] EXCEPT !.pc = "pages", !.rows = {}, !.left = window]
  <2>1. fetch' = [fetch EXCEPT ![f] = new]
    BY <1>13 DEF CutWindow
  <2> HIDE DEF window
  <2>2. new.pc = "pages"
    BY StateOf DEF FetchState
  <2> HIDE DEF new
  <2> QED
    BY <1>3, <2>1, <2>2
<1>5. ASSUME NEW f \in Fetchers, ReadPage(f) PROVE PostsWhole'
  <2>1. PICK days, rows : fetch' = [fetch EXCEPT ![f] = [@ EXCEPT !.left = days, !.rows = rows]]
    BY <1>5 DEF ReadPage
  <2> DEFINE new == [fetch[f] EXCEPT !.left = days, !.rows = rows]
  <2>2. fetch' = [fetch EXCEPT ![f] = new]
    BY <2>1
  <2>3. new.pc = "pages"
    BY <1>5, StateOf DEF FetchState, ReadPage
  <2> HIDE DEF new
  <2> QED
    BY <1>3, <2>2, <2>3
<1>6. ASSUME NEW f \in Fetchers, SaveKeyMeta(f) PROVE PostsWhole'
  <2>1. PICK k \in fetch[f].keys : fetch' = [fetch EXCEPT ![f].keys = @ \ {k}]
    BY <1>6 DEF SaveKeyMeta
  <2> DEFINE new == [fetch[f] EXCEPT !.keys = @ \ {k}]
  <2>2. new.pc = "keys"
    BY <1>6, StateOf DEF FetchState, SaveKeyMeta
  <2>3. fetch' = [fetch EXCEPT ![f] = new]
    BY <2>1
  <2> HIDE DEF new
  <2> QED
    BY <1>3, <2>2, <2>3
<1>7. ASSUME NEW f \in Fetchers, SaveDailySpend(f) PROVE PostsWhole'
  <2>1. PICK row \in fetch[f].rows : fetch' = [fetch EXCEPT ![f].rows = @ \ {row}]
    BY <1>7 DEF SaveDailySpend
  <2> DEFINE new == [fetch[f] EXCEPT !.rows = @ \ {row}]
  <2>2. new.pc = "daily" /\ new.keys = fetch[f].keys
    BY <1>7, StateOf DEF FetchState, SaveDailySpend
  <2>3. fetch' = [fetch EXCEPT ![f] = new]
    BY <2>1
  <2>4. f \in Posts => Whole(new)
    BY <1>7, <2>2 DEF PostsWhole, Whole, SaveDailySpend
  <2> HIDE DEF new
  <2> QED
    BY <2>3, <2>4, StepWhole
<1>8. ASSUME NEW f \in Fetchers,
             AllPagesRead(f) \/ AllKeysSaved(f) \/ AllRowsSaved(f)
      PROVE  PostsWhole'
  <2>1. PICK pc \in {"keys", "daily", "hint"} :
          /\ fetch' = [fetch EXCEPT ![f].pc = pc]
          /\ \/ fetch[f].pc = "pages" /\ pc = "keys"
             \/ fetch[f].pc = "keys" /\ fetch[f].keys = {} /\ pc = "daily"
             \/ fetch[f].pc = "daily" /\ fetch[f].rows = {} /\ pc = "hint"
    BY <1>8 DEF AllPagesRead, AllKeysSaved, AllRowsSaved
  <2> DEFINE new == [fetch[f] EXCEPT !.pc = pc]
  <2>2. /\ new.pc = pc
        /\ new.keys = fetch[f].keys /\ new.rows = fetch[f].rows
    BY StateOf DEF FetchState
  <2>3. fetch' = [fetch EXCEPT ![f] = new]
    BY <2>1
  <2> HIDE DEF new
  <2>4. f \in Posts => Whole(new)
    BY <2>1, <2>2 DEF PostsWhole, Whole
  <2> QED
    BY <2>3, <2>4, StepWhole
<1>9. CASE TickSaveFails
  <2>1. PICK new : fetch' = [fetch EXCEPT ![Tick] = new]
    BY <1>9 DEF TickSaveFails
  <2>2. Tick \in Fetchers /\ Tick \notin Posts
    BY SpendAssumption DEF Fetchers
  <2> QED
    BY <2>1, <2>2, StepWhole
<1>10. ASSUME UNCHANGED fetch PROVE PostsWhole'
  BY <1>10 DEF PostsWhole, Whole
<1>11. CASE World \/ (\E g \in Gets : ReadHint(g)) \/ UNCHANGED vars
  BY <1>10, <1>11 DEF World, NextDay, CreateKey, Use, RotateAdminKey, FaultsEnd, ReadHint, vars
<1>12. \A f \in Posts : f \in Fetchers
  BY DEF Fetchers
<1>14. CASE Restart
  BY <1>14, <1>12, IdleWhole DEF Restart, PostsWhole, Whole
<1> QED
  BY <1>1, <1>2, <1>4, <1>5, <1>6, <1>7, <1>8, <1>9, <1>11, <1>12, <1>13, <1>14
  DEF Next, Progress

(* What a step of a request drops it has stored. *)
Stored(f) ==
  /\ \A k \in fetch[f].keys \ fetch'[f].keys : k \in metas'
  /\ \A row \in fetch[f].rows \ fetch'[f].rows : daily'[row.key][row.day] = row.usd

LEMMA PostStep ==
  ASSUME TypeOK, PostsWhole, PostsWhole', [Next]_vars, NEW f \in Posts,
         fetch[f].pc \in {"keys", "daily"}, fetch'[f].pc \in {"keys", "daily", "hint"}
  PROVE  Stored(f) /\ (fetch'[f].pc = "hint" => fetch'[f].keys = {} /\ fetch'[f].rows = {})
<1>0. f \in Fetchers /\ f # Tick /\ fetch \in [Fetchers -> FetchState] /\ NotFetching.pc = "idle"
  BY SpendAssumption DEF SpendAssumption, Fetchers, TypeOK, FetchState, NotFetching
<1>1. fetch'[f].pc = "hint" => fetch'[f].keys = {} /\ fetch'[f].rows = {}
  BY DEF PostsWhole, Whole
<1>2. ASSUME fetch'[f].keys = fetch[f].keys, fetch'[f].rows = fetch[f].rows PROVE Stored(f)
  BY <1>2 DEF Stored
<1>3. ASSUME NEW g \in Fetchers, g # f, NEW new, fetch' = [fetch EXCEPT ![g] = new] PROVE Stored(f)
  BY <1>0, <1>2, <1>3
<1>4. ASSUME NEW g \in Fetchers, ResolveHint(g) \/ FetchFails(g) \/ PostSaveFails(g) \/ SaveAdminHint(g)
      PROVE  Stored(f)
  <2>1. PICK new : fetch' = [fetch EXCEPT ![g] = new] /\ new.pc \in {"idle", "list"}
    BY <1>0, <1>4 DEF ResolveHint, FetchFails, PostSaveFails, SaveAdminHint, NotFetching
  <2> QED
    BY <1>0, <1>3, <2>1
<1>5. ASSUME NEW g \in Fetchers, ListKeys(g) \/ CutWindow(g) \/ ReadPage(g) PROVE Stored(f)
  <2>1. (\E new : fetch' = [fetch EXCEPT ![g] = new]) /\ fetch[g].pc \in {"list", "usage", "pages"}
    BY <1>5 DEF ListKeys, CutWindow, ReadPage
  <2> QED
    BY <1>0, <1>3, <2>1
<1>6. ASSUME NEW g \in Fetchers, AllPagesRead(g) \/ AllKeysSaved(g) \/ AllRowsSaved(g) PROVE Stored(f)
  <2>1. PICK pc : fetch' = [fetch EXCEPT ![g].pc = pc]
    BY <1>6 DEF AllPagesRead, AllKeysSaved, AllRowsSaved
  <2>2. fetch'[f].keys = fetch[f].keys /\ fetch'[f].rows = fetch[f].rows
    BY <1>0, <2>1 DEF FetchState
  <2> QED
    BY <1>2, <2>2
<1>7. ASSUME NEW g \in Fetchers, SaveKeyMeta(g) PROVE Stored(f)
  <2>1. PICK k \in fetch[g].keys : /\ fetch' = [fetch EXCEPT ![g].keys = @ \ {k}]
                                  /\ metas' = metas \cup {k}
    BY <1>7 DEF SaveKeyMeta
  <2>2. fetch'[f].rows = fetch[f].rows /\ fetch[f].keys \ {k} \subseteq fetch'[f].keys
    BY <1>0, <2>1 DEF FetchState
  <2> QED
    BY <2>1, <2>2 DEF Stored
<1>8. ASSUME NEW g \in Fetchers, SaveDailySpend(g) PROVE Stored(f)
  <2>1. PICK row \in fetch[g].rows :
          /\ fetch' = [fetch EXCEPT ![g].rows = @ \ {row}]
          /\ daily' = [daily EXCEPT ![row.key][row.day] = row.usd]
    BY <1>8 DEF SaveDailySpend, Upsert
  <2>2. fetch'[f].keys = fetch[f].keys /\ fetch[f].rows \ {row} \subseteq fetch'[f].rows
    BY <1>0, <2>1 DEF FetchState
  <2>3. row.key \in Keys /\ row.day \in Days
    BY StateOf DEF FetchState, Rows
  <2>4. daily'[row.key][row.day] = row.usd
    BY <2>1, <2>3 DEF TypeOK
  <2> QED
    BY <2>2, <2>4 DEF Stored
<1>9. CASE TickSaveFails
  <2>1. PICK new : fetch' = [fetch EXCEPT ![Tick] = new]
    BY <1>9 DEF TickSaveFails
  <2> QED
    BY <1>0, <1>3, <2>1 DEF Fetchers
<1>10. CASE Restart
  BY <1>0, <1>10 DEF Restart
<1>11. CASE World \/ (\E g \in Gets : ReadHint(g)) \/ UNCHANGED vars
  BY <1>2, <1>11 DEF World, NextDay, CreateKey, Use, RotateAdminKey, FaultsEnd, ReadHint, vars
<1>12. Stored(f)
  <2>1. \A g \in Posts : g \in Fetchers
    BY DEF Fetchers
  <2>2. ASSUME NEW g \in Fetchers, Progress(g) PROVE Stored(f)
    BY <1>4, <1>5, <1>6, <1>7, <1>8, <2>2 DEF Progress
  <2> QED
    BY <1>4, <1>9, <1>10, <1>11, <2>1, <2>2 DEF Next
<1> QED
  BY <1>1, <1>12

(* A request that goes on after a save, and so may come to answer 200, has *)
(* what it saved in the store, and it comes to the hint with nothing left: *)
(* OkMeansSaved.                                                           *)
THEOREM OkMeansAllSaved == Spec => OkMeansSaved
<1>1. Init => PostsWhole
  BY IdleWhole DEF Init, PostsWhole, Fetchers
<1> DEFINE Step ==
      \A f \in Posts :
        fetch[f].pc \in {"keys", "daily"} /\ fetch'[f].pc \in {"keys", "daily", "hint"} =>
          /\ \A k \in fetch[f].keys \ fetch'[f].keys : k \in metas'
          /\ \A row \in fetch[f].rows \ fetch'[f].rows : daily'[row.key][row.day] = row.usd
          /\ fetch'[f].pc = "hint" => fetch'[f].keys = {} /\ fetch'[f].rows = {}
<1>2. TypeOK /\ PostsWhole /\ PostsWhole' /\ [Next]_vars => [Step]_vars
  BY PostStep DEF Stored
<1> HIDE DEF Step
<1>3. ([][Step]_vars) => OkMeansSaved
  BY PTL DEF Step, OkMeansSaved
<1> QED
  BY <1>1, <1>2, <1>3, WholeNext, TypeCorrect, PTL DEF Spec

-----------------------------------------------------------------------------
(* The refreshes are an environment SpendReport allows for. *)

books == <<today, metas, daily>>

LEMMA BooksInit == Init => Books!Init
BY DEF Init, Books!Init, Books!NotAsked, Books!NoSpend, Books!NoHistory, Books!WindowNames,
       NoWindows, Days, Books!Days

(* Only three actions of a refresh, or of the world, touch the books. *)
LEMMA BooksNext ==
  ASSUME TypeOK, Honest, [Next]_vars
  PROVE  [Books!Next]_books
<1>1. CASE NextDay
  <2>1. Books!NextDay
    BY <1>1 DEF NextDay, Books!NextDay, store
  <2> QED
    BY <2>1 DEF Books!Next
<1>2. ASSUME NEW f \in Fetchers, SaveKeyMeta(f) PROVE Books!Next
  <2>1. PICK k \in fetch[f].keys : metas' = metas \cup {k}
    BY <1>2 DEF SaveKeyMeta
  <2>2. k \in Keys
    BY StateOf DEF FetchState
  <2>3. Books!SaveKeyMeta(k)
    BY <1>2, <2>1 DEF SaveKeyMeta, Books!SaveKeyMeta, world
  <2> QED
    BY <2>2, <2>3 DEF Books!Next
<1>3. ASSUME NEW f \in Fetchers, SaveDailySpend(f) PROVE Books!Next
  <2>1. PICK row \in fetch[f].rows : daily' = [daily EXCEPT ![row.key][row.day] = row.usd]
    BY <1>3, SaveDailyStep
  <2>2. row.key \in Keys /\ row.day \in Days /\ row.usd \in 0 .. MaxCost
    BY StateOf DEF FetchState, Rows
  <2>3. row.day < today
    BY DEF Honest, RowsHonest
  <2>4. /\ {} = IF row.usd < daily[row.key][row.day] THEN {} \cup Books!Between ELSE {}
        /\ UNCHANGED <<today, metas>>
    BY <1>3 DEF SaveDailySpend, Books!Between, world
  <2>5. Books!SaveDailySpend(row.key, row.day, row.usd)
    BY <2>1, <2>3, <2>4 DEF Books!SaveDailySpend
  <2> QED
    BY <2>2, <2>5 DEF Books!Next, Days, Books!Days
<1>4. CASE \/ \E k \in Keys : CreateKey(k) \/ \E d \in Days : Use(k, d)
           \/ RotateAdminKey \/ FaultsEnd
  BY <1>4 DEF CreateKey, Use, RotateAdminKey, FaultsEnd, books, store
<1>5. ASSUME NEW f \in Fetchers,
             \/ ResolveHint(f) \/ FetchFails(f) \/ PostSaveFails(f) \/ ListKeys(f)
             \/ CutWindow(f) \/ ReadPage(f) \/ AllPagesRead(f) \/ AllKeysSaved(f)
             \/ AllRowsSaved(f) \/ SaveAdminHint(f)
      PROVE  UNCHANGED books
  BY <1>5 DEF ResolveHint, FetchFails, PostSaveFails, ListKeys, CutWindow, ReadPage,
              AllPagesRead, AllKeysSaved, AllRowsSaved, SaveAdminHint, books, store, world
<1>6. CASE TickSaveFails \/ Restart \/ (\E g \in Gets : ReadHint(g)) \/ UNCHANGED vars
  BY <1>6 DEF TickSaveFails, Restart, ReadHint, vars, books, store, world
<1>7. \A f \in Posts : f \in Fetchers
  BY DEF Fetchers
<1> QED
  BY <1>1, <1>2, <1>3, <1>4, <1>5, <1>6, <1>7 DEF Next, World, Progress

(* Ticks and requests change spend_keys and spend_daily only in the steps  *)
(* the report of SpendReport allows for: WritesAsReportAssumes.            *)
THEOREM ReportAssumptionMet == Spec => WritesAsReportAssumes
<1> USE DEF books
<1> QED
  BY BooksInit, BooksNext, HonestInit, HonestNext, TypeCorrect, PTL
  DEF Spec, WritesAsReportAssumes

-----------------------------------------------------------------------------
(* What ReportCatchesUp rests on: when the world is quiet, one refresh     *)
(* puts the books right, and no other refresh puts them wrong again unless *)
(* it holds rows from before.                                              *)

\* No call fails any more, and nothing outside changes in this step.
QuietStep == healthy /\ UNCHANGED world

\* The rows a refresh still has to store are what the provider says now.
Current(f) == \A row \in fetch[f].rows : row.usd = cost[row.key][row.day]

RowsCurrent == \A f \in Fetchers : Current(f)

\* A refresh on its way to put the books right: what is missing, it holds
\* or has still to read.
CatchingUp(f) ==
  /\ fetch[f].pc \in {"usage", "pages", "keys", "daily"}
  /\ orgKeys \subseteq metas \cup fetch[f].keys
  /\ fetch[f].pc = "daily" => fetch[f].keys = {}
  /\ fetch[f].pc # "usage" =>
       \A k \in Keys, d \in Days :
         InWindow(d) => \/ daily[k][d] = cost[k][d]
                        \/ fetch[f].pc = "pages" /\ d \in fetch[f].left
                        \/ \E row \in fetch[f].rows : row.key = k /\ row.day = d

LEMMA PostsFetch == \A f \in Posts : f \in Fetchers
BY DEF Fetchers

(* With no calls that fail, a quiet step is one of these. *)
LEMMA QuietSteps ==
  ASSUME [Next]_vars, QuietStep
  PROVE  \/ \E g \in Fetchers : ResolveHint(g) \/ Progress(g)
         \/ UNCHANGED <<fetch, store>>
<1>1. CASE World
  BY <1>1 DEF World, NextDay, CreateKey, Use, RotateAdminKey, FaultsEnd
<1>2. CASE \E g \in Gets : ReadHint(g)
  BY <1>2 DEF ReadHint
<1>3. CASE UNCHANGED vars
  BY <1>3 DEF vars, store
<1>4. ~ TickSaveFails /\ ~ Restart /\ \A f \in Fetchers : ~ FetchFails(f)
  BY DEF QuietStep, TickSaveFails, Restart, FetchFails
<1>5. \A f \in Posts : ~ PostSaveFails(f)
  BY DEF QuietStep, PostSaveFails
<1> QED
  BY <1>1, <1>2, <1>3, <1>4, <1>5 DEF Next

(* A step of one refresh leaves the others as they are. *)
LEMMA OthersKept ==
  ASSUME TypeOK, NEW g \in Fetchers, ResolveHint(g) \/ Progress(g),
         NEW f \in Fetchers, f # g
  PROVE  fetch'[f] = fetch[f]
<1>1. fetch \in [Fetchers -> FetchState]
  BY DEF TypeOK, FetchState
<1> QED
  BY <1>1 DEF Progress, ResolveHint, ListKeys, CutWindow, ReadPage, AllPagesRead,
              SaveKeyMeta, AllKeysSaved, SaveDailySpend, AllRowsSaved, SaveAdminHint

(* A refresh keeps its rows, loses some, or reads what the provider says   *)
(* now.                                                                    *)
LEMMA CurrentKept ==
  ASSUME TypeOK, [Next]_vars, QuietStep, NEW f \in Fetchers,
         Current(f) \/ ResolveHint(f) \/ CutWindow(f)
  PROVE  Current(f)'
<1>0. fetch \in [Fetchers -> FetchState] /\ cost' = cost
  BY DEF TypeOK, FetchState, QuietStep, world
<1>1. CASE ResolveHint(f)
  BY <1>0, <1>1 DEF ResolveHint, NotFetching, Current
<1>2. CASE CutWindow(f)
  <2>1. PICK new : Narrows(f, new) /\ new.rows = {}
    BY <1>2, CutWindowStep
  <2> QED
    BY <1>0, <2>1 DEF Current, Narrows
<1>7. CASE Current(f) /\ ReadPage(f)
  <2>1. PICK d \in fetch[f].left, page \in SUBSET Rows, new \in FetchState :
          /\ fetch' = [fetch EXCEPT ![f] = new] /\ page \subseteq RowsOf(d)
          /\ new.rows = fetch[f].rows \cup page
    BY <1>7, ReadPageStep
  <2>2. \A row \in page : row.usd = cost[row.key][row.day]
    BY <2>1 DEF RowsOf
  <2> QED
    BY <1>0, <1>7, <2>1, <2>2 DEF Current
<1>3. CASE Current(f) /\ fetch'[f].rows \subseteq fetch[f].rows
  BY <1>0, <1>3 DEF Current
<1>4. ASSUME NEW g \in Fetchers, ResolveHint(g) \/ Progress(g), g # f
      PROVE  fetch'[f] = fetch[f]
  BY <1>4, OthersKept
<1>5. ASSUME NEW new, Narrows(f, new) PROVE fetch'[f].rows \subseteq fetch[f].rows
  BY <1>0, <1>5 DEF Narrows
<1>6. ASSUME Progress(f) PROVE ReadPage(f) \/ \E new : Narrows(f, new)
  BY <1>6, ListKeysStep, CutWindowStep, SavingStep, SaveDailyStep, EndingStep DEF Progress
<1> QED
  BY <1>1, <1>2, <1>3, <1>4, <1>5, <1>6, <1>7, QuietSteps

(* Keys stay listed, and totals that are right stay right. *)
LEMMA RightKept ==
  ASSUME TypeOK, [Next]_vars, QuietStep, RowsCurrent
  PROVE  /\ metas \subseteq metas'
         /\ \A k \in Keys, d \in Days : daily[k][d] = cost[k][d] => daily'[k][d] = cost[k][d]
<1>1. ASSUME NEW g \in Fetchers, SaveDailySpend(g)
      PROVE  /\ metas' = metas
             /\ \A k \in Keys, d \in Days :
                  daily[k][d] = cost[k][d] => daily'[k][d] = cost[k][d]
  <2>1. PICK row \in fetch[g].rows : daily' = [daily EXCEPT ![row.key][row.day] = row.usd]
    BY <1>1, SaveDailyStep
  <2>2. row.usd = cost[row.key][row.day]
    BY DEF RowsCurrent, Current
  <2>3. daily \in [Keys -> [Days -> 0 .. MaxCost]]
    BY DEF TypeOK
  <2> QED
    BY <1>1, <2>1, <2>2, <2>3 DEF SaveDailySpend
<1>2. ASSUME NEW g \in Fetchers, ResolveHint(g) \/ Progress(g), ~ SaveDailySpend(g)
      PROVE  metas \subseteq metas' /\ daily' = daily
  BY <1>2 DEF Progress, ResolveHint, ListKeys, CutWindow, ReadPage, AllPagesRead,
              SaveKeyMeta, AllKeysSaved, AllRowsSaved, SaveAdminHint, store
<1> QED
  BY <1>1, <1>2, QuietSteps DEF Progress, store

LEMMA QuietWindow ==
  ASSUME QuietStep
  PROVE  orgKeys' = orgKeys /\ cost' = cost /\ \A d \in Days : InWindow(d)' <=> InWindow(d)
BY DEF QuietStep, world, InWindow

LEMMA StoredKept ==
  ASSUME TypeOK, [Next]_vars, QuietStep, RowsCurrent, ReportStored
  PROVE  ReportStored'
BY RightKept, QuietWindow DEF ReportStored

(* What a refresh misses, it holds, while others only add. *)
LEMMA CatchingUpBeside ==
  ASSUME TypeOK, [Next]_vars, QuietStep, RowsCurrent,
         NEW f \in Fetchers, CatchingUp(f), fetch'[f] = fetch[f]
  PROVE  CatchingUp(f)'
<1>1. orgKeys' \subseteq metas' \cup fetch'[f].keys
  BY RightKept, QuietWindow DEF CatchingUp
<1>2. ASSUME NEW k \in Keys, NEW d \in Days, InWindow(d)', fetch[f].pc # "usage"
      PROVE  \/ daily'[k][d] = cost'[k][d]
             \/ fetch[f].pc = "pages" /\ d \in fetch[f].left
             \/ \E row \in fetch[f].rows : row.key = k /\ row.day = d
  BY <1>2, RightKept, QuietWindow DEF CatchingUp
<1> QED
  BY <1>1, <1>2 DEF CatchingUp

(* The key list is the first thing a refresh reads, and the report the     *)
(* second, a page at a time.                                               *)
LEMMA ListKeysCatches ==
  ASSUME TypeOK, QuietStep, NEW f \in Fetchers, ListKeys(f)
  PROVE  CatchingUp(f)'
<1> DEFINE new == [fetch[f] EXCEPT !.pc = "usage", !.keys = orgKeys]
<1>1. fetch' = [fetch EXCEPT ![f] = new] /\ fetch \in [Fetchers -> FetchState]
  BY DEF ListKeys, TypeOK, FetchState
<1>2. new.pc = "usage" /\ new.keys = orgKeys
  BY <1>1 DEF FetchState
<1> HIDE DEF new
<1> QED
  BY <1>1, <1>2, QuietWindow DEF CatchingUp

LEMMA CutWindowCatches ==
  ASSUME TypeOK, QuietStep, NEW f \in Fetchers, CatchingUp(f), CutWindow(f)
  PROVE  CatchingUp(f)'
<1>1. PICK new : /\ Narrows(f, new) /\ new.pc = "pages"
                 /\ new.left = {d \in Days : InWindow(d)} /\ new.keys = fetch[f].keys
  BY CutWindowStep
<1>2. fetch'[f] = new /\ UNCHANGED store
  BY <1>1 DEF CutWindow, Narrows, TypeOK
<1> QED
  BY <1>1, <1>2, QuietWindow DEF CatchingUp, store

(* What is missing of the day read costs something, so the page has it. *)
LEMMA ReadPageCatches ==
  ASSUME TypeOK, NeverOverstated, QuietStep, NEW f \in Fetchers, CatchingUp(f), ReadPage(f)
  PROVE  CatchingUp(f)'
<1>1. PICK e \in fetch[f].left, page \in SUBSET Rows, new \in FetchState :
        /\ fetch' = [fetch EXCEPT ![f] = new] /\ Priced(RowsOf(e)) \subseteq page
        /\ new.pc = "pages" /\ new.left = fetch[f].left \ {e}
        /\ new.rows = fetch[f].rows \cup page /\ new.keys = fetch[f].keys
  BY ReadPageStep
<1>2. fetch'[f] = new /\ UNCHANGED store /\ fetch[f].pc = "pages"
  BY <1>1 DEF ReadPage, TypeOK
<1>3. ASSUME NEW k \in Keys, NEW d \in Days, d = e, daily[k][d] # cost[k][d]
      PROVE  \E row \in new.rows : row.key = k /\ row.day = d
  <2>1. cost[k][d] \in 0 .. MaxCost /\ cost[k][d] > 0
    <3>1. daily[k][d] \in 0 .. MaxCost /\ cost[k][d] \in 0 .. MaxCost
      BY DEF TypeOK
    <3> QED
      BY <1>3, <3>1, SpendAssumption DEF NeverOverstated, SpendAssumption
  <2> DEFINE row == [key |-> k, day |-> d, usd |-> cost[k][d]]
  <2>2. row \in Priced(RowsOf(e)) /\ row.key = k /\ row.day = d
    BY <1>3, <2>1 DEF Rows, RowsOf, Priced
  <2> QED
    BY <1>1, <2>2
<1>4. ASSUME NEW k \in Keys, NEW d \in Days, InWindow(d)
      PROVE  \/ daily[k][d] = cost[k][d] \/ d \in new.left
             \/ \E row \in new.rows : row.key = k /\ row.day = d
  <2>1. \/ daily[k][d] = cost[k][d] \/ d \in fetch[f].left
        \/ \E row \in fetch[f].rows : row.key = k /\ row.day = d
    BY <1>2, <1>4 DEF CatchingUp
  <2> QED
    BY <1>1, <1>3, <2>1
<1> QED
  BY <1>1, <1>2, <1>4, QuietWindow DEF CatchingUp, store

LEMMA AllPagesCatches ==
  ASSUME TypeOK, QuietStep, NEW f \in Fetchers, CatchingUp(f), AllPagesRead(f)
  PROVE  CatchingUp(f)'
<1> DEFINE new == [fetch[f] EXCEPT !.pc = "keys"]
<1>1. fetch' = [fetch EXCEPT ![f] = new] /\ fetch \in [Fetchers -> FetchState]
  BY DEF AllPagesRead, TypeOK, FetchState
<1>2. new.pc = "keys" /\ new.keys = fetch[f].keys /\ new.rows = fetch[f].rows
  BY <1>1 DEF FetchState
<1> HIDE DEF new
<1>3. fetch'[f] = new /\ UNCHANGED store /\ fetch[f].pc = "pages" /\ fetch[f].left = {}
  BY <1>1 DEF AllPagesRead
<1> QED
  BY <1>2, <1>3, QuietWindow DEF CatchingUp, store

LEMMA SaveKeyCatches ==
  ASSUME TypeOK, QuietStep, NEW f \in Fetchers, CatchingUp(f), SaveKeyMeta(f)
  PROVE  CatchingUp(f)'
<1>1. PICK k \in fetch[f].keys :
        fetch' = [fetch EXCEPT ![f].keys = @ \ {k}] /\ metas' = metas \cup {k}
  BY DEF SaveKeyMeta
<1> DEFINE new == [fetch[f] EXCEPT !.keys = @ \ {k}]
<1>2. fetch' = [fetch EXCEPT ![f] = new] /\ fetch \in [Fetchers -> FetchState]
  BY <1>1 DEF TypeOK, FetchState
<1>3. new.pc = "keys" /\ new.keys = fetch[f].keys \ {k} /\ new.rows = fetch[f].rows
  BY <1>2 DEF SaveKeyMeta, FetchState
<1> HIDE DEF new
<1>4. fetch'[f] = new /\ daily' = daily /\ fetch[f].pc = "keys"
  BY <1>2 DEF SaveKeyMeta
<1> QED
  BY <1>1, <1>3, <1>4, QuietWindow DEF CatchingUp

LEMMA AllKeysCatches ==
  ASSUME TypeOK, QuietStep, NEW f \in Fetchers, CatchingUp(f), AllKeysSaved(f)
  PROVE  CatchingUp(f)'
<1> DEFINE new == [fetch[f] EXCEPT !.pc = "daily"]
<1>1. fetch' = [fetch EXCEPT ![f] = new] /\ fetch \in [Fetchers -> FetchState]
  BY DEF AllKeysSaved, TypeOK, FetchState
<1>2. new.pc = "daily" /\ new.keys = fetch[f].keys /\ new.rows = fetch[f].rows
  BY <1>1 DEF FetchState
<1> HIDE DEF new
<1>3. fetch'[f] = new /\ UNCHANGED store /\ fetch[f].pc = "keys" /\ fetch[f].keys = {}
  BY <1>1 DEF AllKeysSaved
<1> QED
  BY <1>2, <1>3, QuietWindow DEF CatchingUp, store

LEMMA SaveRowCatches ==
  ASSUME TypeOK, QuietStep, RowsCurrent, NEW f \in Fetchers, CatchingUp(f), SaveDailySpend(f)
  PROVE  CatchingUp(f)'
<1>1. PICK row \in fetch[f].rows :
        /\ fetch' = [fetch EXCEPT ![f].rows = @ \ {row}]
        /\ daily' = [daily EXCEPT ![row.key][row.day] = row.usd]
  BY DEF SaveDailySpend, Upsert
<1> DEFINE new == [fetch[f] EXCEPT !.rows = @ \ {row}]
<1>2. fetch' = [fetch EXCEPT ![f] = new] /\ fetch \in [Fetchers -> FetchState]
  BY <1>1 DEF TypeOK, FetchState
<1>3. new.pc = "daily" /\ new.keys = fetch[f].keys /\ new.rows = fetch[f].rows \ {row}
  BY <1>2 DEF SaveDailySpend, FetchState
<1> HIDE DEF new
<1>4. fetch'[f] = new /\ metas' = metas /\ fetch[f].pc = "daily"
  BY <1>2 DEF SaveDailySpend
<1>5. row.usd = cost[row.key][row.day] /\ daily \in [Keys -> [Days -> 0 .. MaxCost]]
  BY DEF RowsCurrent, Current, TypeOK
<1>6. ASSUME NEW k \in Keys, NEW d \in Days, InWindow(d)
      PROVE  \/ daily'[k][d] = cost[k][d]
             \/ \E r \in new.rows : r.key = k /\ r.day = d
  <2>1. CASE k = row.key /\ d = row.day
    BY <1>1, <1>5, <2>1
  <2>2. CASE ~ (k = row.key /\ d = row.day)
    <3>1. daily'[k][d] = daily[k][d]
      BY <1>1, <1>5, <2>2
    <3>2. \/ daily[k][d] = cost[k][d]
          \/ \E r \in fetch[f].rows : r.key = k /\ r.day = d
      BY <1>4, <1>6 DEF CatchingUp
    <3> QED
      BY <1>3, <2>2, <3>1, <3>2
  <2> QED
    BY <2>1, <2>2
<1> QED
  BY <1>3, <1>4, <1>6, QuietWindow DEF CatchingUp

(* When no row is left the books are right. *)
LEMMA AllRowsStored ==
  ASSUME NEW f \in Fetchers, CatchingUp(f), AllRowsSaved(f)
  PROVE  ReportStored
BY DEF AllRowsSaved, CatchingUp, ReportStored

LEMMA CatchingUpKept ==
  ASSUME TypeOK, NeverOverstated, [Next]_vars, QuietStep, RowsCurrent,
         NEW f \in Fetchers, CatchingUp(f)
  PROVE  CatchingUp(f)' \/ ReportStored'
<1>1. CASE fetch'[f] = fetch[f]
  BY <1>1, CatchingUpBeside
<1>2. CASE Progress(f)
  <2>1. ~ ListKeys(f) /\ ~ SaveAdminHint(f)
    BY DEF CatchingUp, ListKeys, SaveAdminHint
  <2>2. AllRowsSaved(f) => ReportStored'
    BY AllRowsStored, StoredKept
  <2> QED
    BY <1>2, <2>1, <2>2, CutWindowCatches, ReadPageCatches, AllPagesCatches, SaveKeyCatches,
       AllKeysCatches, SaveRowCatches
    DEF Progress
<1>3. ~ ResolveHint(f)
  BY DEF CatchingUp, ResolveHint
<1>4. ASSUME NEW g \in Fetchers, ResolveHint(g) \/ Progress(g), g # f
      PROVE  fetch'[f] = fetch[f]
  BY <1>4, OthersKept
<1> QED
  BY <1>1, <1>2, <1>3, <1>4, QuietSteps

(* What ReportCatchesUp rests on.  When calls succeed and nothing changes  *)
(* outside, a refresh that begins, or cuts its window, holds no rows but   *)
(* current ones from there on; while every refresh does, one that has      *)
(* listed the keys goes on to put the books right, whatever other ticks    *)
(* and requests store beside it, and books that are right stay so.         *)
THEOREM RefreshPutsRight ==
  Spec => [][QuietStep =>
               /\ \A f \in Fetchers :
                    (Current(f) \/ ResolveHint(f) \/ CutWindow(f)) => Current(f)'
               /\ RowsCurrent =>
                    /\ \A f \in Fetchers : /\ ListKeys(f) => CatchingUp(f)'
                                           /\ CatchingUp(f) => CatchingUp(f)' \/ ReportStored'
                    /\ ReportStored => ReportStored']_vars
<1>1. TypeOK /\ NeverOverstated /\ [Next]_vars =>
        [QuietStep =>
           /\ \A f \in Fetchers :
                (Current(f) \/ ResolveHint(f) \/ CutWindow(f)) => Current(f)'
           /\ RowsCurrent =>
                /\ \A f \in Fetchers : /\ ListKeys(f) => CatchingUp(f)'
                                       /\ CatchingUp(f) => CatchingUp(f)' \/ ReportStored'
                /\ ReportStored => ReportStored']_vars
  BY CurrentKept, ListKeysCatches, CatchingUpKept, StoredKept
<1> QED
  BY <1>1, TypeCorrect, SpendNeverOverstated, PTL DEF Spec
=============================================================================
