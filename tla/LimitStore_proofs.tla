-------------------------- MODULE LimitStore_proofs --------------------------
(* Theorems about LimitStore, for any number of savers, readers, windows   *)
(* and snapshots.                                                          *)
EXTENDS LimitStore, WellFoundedInduction, TLAPS

(* A bounded set of numbers that is not empty has a largest element.       *)
LEMMA LargestExists ==
  ASSUME NEW N \in Nat, NEW S \in SUBSET (0 .. N), S # {}
  PROVE  \E m \in S : \A x \in S : x <= m
<1> DEFINE T == {N - x : x \in S}
<1>1. T \subseteq Nat /\ T # {}
  <2>1. PICK x \in S : TRUE
    OBVIOUS
  <2>2. \A y \in S : N - y \in Nat
    OBVIOUS
  <2>3. N - x \in T
    BY <2>1
  <2> QED
    BY <2>2, <2>3
<1> DEFINE R == OpToRel(<, Nat)
<1>2. PICK t \in T : \A y \in T : ~(<<y, t>> \in R)
  <2>1. IsWellFoundedOn(R, Nat)
    BY NatLessThanWellFounded
  <2> HIDE DEF T, R
  <2> QED
    BY <1>1, <2>1, WFMin
<1>3. PICK m \in S : t = N - m
  BY <1>2
<1>4. ASSUME NEW x \in S PROVE x <= m
  <2>1. N - x \in T /\ N - x \in Nat /\ t \in Nat
    BY <1>1, <1>2
  <2>2. ~(<<N - x, t>> \in R)
    BY <1>2, <2>1
  <2>3. ~(N - x < t)
    BY <2>1, <2>2 DEF OpToRel
  <2> QED
    BY <1>3, <2>3
<1> QED
  BY <1>4

(* What TypeOK says of one snapshot. *)
LEMMA SnapshotType ==
  ASSUME TypeOK, NEW id \in 1 .. Len(snapshots)
  PROVE  /\ snapshots[id] \in [at : 1 .. MaxClock, keys : SUBSET WindowKeys]
         /\ At(id) \in 1 .. MaxClock
         /\ snapshots[id].keys \in SUBSET WindowKeys
<1> DEFINE Snapshot == [at : 1 .. MaxClock, keys : SUBSET WindowKeys]
<1>1. snapshots \in Seq(Snapshot)
  BY DEF TypeOK
<1>2. snapshots[id] \in Snapshot
  <2> HIDE DEF Snapshot
  <2> QED
    BY <1>1
<1> QED
  BY <1>2 DEF At

(* MAX(snapshot_at) is 0 for an empty table and otherwise the second of a  *)
(* stored row.                                                             *)
LEMMA NewestStampFacts ==
  ASSUME TypeOK
  PROVE  /\ rows = {} => NewestStamp = 0
         /\ rows # {} => /\ NewestStamp \in Stamps
                         /\ NewestStamp \in 1 .. MaxClock
                         /\ \E id \in Committed : At(id) = NewestStamp
<1>1. CASE rows = {}
  BY <1>1 DEF NewestStamp, Largest, Stamps
<1>2. CASE rows # {}
  <2>1. Stamps \subseteq 1 .. MaxClock /\ Stamps # {}
    <3>1. \A row \in rows : row.id \in 1 .. Len(snapshots)
      BY DEF TypeOK
    <3> QED
      BY <1>2, <3>1, SnapshotType DEF Stamps
  <2>2. \E n \in Stamps : \A m \in Stamps : m <= n
    <3>1. MaxClock \in Nat /\ Stamps \in SUBSET (0 .. MaxClock)
      BY <2>1, LimitStoreAssumption
    <3> QED
      BY <2>1, <3>1, LargestExists
  <2>3. NewestStamp \in Stamps
    BY <2>1, <2>2 DEF NewestStamp, Largest
  <2>4. PICK row \in rows : At(row.id) = NewestStamp
    BY <2>3 DEF Stamps
  <2>5. row.id \in Committed
    BY DEF Committed, TypeOK
  <2> QED
    BY <1>2, <2>1, <2>3, <2>4, <2>5
<1> QED
  BY <1>1, <1>2
-----------------------------------------------------------------------------
(* Type correctness. *)

SaveState == [pc : {"idle", "begin", "insert"}, id : 0 .. Len(snapshots), left : SUBSET WindowKeys]

ReadState == [pc : {"idle", "group", "nil", "snapshot", "error"},
              at : 0 .. MaxClock, floor : 0 .. MaxClock, windows : SUBSET rows]

LEMMA InitType == Init => TypeOK
BY LimitStoreAssumption DEF Init, TypeOK, NotSaving, NotReading

(* A saver's step that leaves the snapshots alone. *)
LEMMA SaverType ==
  ASSUME TypeOK, NEW s \in Savers, NEW new, save' = [save EXCEPT ![s] = new],
         UNCHANGED <<clock, snapshots, read>>,
         rows' \subseteq [id : 1 .. Len(snapshots), key : WindowKeys], rows \subseteq rows',
         new \in SaveState,
         new.pc # "idle" => new.id # 0 /\ new.left \subseteq snapshots[new.id].keys
  PROVE  TypeOK'
<1>1. save' \in [Savers -> SaveState]
  BY DEF TypeOK, SaveState
<1>2. \A t \in Savers : save'[t].pc # "idle" =>
        save'[t].id # 0 /\ save'[t].left \subseteq snapshots[save'[t].id].keys
  BY DEF TypeOK
<1>3. read' \in [Readers -> ReadState']
  BY DEF TypeOK, ReadState
<1> QED
  BY <1>1, <1>2, <1>3 DEF TypeOK, SaveState, ReadState

(* A reader's step changes nothing but its own state. *)
LEMMA ReaderType ==
  ASSUME TypeOK, NEW r \in Readers, NEW new, read' = [read EXCEPT ![r] = new],
         UNCHANGED <<clock, snapshots, rows, save>>, new \in ReadState
  PROVE  TypeOK'
<1>1. read' \in [Readers -> ReadState]
  BY DEF TypeOK, ReadState
<1> QED
  BY <1>1 DEF TypeOK, ReadState

(* What the second query of LatestLimits may come back with. *)
LEMMA RowsRead ==
  ASSUME NEW r \in Readers, QueryRows(r)
  PROVE  \E windows \in SUBSET rows :
           /\ windows \subseteq Group(read[r].at)
           /\ TruncatedReads \/ \A row \in Group(read[r].at) : \E w \in windows : w.key = row.key
           /\ read' = [read EXCEPT ![r].pc = "snapshot", ![r].windows = windows]
<1> DEFINE Full == {Group(read[r].at)}
<1>0. PICK got \in IF TruncatedReads THEN SUBSET Group(read[r].at) ELSE Full :
         \E windows \in SUBSET got :
           /\ \A row \in got : \E w \in windows : w.key = row.key
           /\ read' = [read EXCEPT ![r].pc = "snapshot", ![r].windows = windows]
  BY DEF QueryRows
<1>1. PICK windows \in SUBSET got :
         /\ \A row \in got : \E w \in windows : w.key = row.key
         /\ read' = [read EXCEPT ![r].pc = "snapshot", ![r].windows = windows]
  BY <1>0
<1>2. got \subseteq Group(read[r].at) /\ (~TruncatedReads => got = Group(read[r].at))
  <2>1. CASE TruncatedReads
    BY <1>0, <2>1
  <2>2. CASE ~TruncatedReads
    BY <1>0, <2>2
  <2> QED
    BY <2>1, <2>2
<1>3. Group(read[r].at) \subseteq rows
  BY DEF Group
<1> QED
  BY <1>1, <1>2, <1>3

LEMMA CollectType ==
  ASSUME TypeOK, NEW s \in Savers, Collect(s)
  PROVE  TypeOK' /\ Len(snapshots') = Len(snapshots) + 1
         /\ \A id \in 1 .. Len(snapshots) : snapshots'[id] = snapshots[id]
<1> DEFINE Snapshot == [at : 1 .. MaxClock, keys : SUBSET WindowKeys]
           n == Len(snapshots) + 1
<1>1. PICK keys \in SUBSET WindowKeys :
        /\ snapshots' = Append(snapshots, [at |-> clock, keys |-> keys])
        /\ save' = [save EXCEPT ![s] = [pc |-> "begin", id |-> n, left |-> keys]]
  BY DEF Collect
<1>2. snapshots \in Seq(Snapshot) /\ [at |-> clock, keys |-> keys] \in Snapshot
  BY DEF TypeOK
<1>3. /\ snapshots' \in Seq(Snapshot) /\ Len(snapshots') = n
      /\ snapshots'[n] = [at |-> clock, keys |-> keys]
      /\ \A id \in 1 .. Len(snapshots) : snapshots'[id] = snapshots[id]
  <2> HIDE DEF Snapshot
  <2> QED
    BY <1>1, <1>2
<1>4. Len(snapshots') <= MaxSnapshots
  BY <1>2, <1>3, LimitStoreAssumption DEF Collect
<1>5. save' \in [Savers -> SaveState']
  BY <1>1, <1>3 DEF TypeOK, SaveState
<1>6. \A t \in Savers : save'[t].pc # "idle" =>
        save'[t].id # 0 /\ save'[t].left \subseteq snapshots'[save'[t].id].keys
  <2> SUFFICES ASSUME NEW t \in Savers, save'[t].pc # "idle"
               PROVE  save'[t].id # 0 /\ save'[t].left \subseteq snapshots'[save'[t].id].keys
    OBVIOUS
  <2>1. CASE t = s
    <3>1. save'[t] = [pc |-> "begin", id |-> n, left |-> keys]
      BY <1>1, <2>1 DEF TypeOK
    <3>2. n # 0 /\ snapshots'[n].keys = keys
      BY <1>2, <1>3
    <3> QED
      BY <3>1, <3>2
  <2>2. CASE t # s
    <3>1. save'[t] = save[t] /\ save[t].id \in 1 .. Len(snapshots)
      BY <1>1, <2>2 DEF TypeOK
    <3> QED
      BY <3>1, <1>3 DEF TypeOK
  <2> QED
    BY <2>1, <2>2
<1>7. UNCHANGED <<clock, rows, read>>
  BY DEF Collect
<1>8. rows' \subseteq [id : 1 .. Len(snapshots'), key : WindowKeys]
  BY <1>3, <1>7 DEF TypeOK
<1> QED
  BY <1>3, <1>4, <1>5, <1>6, <1>7, <1>8 DEF TypeOK, SaveState

LEMMA NextType == TypeOK /\ [Next]_vars => TypeOK'
<1> SUFFICES ASSUME TypeOK, [Next]_vars PROVE TypeOK'
  OBVIOUS
<1>1. CASE ClockMoves
  BY <1>1 DEF ClockMoves, TypeOK
<1>2. ASSUME NEW s \in Savers, Collect(s) PROVE TypeOK'
  BY <1>2, CollectType
<1>3. ASSUME NEW s \in Savers, Begin(s) PROVE TypeOK'
  <2>1. save' = [save EXCEPT ![s] = [save[s] EXCEPT !.pc = "insert"]]
    BY <1>3 DEF Begin
  <2>2. /\ save[s] \in SaveState
        /\ save[s].id # 0 /\ save[s].left \subseteq snapshots[save[s].id].keys
    BY <1>3 DEF Begin, TypeOK, SaveState
  <2>3. [save[s] EXCEPT !.pc = "insert"] \in SaveState
    BY <2>2 DEF SaveState
  <2> QED
    BY <1>3, <2>1, <2>2, <2>3, SaverType DEF Begin, TypeOK, SaveState
<1>4. ASSUME NEW s \in Savers, InsertWindow(s) PROVE TypeOK'
  <2>1. PICK key \in save[s].left :
          save' = [save EXCEPT ![s] = [save[s] EXCEPT !.left = save[s].left \ {key}]]
    BY <1>4 DEF InsertWindow
  <2>2. /\ save[s] \in SaveState
        /\ save[s].id # 0 /\ save[s].left \subseteq snapshots[save[s].id].keys
    BY <1>4 DEF InsertWindow, TypeOK, SaveState
  <2>3. [save[s] EXCEPT !.left = save[s].left \ {key}] \in SaveState
    BY <2>2 DEF SaveState
  <2> QED
    BY <1>4, <2>1, <2>2, <2>3, SaverType DEF InsertWindow, TypeOK, SaveState
<1>5. ASSUME NEW s \in Savers, Commit(s) PROVE TypeOK'
  <2>1. save[s].id \in 1 .. Len(snapshots)
    BY <1>5 DEF Commit, TypeOK
  <2>2. RowsOf(save[s].id) \subseteq [id : 1 .. Len(snapshots), key : WindowKeys]
    BY <2>1, SnapshotType DEF RowsOf
  <2> QED
    BY <1>5, <2>2, SaverType DEF Commit, NotSaving, TypeOK, SaveState
<1>6. ASSUME NEW s \in Savers, SaveFails(s) PROVE TypeOK'
  BY <1>6, SaverType DEF SaveFails, NotSaving, TypeOK, SaveState
<1>7. NewestStamp \in 0 .. MaxClock
  BY NewestStampFacts, LimitStoreAssumption
<1>8. ASSUME NEW r \in Readers, QueryNewest(r) PROVE TypeOK'
  <2> DEFINE new == [pc |-> IF rows = {} THEN "nil" ELSE "group",
                     at |-> NewestStamp, floor |-> Largest(Stamps), windows |-> {}]
  <2>1. new \in ReadState
    BY <1>7 DEF ReadState, NewestStamp
  <2>2. read' = [read EXCEPT ![r] = new] /\ UNCHANGED <<clock, snapshots, rows, save>>
    BY <1>8 DEF QueryNewest
  <2> HIDE DEF new
  <2> QED
    BY <2>1, <2>2, ReaderType
<1>9. ASSUME NEW r \in Readers, QueryNewestFails(r) PROVE TypeOK'
  <2> DEFINE new == [pc |-> "nil", at |-> 0, floor |-> Largest(Stamps), windows |-> {}]
  <2>1. new \in ReadState
    BY <1>7, LimitStoreAssumption DEF ReadState, NewestStamp
  <2>2. read' = [read EXCEPT ![r] = new] /\ UNCHANGED <<clock, snapshots, rows, save>>
    BY <1>9 DEF QueryNewestFails
  <2> HIDE DEF new
  <2> QED
    BY <2>1, <2>2, ReaderType
<1>10. ASSUME NEW r \in Readers, QueryRows(r) PROVE TypeOK'
  <2>0. PICK windows \in SUBSET rows :
          read' = [read EXCEPT ![r].pc = "snapshot", ![r].windows = windows]
    BY <1>10, RowsRead
  <2>1. read' = [read EXCEPT ![r] = [read[r] EXCEPT !.pc = "snapshot", !.windows = windows]]
    BY <2>0 DEF TypeOK
  <2>2. [read[r] EXCEPT !.pc = "snapshot", !.windows = windows] \in ReadState
    BY DEF TypeOK, ReadState
  <2> QED
    BY <1>10, <2>1, <2>2, ReaderType DEF QueryRows
<1>11. ASSUME NEW r \in Readers, QueryRowsFails(r) PROVE TypeOK'
  <2>1. read' = [read EXCEPT ![r] = [read[r] EXCEPT !.pc = "error"]]
    BY <1>11 DEF QueryRowsFails
  <2>2. [read[r] EXCEPT !.pc = "error"] \in ReadState
    BY DEF TypeOK, ReadState
  <2> QED
    BY <1>11, <2>1, <2>2, ReaderType DEF QueryRowsFails
<1>12. ASSUME NEW r \in Readers, Respond(r) PROVE TypeOK'
  <2>1. NotReading \in ReadState
    BY LimitStoreAssumption DEF ReadState, NotReading
  <2> QED
    BY <1>12, <2>1, ReaderType DEF Respond
<1>13. CASE Restart
  BY <1>13, LimitStoreAssumption DEF Restart, NotSaving, NotReading, TypeOK
<1>14. CASE UNCHANGED vars
  BY <1>14 DEF vars, TypeOK
<1> QED
  BY <1>1, <1>2, <1>3, <1>4, <1>5, <1>6, <1>8, <1>9, <1>10, <1>11, <1>12, <1>13, <1>14
  DEF Next

(* Every variable keeps its shape; no row ever belongs to a snapshot that  *)
(* was not fetched.                                                        *)
THEOREM TypeCorrect == Spec => []TypeOK
BY InitType, NextType, PTL DEF Spec
-----------------------------------------------------------------------------
(* Rows are only ever added, and what a snapshot said never changes. *)
Grown ==
  /\ rows \subseteq rows'
  /\ \A id \in 1 .. Len(snapshots) :
       id \in 1 .. Len(snapshots') /\ snapshots'[id] = snapshots[id]

LEMMA OnlyGrows == TypeOK /\ [Next]_vars => Grown
<1> SUFFICES ASSUME TypeOK, [Next]_vars PROVE Grown
  OBVIOUS
<1>1. ASSUME NEW s \in Savers, Collect(s) PROVE Grown
  <2>1. Len(snapshots') = Len(snapshots) + 1 /\ Len(snapshots) \in Nat
        /\ \A id \in 1 .. Len(snapshots) : snapshots'[id] = snapshots[id]
    BY <1>1, CollectType DEF TypeOK
  <2> QED
    BY <1>1, <2>1 DEF Collect, Grown
<1>2. ASSUME rows \subseteq rows', UNCHANGED snapshots PROVE Grown
  BY <1>2 DEF Grown
<1>3. CASE ClockMoves \/ Restart \/ UNCHANGED vars
  BY <1>2, <1>3 DEF ClockMoves, Restart, vars
<1>4. ASSUME NEW s \in Savers, Begin(s) \/ InsertWindow(s) \/ Commit(s) \/ SaveFails(s)
      PROVE  Grown
  BY <1>2, <1>4 DEF Begin, InsertWindow, Commit, SaveFails
<1>5. ASSUME NEW r \in Readers,
             \/ QueryNewest(r) \/ QueryNewestFails(r)
             \/ QueryRows(r) \/ QueryRowsFails(r) \/ Respond(r)
      PROVE  Grown
  BY <1>2, <1>5 DEF QueryNewest, QueryNewestFails, QueryRows, QueryRowsFails, Respond
<1> QED
  BY <1>1, <1>3, <1>4, <1>5 DEF Next

(* What a growing table keeps: stored snapshots, their seconds and rows. *)
LEMMA GrownFacts ==
  ASSUME TypeOK, Grown
  PROVE  /\ Committed \subseteq Committed'
         /\ Committed \subseteq 1 .. Len(snapshots)
         /\ \A id \in 1 .. Len(snapshots) : At(id)' = At(id) /\ RowsOf(id)' = RowsOf(id)
         /\ \A row \in rows : row.id \in 1 .. Len(snapshots)
BY DEF Grown, Committed, At, RowsOf, TypeOK

-----------------------------------------------------------------------------
(* The table only ever holds whole snapshots: neither a failed transaction *)
(* nor a restart nor two overlapping saves leave a part of one.            *)
LEMMA StoredWholeStep ==
  ASSUME TypeOK, StoredWhole, [Next]_vars
  PROVE  StoredWhole'
<1>1. Grown
  BY OnlyGrows
<1>2. ASSUME NEW s \in Savers, Commit(s) PROVE StoredWhole'
  <2> SUFFICES ASSUME NEW id \in Committed' PROVE RowsOf(id)' \subseteq rows'
    BY DEF StoredWhole
  <2>1. rows' = rows \cup RowsOf(save[s].id) /\ snapshots' = snapshots
    BY <1>2 DEF Commit
  <2>2. RowsOf(id)' = RowsOf(id)
    BY <2>1 DEF RowsOf
  <2>3. CASE id \in Committed
    BY <2>1, <2>2, <2>3 DEF StoredWhole
  <2>4. CASE id = save[s].id
    BY <2>1, <2>2, <2>4
  <2>5. id \in Committed \/ id = save[s].id
    BY <2>1 DEF Committed, RowsOf
  <2> QED
    BY <2>3, <2>4, <2>5
<1>3. ASSUME UNCHANGED rows PROVE StoredWhole'
  <2> SUFFICES ASSUME NEW id \in Committed' PROVE RowsOf(id)' \subseteq rows'
    BY DEF StoredWhole
  <2>1. id \in Committed
    BY <1>3 DEF Committed, TypeOK
  <2> QED
    BY <1>1, <1>3, <2>1, GrownFacts DEF StoredWhole
<1>4. UNCHANGED rows \/ \E s \in Savers : Commit(s)
  BY DEF Next, ClockMoves, Collect, Begin, InsertWindow, SaveFails, QueryNewest,
     QueryNewestFails, QueryRows, QueryRowsFails, Respond, Restart, vars
<1> QED
  BY <1>2, <1>3, <1>4

(* Whatever fails or overlaps, a stored snapshot has all its windows. *)
THEOREM SnapshotsStoredWhole == Spec => []StoredWhole
<1>1. Init => StoredWhole
  BY DEF Init, StoredWhole, Committed
<1> QED
  BY <1>1, InitType, NextType, StoredWholeStep, PTL DEF Spec
-----------------------------------------------------------------------------
(* Where a read stands between its two queries and after them.  The second *)
(* it asked for is the newest when it asked; something was stored with     *)
(* that second, and stays stored while other saves commit in between.      *)
ReadOK(r) ==
  /\ read[r].pc = "group" =>
       /\ read[r].at = read[r].floor
       /\ \E id \in Committed : At(id) = read[r].at
  /\ read[r].pc = "snapshot" =>
       /\ read[r].at = read[r].floor
       /\ \A w \in read[r].windows : At(w.id) = read[r].at
       /\ TruncatedReads \/ \E id \in Committed : At(id) = read[r].at
            /\ snapshots[id].keys \subseteq {w.key : w \in read[r].windows}

ReadsOK == \A r \in Readers : ReadOK(r)

LEMMA ReadOKKept ==
  ASSUME TypeOK, Grown, NEW r \in Readers, ReadOK(r), read'[r] = read[r]
  PROVE  ReadOK(r)'
<1>1. \A w \in read[r].windows : w \in rows
  BY DEF TypeOK
<1>2. \A w \in read[r].windows : At(w.id)' = At(w.id)
  BY <1>1, GrownFacts
<1>3. \A id \in Committed : id \in Committed' /\ At(id)' = At(id)
        /\ snapshots'[id] = snapshots[id]
  BY GrownFacts DEF Grown
<1> QED
  BY <1>2, <1>3 DEF ReadOK

LEMMA ReadsOKStep ==
  ASSUME TypeOK, StoredWhole, ReadsOK, [Next]_vars
  PROVE  ReadsOK'
<1> SUFFICES ASSUME NEW r \in Readers PROVE ReadOK(r)'
  BY DEF ReadsOK
<1>0. Grown /\ ReadOK(r)
  BY OnlyGrows DEF ReadsOK
<1>1. CASE read'[r] = read[r]
  BY <1>0, <1>1, ReadOKKept
<1>2. CASE read'[r].pc \notin {"group", "snapshot"}
  BY <1>2 DEF ReadOK
<1>3. CASE QueryNewest(r)
  <2>1. CASE rows = {}
    BY <1>3, <2>1 DEF QueryNewest, ReadOK, TypeOK
  <2>2. CASE rows # {}
    <3>1. \E id \in Committed : At(id) = NewestStamp
      BY <2>2, NewestStampFacts
    <3>2. read'[r] = [pc |-> "group", at |-> NewestStamp, floor |-> Largest(Stamps), windows |-> {}]
      BY <1>3, <2>2 DEF QueryNewest, TypeOK, NewestStamp
    <3>3. Committed' = Committed /\ \A id : At(id)' = At(id)
      BY <1>3 DEF QueryNewest, Committed, At
    <3> QED
      BY <3>1, <3>2, <3>3 DEF ReadOK, NewestStamp
  <2> QED
    BY <2>1, <2>2
<1>4. CASE QueryRows(r)
  <2>1. PICK windows \in SUBSET rows :
          /\ windows \subseteq Group(read[r].at)
          /\ TruncatedReads \/ \A row \in Group(read[r].at) : \E w \in windows : w.key = row.key
          /\ read' = [read EXCEPT ![r].pc = "snapshot", ![r].windows = windows]
    BY <1>4, RowsRead
  <2>2. /\ read'[r].pc = "snapshot" /\ read'[r].windows = windows
        /\ read'[r].at = read[r].at /\ read'[r].floor = read[r].floor
    BY <2>1 DEF TypeOK
  <2>3. UNCHANGED <<rows, snapshots>> /\ read[r].pc = "group"
    BY <1>4 DEF QueryRows
  <2>4. PICK id \in Committed : At(id) = read[r].at
    BY <1>0, <2>3 DEF ReadOK
  <2>5. ASSUME ~TruncatedReads PROVE snapshots[id].keys \subseteq {w.key : w \in windows}
    <3> SUFFICES ASSUME NEW key \in snapshots[id].keys
                 PROVE  \E w \in windows : w.key = key
      OBVIOUS
    <3>1. [id |-> id, key |-> key] \in rows
      BY DEF StoredWhole, RowsOf
    <3>2. [id |-> id, key |-> key] \in Group(read[r].at)
      BY <2>4, <3>1 DEF Group
    <3>3. \A row \in Group(read[r].at) : \E w \in windows : w.key = row.key
      BY <2>1, <2>5
    <3> QED
      BY <3>2, <3>3
  <2>6. \A w \in windows : At(w.id) = read[r].at
    BY <2>1 DEF Group
  <2>7. Committed' = Committed /\ \A x : At(x)' = At(x)
    BY <2>3 DEF Committed, At
  <2>8. read[r].at = read[r].floor
    BY <1>0, <2>3 DEF ReadOK
  <2> QED
    BY <2>2, <2>3, <2>4, <2>5, <2>6, <2>7, <2>8 DEF ReadOK
<1>5. ASSUME NEW q \in Readers,
             \/ QueryNewest(q) \/ QueryNewestFails(q)
             \/ QueryRows(q) \/ QueryRowsFails(q) \/ Respond(q)
      PROVE  ReadOK(r)'
  <2>1. CASE q = r
    <3>1. QueryNewestFails(r) \/ QueryRowsFails(r) \/ Respond(r) =>
            read'[r].pc \notin {"group", "snapshot"}
      BY DEF QueryNewestFails, QueryRowsFails, Respond, NotReading, TypeOK
    <3> QED
      BY <1>2, <1>3, <1>4, <1>5, <2>1, <3>1
  <2>2. CASE q # r
    <3>1. read'[r] = read[r]
      BY <1>5, <2>2 DEF QueryNewest, QueryNewestFails, QueryRows, QueryRowsFails, Respond, TypeOK
    <3> QED
      BY <1>1, <3>1
  <2> QED
    BY <2>1, <2>2
<1>6. CASE Restart
  <2>1. read'[r].pc = "idle"
    BY <1>6 DEF Restart, NotReading
  <2> QED
    BY <1>2, <2>1
<1>7. CASE UNCHANGED read
  BY <1>1, <1>7
<1>8. \/ UNCHANGED read
      \/ Restart
      \/ \E q \in Readers : QueryNewest(q) \/ QueryNewestFails(q) \/ QueryRows(q)
                            \/ QueryRowsFails(q) \/ Respond(q)
  BY DEF Next, ClockMoves, Collect, Begin, InsertWindow, Commit, SaveFails, vars
<1> QED
  BY <1>5, <1>6, <1>7, <1>8

LEMMA InitReads == Init => StoredWhole /\ ReadsOK
BY DEF Init, StoredWhole, Committed, ReadsOK, ReadOK, NotReading

(* The answer to "the latest" is never older than what was stored when the *)
(* question came, although saves commit out of order while it is read.     *)
THEOREM AnswersNewest == Spec => []AnswerNewest
<1>1. TypeOK /\ ReadsOK => AnswerNewest
  <2> SUFFICES ASSUME TypeOK, ReadsOK, NEW r \in Readers, read[r].pc = "snapshot",
                      NEW w \in read[r].windows
               PROVE  At(w.id) >= read[r].floor
    BY DEF AnswerNewest
  <2>1. At(w.id) = read[r].floor
    BY DEF ReadsOK, ReadOK
  <2>2. read[r].floor \in Nat
    BY LimitStoreAssumption DEF TypeOK
  <2> QED
    BY <2>1, <2>2
<1> QED
  BY <1>1, InitType, InitReads, NextType, StoredWholeStep, ReadsOKStep, PTL DEF Spec

(* Unless an iteration is cut short, an answer shows one second and all    *)
(* windows of a snapshot of that second.                                   *)
THEOREM AnswersWhole ==
  ASSUME ~TruncatedReads
  PROVE  Spec => []AnswerWhole
<1>1. ReadsOK => AnswerWhole
  BY DEF ReadsOK, ReadOK, AnswerWhole
<1> QED
  BY <1>1, InitType, InitReads, NextType, StoredWholeStep, ReadsOKStep, PTL DEF Spec
-----------------------------------------------------------------------------
(* The refinement of LimitBoard. *)

(* An answer is fetched under a number of its own and stored at most once. *)
Fresh ==
  \A s \in Savers : save[s].pc # "idle" =>
    /\ save[s].id \notin Committed
    /\ \A t \in Savers : t # s /\ save[t].pc # "idle" => save[t].id # save[s].id

(* A question that is open has been told nothing yet. *)
Untold == \A r \in Readers : read[r].pc = "group" => read[r].windows = {}

(* A stored row is of a window its answer had. *)
RowsStated == \A row \in rows : row.key \in snapshots[row.id].keys

LEMMA RowsStatedStep ==
  ASSUME TypeOK, RowsStated, [Next]_vars
  PROVE  RowsStated'
<1>1. Grown
  BY OnlyGrows
<1>2. \A row \in rows : row.key \in snapshots'[row.id].keys
  BY <1>1, GrownFacts DEF RowsStated, Grown
<1>3. ASSUME NEW s \in Savers, Commit(s) PROVE RowsStated'
  BY <1>2, <1>3 DEF Commit, RowsOf, RowsStated
<1>4. CASE UNCHANGED rows
  BY <1>2, <1>4 DEF RowsStated
<1>5. UNCHANGED rows \/ \E s \in Savers : Commit(s)
  BY DEF Next, ClockMoves, Collect, Begin, InsertWindow, SaveFails, QueryNewest,
     QueryNewestFails, QueryRows, QueryRowsFails, Respond, Restart, vars
<1> QED
  BY <1>3, <1>4, <1>5

LEMMA FreshKept ==
  ASSUME Fresh, UNCHANGED <<rows, snapshots>>,
         \A s \in Savers : save'[s].pc # "idle" => save[s].pc # "idle" /\ save'[s].id = save[s].id
  PROVE  Fresh'
<1>1. Committed' = Committed
  BY DEF Committed
<1> QED
  BY <1>1 DEF Fresh

LEMMA FreshStep ==
  ASSUME TypeOK, Fresh, [Next]_vars
  PROVE  Fresh'
<1>1. ASSUME NEW s \in Savers, Collect(s) PROVE Fresh'
  <2>1. PICK keys \in SUBSET WindowKeys :
          save' = [save EXCEPT ![s] = [pc |-> "begin", id |-> Len(snapshots) + 1, left |-> keys]]
    BY <1>1 DEF Collect
  <2>2. Committed' \subseteq 1 .. Len(snapshots) /\ Committed' = Committed
    <3>1. rows' = rows /\ Len(snapshots') = Len(snapshots) + 1 /\ Len(snapshots) \in Nat
      BY <1>1, CollectType DEF Collect, TypeOK
    <3> QED
      BY <3>1 DEF Committed, TypeOK
  <2>3. \A t \in Savers : save[t].id \in 0 .. Len(snapshots)
    BY DEF TypeOK
  <2>4. save'[s].id = Len(snapshots) + 1 /\ \A t \in Savers : t # s => save'[t] = save[t]
    BY <2>1 DEF TypeOK
  <2>5. Len(snapshots) + 1 \notin 0 .. Len(snapshots)
    BY DEF TypeOK
  <2> QED
    BY <2>2, <2>3, <2>4, <2>5 DEF Fresh
<1>2. ASSUME NEW s \in Savers, Commit(s) PROVE Fresh'
  <2>1. save'[s].pc = "idle" /\ \A t \in Savers : t # s => save'[t] = save[t]
    BY <1>2 DEF Commit, NotSaving, TypeOK
  <2>2. Committed' \subseteq Committed \cup {save[s].id}
    BY <1>2 DEF Commit, Committed, RowsOf
  <2>3. save[s].pc # "idle"
    BY <1>2 DEF Commit
  <2> QED
    BY <2>1, <2>2, <2>3 DEF Fresh
<1>3. ASSUME NEW s \in Savers, Begin(s) \/ InsertWindow(s) \/ SaveFails(s) PROVE Fresh'
  <2>1. \A t \in Savers : save'[t].pc # "idle" => save[t].pc # "idle" /\ save'[t].id = save[t].id
    <3>0. save \in [Savers -> SaveState]
      BY DEF TypeOK, SaveState
    <3>1. CASE Begin(s)
      BY <3>0, <3>1 DEF Begin, SaveState
    <3>2. CASE InsertWindow(s)
      BY <3>0, <3>2 DEF InsertWindow, SaveState
    <3>3. CASE SaveFails(s)
      BY <3>0, <3>3 DEF SaveFails, NotSaving
    <3> QED
      BY <1>3, <3>1, <3>2, <3>3
  <2> QED
    BY <1>3, <2>1, FreshKept DEF Begin, InsertWindow, SaveFails
<1>4. ASSUME UNCHANGED <<rows, snapshots, save>> PROVE Fresh'
  BY <1>4, FreshKept
<1>5. CASE Restart
  BY <1>5, FreshKept DEF Restart, NotSaving
<1> QED
  BY <1>1, <1>2, <1>3, <1>4, <1>5 DEF Next, ClockMoves, QueryNewest, QueryNewestFails, QueryRows,
     QueryRowsFails, Respond, vars

LEMMA UntoldStep ==
  ASSUME TypeOK, Untold, [Next]_vars
  PROVE  Untold'
<1> SUFFICES ASSUME NEW r \in Readers, read'[r].pc = "group" PROVE read'[r].windows = {}
  BY DEF Untold
<1>1. CASE UNCHANGED read
  BY <1>1 DEF Untold
<1>2. ASSUME NEW q \in Readers,
             \/ QueryNewest(q) \/ QueryNewestFails(q)
             \/ QueryRows(q) \/ QueryRowsFails(q) \/ Respond(q)
      PROVE  read'[r].windows = {}
  <2>0. read \in [Readers -> ReadState]
    BY DEF TypeOK, ReadState
  <2>1. CASE q # r
    <3>1. read'[r] = read[r]
      BY <1>2, <2>0, <2>1 DEF QueryNewest, QueryNewestFails, QueryRows, QueryRowsFails, Respond
    <3> QED
      BY <3>1 DEF Untold
  <2>2. CASE q = r /\ QueryNewest(r)
    BY <2>0, <2>2 DEF QueryNewest
  <2>3. CASE q = r /\ ~QueryNewest(r)
    <3>1. read'[r].pc \in {"nil", "snapshot", "error", "idle"}
      BY <1>2, <2>0, <2>3
      DEF QueryNewestFails, QueryRows, QueryRowsFails, Respond, NotReading, ReadState
    <3> QED
      BY <3>1
  <2> QED
    BY <2>1, <2>2, <2>3
<1>3. CASE Restart
  BY <1>3 DEF Restart, NotReading
<1> QED
  BY <1>1, <1>2, <1>3 DEF Next, ClockMoves, Collect, Begin, InsertWindow, Commit, SaveFails, vars

-----------------------------------------------------------------------------
(* The mapping, by its parts. *)
Snapshot(id) == [id |-> id, at |-> At(id), keys |-> snapshots[id].keys]
Published == {Snapshot(id) : id \in Committed}

Asked(r) ==
  IF read[r].pc \in {"group", "snapshot"}
  THEN [state |-> IF read[r].pc = "group" THEN "open" ELSE "answered",
        at |-> read[r].at, keys |-> {w.key : w \in read[r].windows}]
  ELSE [state |-> "idle", at |-> 0, keys |-> {}]
Question == [r \in Readers |-> Asked(r)]

(* The two ways to say which second is the newest agree. *)
LEMMA NewestAgrees ==
  ASSUME TypeOK
  PROVE  Board!Newest(Published) = NewestStamp
<1> DEFINE ats == {x.at : x \in Published}
<1>1. ats = Stamps
  <2>1. \A row \in rows : row.id \in Committed
    BY DEF Committed, TypeOK
  <2>2. \A id \in Committed : At(id) \in Stamps
    BY DEF Committed, Stamps
  <2>3. ats = {At(id) : id \in Committed}
    <3>1. \A x \in Published : \E id \in Committed : x.at = At(id)
      BY DEF Published, Snapshot
    <3>2. \A id \in Committed : Snapshot(id) \in Published /\ Snapshot(id).at = At(id)
      <4>1. \A id : Snapshot(id).at = At(id)
        BY DEF Snapshot
      <4> QED
        BY <4>1 DEF Published
    <3> QED
      BY <3>1, <3>2
  <2>4. Stamps = {At(id) : id \in Committed}
    BY <2>1, <2>2 DEF Stamps
  <2> QED
    BY <2>3, <2>4
<1>2. Published = {} <=> Stamps = {}
  BY <1>1
<1>3. CASE Stamps = {}
  BY <1>2, <1>3 DEF Board!Newest, NewestStamp, Largest
<1>4. CASE Stamps # {}
  <2>1. rows # {}
    BY <1>4 DEF Stamps
  <2>2. Stamps \in SUBSET (0 .. MaxClock) /\ MaxClock \in Nat
    <3>1. \A row \in rows : row.id \in 1 .. Len(snapshots)
      BY DEF TypeOK
    <3> QED
      BY <3>1, SnapshotType, LimitStoreAssumption DEF Stamps
  <2>3. PICK m \in Stamps : \A n \in Stamps : n <= m
    BY <1>4, <2>2, LargestExists
  <2>4. NewestStamp \in Stamps /\ \A n \in Stamps : n <= NewestStamp
    BY <1>4, <2>3 DEF NewestStamp, Largest
  <2>5. \A x \in Published : x.at \in Stamps /\ x.at <= m
    BY <1>1, <2>3
  <2> DEFINE chosen == CHOOSE n \in ats : \A x \in Published : x.at <= n
  <2>6. chosen \in ats /\ \A x \in Published : x.at <= chosen
    <3>1. m \in ats
      BY <1>1, <2>3
    <3> QED
      BY <2>5, <3>1
  <2>7. chosen \in Stamps /\ \A n \in Stamps : n <= chosen
    <3>1. \A n \in ats : \E x \in Published : n = x.at
      OBVIOUS
    <3> HIDE DEF chosen, ats
    <3> QED
      BY <1>1, <2>6, <3>1
  <2>8. chosen = NewestStamp
    <3> HIDE DEF chosen
    <3> QED
      BY <2>2, <2>4, <2>7
  <2> QED
    BY <1>2, <1>4, <2>8 DEF Board!Newest
<1> QED
  BY <1>3, <1>4

LEMMA BoardVars ==
  Board!vars = <<Published, Question>> /\ Board!vars' = <<Published', Question'>>
BY DEF Board!vars, Published, Snapshot, Question, Asked

(* Nothing is published by a step that leaves the rows alone. *)
LEMMA PublishedKept ==
  ASSUME TypeOK, Grown, UNCHANGED rows
  PROVE  Published' = Published
<1>1. Committed' = Committed
  BY GrownFacts DEF Committed
<1>2. \A id \in Committed : Snapshot(id)' = Snapshot(id)
  BY GrownFacts DEF Snapshot, Grown
<1> QED
  BY <1>1, <1>2 DEF Published

(* Commit publishes the snapshot, unless the answer had no window. *)
LEMMA CommitPublishes ==
  ASSUME TypeOK, Fresh, NEW s \in Savers, Commit(s)
  PROVE  [Board!Next]_(Board!vars)
<1> DEFINE id == save[s].id
<1>1. /\ rows' = rows \cup RowsOf(id) /\ UNCHANGED <<snapshots, read>>
      /\ id \in 1 .. Len(snapshots) /\ id \notin Committed
  BY DEF Commit, Fresh, TypeOK
<1>2. Question' = Question
  BY <1>1 DEF Question, Asked
<1>3. \A n : Snapshot(n)' = Snapshot(n)
  BY <1>1 DEF Snapshot, At
<1>4. CASE snapshots[id].keys = {}
  <2>1. RowsOf(id) = {}
    BY <1>4 DEF RowsOf
  <2>2. Committed' = Committed
    BY <1>1, <2>1 DEF Committed
  <2>3. Published' = Published
    BY <1>3, <2>2 DEF Published
  <2> QED
    BY <1>2, <2>3, BoardVars
<1>5. CASE snapshots[id].keys # {}
  <2>1. Committed' = Committed \cup {id}
    <3>1. \E row \in RowsOf(id) : row.id = id
      <4>1. PICK key \in snapshots[id].keys : TRUE
        BY <1>5
      <4>2. [id |-> id, key |-> key] \in RowsOf(id)
        BY <4>1 DEF RowsOf
      <4> QED
        BY <4>2
    <3>2. \A row \in RowsOf(id) : row.id = id
      BY DEF RowsOf
    <3> HIDE DEF id
    <3> QED
      BY <1>1, <3>1, <3>2 DEF Committed
  <2>2. Published' = Published \cup {Snapshot(id)}
    <3> HIDE DEF id
    <3> QED
      BY <1>3, <2>1 DEF Published
  <2>3. Snapshot(id) \in [id : 1 .. MaxSnapshots, at : 1 .. MaxClock, keys : SUBSET WindowKeys]
    <3>1. id \in 1 .. MaxSnapshots
      BY <1>1, LimitStoreAssumption DEF TypeOK
    <3> QED
      BY <1>1, <3>1, SnapshotType DEF Snapshot
  <2>4. Snapshot(id).keys # {} /\ Snapshot(id).id = id
    BY <1>5 DEF Snapshot
  <2>5. \A y \in Published : y.id # Snapshot(id).id
    BY <1>1, <2>4 DEF Published, Snapshot
  <2>6. Board!Publish
    BY <1>2, <2>2, <2>3, <2>4, <2>5
    DEF Board!Publish, Published, Snapshot, Question, Asked
  <2> QED
    BY <2>6 DEF Board!Next
<1> QED
  BY <1>4, <1>5

(* A step of LatestLimits, whose second and rows are those of the board.   *)
LEMMA ReadOnBoard ==
  ASSUME TypeOK, StoredWhole, ReadsOK, RowsStated, Untold, ~TruncatedReads, [Next]_vars,
         NEW r \in Readers,
         \/ QueryNewest(r) \/ QueryNewestFails(r)
         \/ QueryRows(r) \/ QueryRowsFails(r) \/ Respond(r)
  PROVE  [Board!Next]_(Board!vars)
<1>0. Grown /\ UNCHANGED rows /\ ReadsOK'
  BY OnlyGrows, ReadsOKStep
  DEF QueryNewest, QueryNewestFails, QueryRows, QueryRowsFails, Respond
<1>1. Published' = Published
  BY <1>0, PublishedKept
<1>2. read \in [Readers -> ReadState]
  BY DEF TypeOK, ReadState
<1>3. \A q \in Readers : q # r => Asked(q)' = Asked(q)
  BY <1>2 DEF QueryNewest, QueryNewestFails, QueryRows, QueryRowsFails, Respond, Asked
<1>4. Question' = [Question EXCEPT ![r] = Asked(r)']
  BY <1>3 DEF Question
<1>5. ASSUME Asked(r)' = Board!Idle PROVE Board!Next
  <2>1. Question' = [q \in Readers |-> IF q \in {r} THEN Board!Idle ELSE Question[q]]
    BY <1>4, <1>5 DEF Question
  <2>2. Board!Drop({r})
    BY <1>1, <2>1 DEF Board!Drop, Published, Snapshot, Question, Asked
  <2> QED
    BY <2>2 DEF Board!Next
<1>6. CASE QueryNewest(r) /\ rows # {}
  <2>1. read'[r] = [pc |-> "group", at |-> NewestStamp, floor |-> Largest(Stamps), windows |-> {}]
    BY <1>2, <1>6 DEF QueryNewest
  <2>2. Asked(r)' = [state |-> "open", at |-> NewestStamp, keys |-> {}]
    BY <2>1 DEF Asked
  <2>3. Question[r] = Board!Idle
    BY <1>6 DEF QueryNewest, Question, Asked, Board!Idle
  <2>4. Published # {}
    BY <1>6, NewestStampFacts DEF Published
  <2>5. Board!Ask(r)
    BY <1>1, <1>4, <2>2, <2>3, <2>4, NewestAgrees
    DEF Board!Ask, Published, Snapshot, Question, Asked
  <2> QED
    BY <2>5 DEF Board!Next
<1>7. CASE (QueryNewest(r) /\ rows = {}) \/ QueryNewestFails(r) \/ QueryRowsFails(r) \/ Respond(r)
  <2>1. read'[r].pc \in {"nil", "error", "idle"}
    BY <1>2, <1>7 DEF QueryNewest, QueryNewestFails, QueryRowsFails, Respond, NotReading, ReadState
  <2>2. Asked(r)' = Board!Idle
    BY <2>1 DEF Asked, Board!Idle
  <2> QED
    BY <1>5, <2>2
<1>8. CASE QueryRows(r)
  <2>1. PICK windows \in SUBSET rows :
          /\ windows \subseteq Group(read[r].at)
          /\ \A row \in Group(read[r].at) : \E w \in windows : w.key = row.key
          /\ read' = [read EXCEPT ![r].pc = "snapshot", ![r].windows = windows]
    BY <1>8, RowsRead
  <2> DEFINE keys == {w.key : w \in windows}
             at == read[r].at
  <2>2. read[r].pc = "group" /\ read[r].windows = {}
    BY <1>8 DEF QueryRows, Untold
  <2>3. Question[r] = [state |-> "open", at |-> at, keys |-> {}]
    BY <2>2 DEF Question, Asked
  <2>4. Asked(r)' = [state |-> "answered", at |-> at, keys |-> keys]
    <3>1. read'[r].pc = "snapshot" /\ read'[r].windows = windows /\ read'[r].at = at
      BY <1>2, <2>1
    <3> QED
      BY <3>1 DEF Asked
  <2>5. PICK id \in Committed : At(id) = at /\ snapshots[id].keys \subseteq keys
    <3>1. PICK id \in Committed : At(id) = at
      BY <2>2 DEF ReadsOK, ReadOK
    <3>2. ASSUME NEW key \in snapshots[id].keys PROVE key \in keys
      <4>1. [id |-> id, key |-> key] \in Group(at)
        BY <3>1 DEF StoredWhole, RowsOf, Group
      <4> QED
        BY <2>1, <4>1
    <3> QED
      BY <3>1, <3>2
  <2>6. Snapshot(id) \in Board!Second(at) /\ Snapshot(id).keys \subseteq keys
    <3>1. Snapshot(id) \in Published /\ Snapshot(id).at = at
      BY <2>5 DEF Published, Snapshot
    <3> QED
      BY <2>5, <3>1 DEF Board!Second, Published, Snapshot
  <2>7. keys \subseteq UNION {x.keys : x \in Board!Second(at)}
    <3> SUFFICES ASSUME NEW w \in windows
                 PROVE  \E x \in Board!Second(at) : w.key \in x.keys
      OBVIOUS
    <3>1. w \in rows /\ At(w.id) = at /\ w.id \in Committed
      BY <2>1 DEF Group, Committed, TypeOK
    <3>2. w.key \in snapshots[w.id].keys
      BY <3>1 DEF RowsStated
    <3>3. Snapshot(w.id) \in Board!Second(at)
      <4>1. Snapshot(w.id) \in Published /\ Snapshot(w.id).at = at
        BY <3>1 DEF Published, Snapshot
      <4> QED
        BY <4>1 DEF Board!Second, Published, Snapshot
    <3> QED
      BY <3>2, <3>3 DEF Snapshot
  <2> HIDE DEF keys, at
  <2>8. Question' = [Question EXCEPT ![r] = [state |-> "answered", at |-> Question[r].at, keys |-> keys]]
    BY <1>4, <2>3, <2>4
  <2>9. \E told \in SUBSET UNION {x.keys : x \in Board!Second(Question[r].at)} :
          /\ \E x \in Board!Second(Question[r].at) : x.keys \subseteq told
          /\ Question' = [Question EXCEPT ![r] =
                            [state |-> "answered", at |-> Question[r].at, keys |-> told]]
    <3>1. Question[r].at = at
      BY <2>3
    <3> QED
      BY <2>6, <2>7, <2>8, <3>1
  <2>10. Question[r].state = "open"
    BY <2>3
  <2>11. Board!Answer(r)
    BY <1>1, <2>9, <2>10 DEF Board!Answer, Board!Second, Published, Snapshot, Question, Asked
  <2> QED
    BY <2>11 DEF Board!Next
<1> QED
  BY <1>6, <1>7, <1>8

LEMMA BoardNext ==
  ASSUME TypeOK, StoredWhole, ReadsOK, RowsStated, Fresh, Untold, ~TruncatedReads, [Next]_vars
  PROVE  [Board!Next]_(Board!vars)
<1>0. Grown
  BY OnlyGrows
<1>1. ASSUME UNCHANGED <<rows, read>> PROVE UNCHANGED Board!vars
  <2>1. Question' = Question
    BY <1>1 DEF Question, Asked
  <2> QED
    BY <1>0, <1>1, <2>1, PublishedKept, BoardVars
<1>2. CASE Restart
  <2>1. \A r \in Readers : Asked(r)' = Board!Idle
    BY <1>2 DEF Restart, NotReading, Asked, Board!Idle
  <2>2. Question' = [r \in Readers |-> IF r \in Readers THEN Board!Idle ELSE Question[r]]
    BY <2>1 DEF Question
  <2>3. Published' = Published
    BY <1>0, <1>2, PublishedKept DEF Restart
  <2>4. Board!Drop(Readers)
    BY <2>2, <2>3 DEF Board!Drop, Published, Snapshot, Question, Asked
  <2> QED
    BY <2>4 DEF Board!Next
<1>3. \/ UNCHANGED <<rows, read>> \/ Restart \/ \E s \in Savers : Commit(s)
      \/ \E r \in Readers : QueryNewest(r) \/ QueryNewestFails(r) \/ QueryRows(r)
                            \/ QueryRowsFails(r) \/ Respond(r)
  BY DEF Next, ClockMoves, Collect, Begin, InsertWindow, SaveFails, vars
<1> QED
  BY <1>1, <1>2, <1>3, CommitPublishes, ReadOnBoard

(* The store keeps the promise of LimitBoard, BoardSpec, for any number of *)
(* savers and readers, unless an iteration over rows is cut short.         *)
THEOREM StoreKeepsPromise ==
  ASSUME ~TruncatedReads
  PROVE  Spec => BoardSpec
<1> DEFINE IInv == TypeOK /\ StoredWhole /\ ReadsOK /\ RowsStated /\ Fresh /\ Untold
<1>1. Init => IInv /\ Board!Init
  <2> SUFFICES ASSUME Init PROVE IInv /\ Board!Init
    OBVIOUS
  <2>1. Committed = {}
    BY DEF Init, Committed
  <2>2. RowsStated /\ Fresh /\ Untold
    BY <2>1 DEF Init, RowsStated, Fresh, Untold, NotSaving, NotReading
  <2>3. Board!Init
    BY <2>1 DEF Init, Board!Init, Board!Idle, NotReading
  <2> QED
    BY <2>2, <2>3, InitType, InitReads
<1>2. IInv /\ [Next]_vars => IInv'
  BY NextType, StoredWholeStep, ReadsOKStep, RowsStatedStep, FreshStep, UntoldStep
<1>3. IInv /\ [Next]_vars => [Board!Next]_(Board!vars)
  BY BoardNext
<1> HIDE DEF IInv
<1> QED
  BY <1>1, <1>2, <1>3, PTL DEF Spec, BoardSpec, Board!Spec
=============================================================================
