----------------------------- MODULE LimitStore -----------------------------
(***************************************************************************)
(* The limit_snapshots table of limits.go for one provider (no query looks *)
(* at another provider's rows): SaveLimits as a transaction that inserts a *)
(* row per window, called by the refresher and by POST /limits/refresh at  *)
(* once, and LatestLimits as the two separate queries it makes.            *)
(*                                                                         *)
(* What a window says (percentages, plan, raw answer) is one value, the    *)
(* number of the snapshot it came from.                                    *)
(***************************************************************************)
EXTENDS Integers, Sequences, FiniteSets

CONSTANTS
  Savers,          \* goroutines that fetch and save: the refresher, handlers
  Readers,         \* requests that read the latest snapshot
  WindowKeys,      \* "five_hour", "weekly", ...
  MaxClock,        \* bound on the wall clock
  MaxSnapshots,    \* bound on the answers fetched
  TruncatedReads   \* whether a row iteration may end early

ASSUME LimitStoreAssumption ==
  /\ MaxClock \in Nat \ {0} /\ MaxSnapshots \in Nat
  /\ TruncatedReads \in BOOLEAN

VARIABLES
  clock,      \* the wall clock, in seconds since the epoch
  snapshots,  \* the answers of the provider, in the order they were fetched
  rows,       \* the committed rows
  save,       \* per saver: where SaveLimits is, which snapshot, what is left
  read        \* per reader: where LatestLimits is and what it has

vars == <<clock, snapshots, rows, save, read>>

NotSaving == [pc |-> "idle", id |-> 0, left |-> {}]
NotReading == [pc |-> "idle", at |-> 0, floor |-> 0, windows |-> {}]
\* "floor" is history: the newest second stored when the question came

At(id) == snapshots[id].at
Committed == {id \in 1 .. Len(snapshots) : \E row \in rows : row.id = id}

Init ==
  /\ clock = 1
  /\ snapshots = << >>
  /\ rows = {}
  /\ save = [s \in Savers |-> NotSaving]
  /\ read = [r \in Readers |-> NotReading]

(* The wall clock moves on, or is set back by the host. *)
ClockMoves ==
  /\ clock' \in {clock - 1, clock + 1} \cap 1 .. MaxClock
  /\ UNCHANGED <<snapshots, rows, save, read>>

-----------------------------------------------------------------------------
(* A collector's answer: stamped with the second it was read, with the     *)
(* windows it happens to carry, possibly none.                             *)
Collect(s) ==
  /\ save[s].pc = "idle" /\ Len(snapshots) < MaxSnapshots
  /\ \E keys \in SUBSET WindowKeys :
       /\ snapshots' = Append(snapshots, [at |-> clock, keys |-> keys])
       /\ save' = [save EXCEPT ![s] =
                     [pc |-> "begin", id |-> Len(snapshots) + 1, left |-> keys]]
  /\ UNCHANGED <<clock, rows, read>>

Begin(s) ==
  /\ save[s].pc = "begin"
  /\ save' = [save EXCEPT ![s].pc = "insert"]
  /\ UNCHANGED <<clock, snapshots, rows, read>>

(* The first insert of a transaction takes SQLite's only write lock. *)
Holds(s) == save[s].pc = "insert" /\ save[s].left # snapshots[save[s].id].keys

(* Mutant: every insert commits on its own, without the transaction. *)
InsertWindow_AutoCommit(s) ==
  /\ save[s].pc = "insert"
  /\ \E key \in save[s].left :
       /\ save' = [save EXCEPT ![s].left = @ \ {key}]
       /\ rows' = rows \cup {[id |-> save[s].id, key |-> key]}
  /\ UNCHANGED <<clock, snapshots, read>>

(* The windows are a Go map: their order is any. *)
InsertWindow(s) ==
  /\ save[s].pc = "insert"
  /\ \A t \in Savers \ {s} : ~Holds(t)
  /\ \E key \in save[s].left : save' = [save EXCEPT ![s].left = @ \ {key}]
  /\ UNCHANGED <<clock, snapshots, rows, read>>

RowsOf(id) == {[id |-> id, key |-> key] : key \in snapshots[id].keys}

Commit(s) ==
  /\ save[s].pc = "insert" /\ save[s].left = {}
  /\ rows' = rows \cup RowsOf(save[s].id)
  /\ save' = [save EXCEPT ![s] = NotSaving]
  /\ UNCHANGED <<clock, snapshots, read>>

(* Begin, Prepare, an insert or the commit fails (a busy or full database, *)
(* a cancelled statement) and the deferred Rollback runs.                  *)
SaveFails(s) ==
  /\ save[s].pc # "idle"
  /\ save' = [save EXCEPT ![s] = NotSaving]
  /\ UNCHANGED <<clock, snapshots, rows, read>>

-----------------------------------------------------------------------------
(* LatestLimits. *)

Stamps == {At(row.id) : row \in rows}

Largest(stamps) == IF stamps = {} THEN 0 ELSE CHOOSE n \in stamps : \A m \in stamps : m <= n

(* Mutants: the row inserted last instead of the newest second, and a NULL *)
(* read as -1.                                                             *)
NewestStamp_LastInserted ==
  IF rows = {} THEN 0
  ELSE At(CHOOSE id \in Committed : \A other \in Committed : other <= id)

NewestStamp_NullIsMinusOne == IF rows = {} THEN -1 ELSE Largest(Stamps)

NewestStamp == Largest(Stamps)

(* SELECT MAX(snapshot_at).  Without rows the result is NULL, which leaves *)
(* snapAt 0 and answers "no snapshot"; a failed query leaves it 0 as well. *)
QueryNewest(r) ==
  /\ read[r].pc = "idle"
  /\ read' = [read EXCEPT ![r] =
       [pc |-> IF rows = {} THEN "nil" ELSE "group",
        at |-> NewestStamp, floor |-> Largest(Stamps), windows |-> {}]]
  /\ UNCHANGED <<clock, snapshots, rows, save>>

QueryNewestFails(r) ==
  /\ read[r].pc = "idle"
  /\ read' = [read EXCEPT ![r] =
       [pc |-> "nil", at |-> 0, floor |-> Largest(Stamps), windows |-> {}]]
  /\ UNCHANGED <<clock, snapshots, rows, save>>

(* Mutant: every row of the provider, not only those of the second.  *)
Group_AnySecond(at) == rows

Group(at) == {row \in rows : At(row.id) = at}

(* The rows of that second, in an order SQL leaves open: of two rows with  *)
(* one window key the later one wins.  rows.Err() is not asked, so a       *)
(* truncated iteration looks like a complete one.                          *)
QueryRows(r) ==
  /\ read[r].pc = "group"
  /\ \E got \in IF TruncatedReads THEN SUBSET Group(read[r].at) ELSE {Group(read[r].at)} :
       \E windows \in SUBSET got :
         /\ \A row \in got : \E w \in windows : w.key = row.key
         /\ \A v, w \in windows : v.key = w.key => v = w
         /\ read' = [read EXCEPT ![r].pc = "snapshot", ![r].windows = windows]
  /\ UNCHANGED <<clock, snapshots, rows, save>>

QueryRowsFails(r) ==
  /\ read[r].pc = "group"
  /\ read' = [read EXCEPT ![r].pc = "error"]
  /\ UNCHANGED <<clock, snapshots, rows, save>>

(* The handler writes its response. *)
Respond(r) ==
  /\ read[r].pc \in {"nil", "snapshot", "error"}
  /\ read' = [read EXCEPT ![r] = NotReading]
  /\ UNCHANGED <<clock, snapshots, rows, save>>

(* The process dies, or shuts down under its requests: the database rolls  *)
(* back what was not committed.                                            *)
Restart ==
  /\ save' = [s \in Savers |-> NotSaving]
  /\ read' = [r \in Readers |-> NotReading]
  /\ UNCHANGED <<clock, snapshots, rows>>

-----------------------------------------------------------------------------
Next ==
  \/ ClockMoves
  \/ \E s \in Savers : Collect(s) \/ Begin(s) \/ InsertWindow(s) \/ Commit(s) \/ SaveFails(s)
  \/ \E r \in Readers : \/ QueryNewest(r) \/ QueryNewestFails(r)
                        \/ QueryRows(r) \/ QueryRowsFails(r) \/ Respond(r)
  \/ Restart

Spec == Init /\ [][Next]_vars

-----------------------------------------------------------------------------
TypeOK ==
  /\ clock \in 1 .. MaxClock
  /\ snapshots \in Seq([at : 1 .. MaxClock, keys : SUBSET WindowKeys])
  /\ Len(snapshots) <= MaxSnapshots
  /\ rows \subseteq [id : 1 .. Len(snapshots), key : WindowKeys]
  /\ save \in [Savers -> [pc : {"idle", "begin", "insert"}, id : 0 .. Len(snapshots),
                          left : SUBSET WindowKeys]]
  /\ \A s \in Savers : save[s].pc # "idle" =>
       /\ save[s].id # 0
       /\ save[s].left \subseteq snapshots[save[s].id].keys
  /\ read \in [Readers -> [pc : {"idle", "group", "nil", "snapshot", "error"},
                           at : 0 .. MaxClock, floor : 0 .. MaxClock, windows : SUBSET rows]]

(* A stored snapshot is whole: no failed save, crash or overlapping save   *)
(* leaves some of the windows of an answer without the others.             *)
StoredWhole == \A id \in Committed : RowsOf(id) \subseteq rows

(* What LatestLimits answers, although its two queries see the table at    *)
(* two times and two saves may share a second: windows of one second only, *)
(* one per key, with every window of at least one snapshot among them.     *)
AnswerWhole ==
  \A r \in Readers : read[r].pc = "snapshot" =>
    /\ \A w \in read[r].windows : At(w.id) = read[r].at
    /\ \E id \in Committed : At(id) = read[r].at
         /\ snapshots[id].keys \subseteq {w.key : w \in read[r].windows}

(* An answer is never older than what was stored when the question came,   *)
(* whatever order overlapping saves commit in and wherever the clock goes. *)
AnswerNewest ==
  \A r \in Readers : read[r].pc = "snapshot" =>
    \A w \in read[r].windows : At(w.id) >= read[r].floor

(* limits.go: LatestLimits "Returns nil (no error) if no snapshot exists". *)
NilMeansNoSnapshot == \A r \in Readers : read[r].pc = "nil" => read[r].floor = 0

(* LimitStore keeps the promise of LimitBoard. *)
Board == INSTANCE LimitBoard WITH
  Ids <- 1 .. MaxSnapshots,
  Seconds <- 1 .. MaxClock,
  published <- {[id |-> id, at |-> At(id), keys |-> snapshots[id].keys] : id \in Committed},
  question <- [r \in Readers |->
    IF read[r].pc \in {"group", "snapshot"}
    THEN [state |-> IF read[r].pc = "group" THEN "open" ELSE "answered",
          at |-> read[r].at, keys |-> {w.key : w \in read[r].windows}]
    ELSE [state |-> "idle", at |-> 0, keys |-> {}]]

BoardSpec == Board!Spec
=============================================================================
