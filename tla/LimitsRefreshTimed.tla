------------------------- MODULE LimitsRefreshTimed -------------------------
(***************************************************************************)
(* LimitsRefresh in real time: how old the newest snapshot of a provider   *)
(* gets before a response marks it stale.                                  *)
(*                                                                         *)
(* Two assumptions are added to LimitsRefresh and only here: Run does not  *)
(* let time pass when it has something to do other than wait for a read,   *)
(* and a read takes at most MaxReadTime (both collectors have a timeout).  *)
(* Shutdown is left to LimitsRefresh: ctx is never done here.              *)
(***************************************************************************)
EXTENDS LimitsRefresh

CONSTANTS
  MaxReadTime,     \* what bounds one Fetch: the HTTP or the Codex timeout
  StaleIntervals,  \* LimitsStaleAfterIdleIntervals
  MayAnswerEmpty   \* providers whose answer may carry no window at all

ASSUME TimedAssumption ==
  /\ MaxReadTime \in Nat
  /\ StaleIntervals \in Nat \ {0}
  /\ MayAnswerEmpty \subseteq Providers

VARIABLES
  readTime,      \* how long the read in progress has taken
  snapshotAge    \* now - snapshot_at of the newest stored snapshot

timedVars == <<readTime, snapshotAge>>

StaleAge == StaleIntervals * Idle

TimedInit ==
  /\ Init
  /\ readTime = 0
  /\ snapshotAge = [p \in Providers |-> Never]

(* Run only lets time pass inside a read, or parked with nothing to take.  *)
Waiting ==
  \/ run = "fetch" /\ readTime < MaxReadTime
  \/ run = "select" /\ ~wake /\ ~tick

TimedAdvance ==
  /\ Waiting /\ marking = {}
  /\ Advance
  /\ readTime' = IF run = "fetch" THEN readTime + 1 ELSE 0
  /\ snapshotAge' = [p \in Providers |-> Older(snapshotAge[p], StaleAge + 1)]

TimedFetchReturns(err) ==
  /\ FetchReturns(err)
  /\ readTime' = 0
  /\ UNCHANGED snapshotAge

(* SaveLimits writes one row per window: an answer without windows writes  *)
(* nothing, and reports success.                                           *)
TimedSaveReturns(err) ==
  /\ SaveReturns(err)
  /\ UNCHANGED readTime
  /\ \/ ~err /\ snapshotAge' = [snapshotAge EXCEPT ![reading] = 0]
     \/ (err \/ reading \in MayAnswerEmpty) /\ UNCHANGED snapshotAge

TimedNext ==
  \/ TimedAdvance
  \/ \E err \in BOOLEAN : TimedFetchReturns(err) \/ TimedSaveReturns(err)
  \/ /\ \/ \E h \in Handlers : MarkWatched(h) \/ WakeRun(h)
        \/ CheckDue
        \/ \E p \in Providers : StartRead(p)
        \/ RecordAttempt
        \/ Park \/ SelectTick \/ SelectWake
     /\ UNCHANGED timedVars

TimedSpec == TimedInit /\ [][TimedNext]_<<vars, timedVars>>

-----------------------------------------------------------------------------
(* markStaleness and IsStale: older than the stale age. *)
Stale(p) == snapshotAge[p] > StaleAge

TimedTypeOK ==
  /\ TypeOK
  /\ readTime \in 0 .. MaxReadTime
  /\ snapshotAge \in [Providers -> {Never} \cup 0 .. StaleAge + 1]

(* The longest a provider can go from one recorded attempt to the end of   *)
(* the next, watched or not: all but due at one check, the wait for the    *)
(* next check while the ticker or the reads of the others delay it, and a  *)
(* whole round, of which its own read is the last.                         *)
ReadGap ==
  Idle - 1 + Larger(CheckEvery, (NumProviders - 1) * MaxReadTime) + NumProviders * MaxReadTime

(* A provider whose reads succeed never has a snapshot older than one gap: *)
(* slow, failing or empty reads of the others, marks and missed ticks do   *)
(* not delay it further.                                                   *)
HealthySnapshotFresh ==
  \A p \in Providers \ MayAnswerEmpty : failures[p] = 0 => snapshotAge[p] <= ReadGap

(* One missed read never makes a snapshot stale. *)
StaleAfterTwoMisses ==
  \A p \in Providers \ MayAnswerEmpty : Stale(p) => failures[p] >= StaleIntervals - 1
=============================================================================
