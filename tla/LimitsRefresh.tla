--------------------------- MODULE LimitsRefresh ---------------------------
(***************************************************************************)
(* The limits refresher of internal/limitsrefresh: one goroutine, Run,     *)
(* that reads each provider when its next read is due, and the HTTP        *)
(* handlers that call MarkWatched while it runs.                           *)
(*                                                                         *)
(* The code compares the monotonic clock with lastWatchedAt and            *)
(* lastAttemptAt.  Only the differences are ever used, so the model keeps  *)
(* the ages themselves and saturates them at the largest age any           *)
(* comparison can tell apart; time is therefore unbounded while the state  *)
(* space stays finite.                                                     *)
(***************************************************************************)
EXTENDS Integers, FiniteSets

CONSTANTS
  NumProviders,   \* the providers given to New, in order: 1 .. NumProviders
  Idle, Watched,  \* Intervals.Idle and Intervals.Watched, in clock units
  WatcherExpiry,  \* Intervals.WatcherExpiry
  CheckEvery,     \* the ticker's period
  Handlers        \* requests that may be inside MarkWatched at once

ASSUME IntervalsAssumption ==
  /\ NumProviders \in Nat \ {0}
  /\ Idle \in Nat \ {0}
  /\ Watched \in Nat \ {0}
  /\ WatcherExpiry \in Nat \ {0}
  /\ CheckEvery \in Nat \ {0}

Providers == 1 .. NumProviders

None == 0     \* no provider
Never == -1   \* the age of a zero time.Time

Larger(a, b) == IF a > b THEN a ELSE b
Smaller(a, b) == IF a < b THEN a ELSE b

(* No wait is ever longer than this, so no older age needs to be told apart. *)
MaxWait == Larger(Idle, Watched)

VARIABLES
  sinceWatched,    \* now - lastWatchedAt, saturated at WatcherExpiry
  sinceAttempt,    \* now - lastAttemptAt, per provider, saturated at MaxWait
  failureBackoff,  \* providerState.failureBackoff
  wake,            \* the wake channel (capacity 1) holds a value
  tick,            \* the ticker's channel (capacity 1) holds a value
  untilTick,       \* time left until the ticker fires
  cancelled,       \* ctx is done
  run,             \* where Run is
  due,             \* what refreshDueProviders has still to read
  reading,         \* the provider it is reading
  readErr,         \* the err it will give to recordAttempt
  marking,         \* handlers between MarkWatched's unlock and its send
  markUnseen,      \* history: a mark no call of dueProviders has seen yet
  failures         \* history: failed reads in a row (counted up to MaxWait)

clockVars == <<sinceWatched, sinceAttempt, tick, untilTick>>
readVars == <<due, reading, readErr>>
markVars == <<wake, marking, markUnseen>>
vars == <<sinceWatched, sinceAttempt, failureBackoff, wake, tick, untilTick,
          cancelled, run, due, reading, readErr, marking, markUnseen, failures>>

Init ==
  /\ sinceWatched = Never
  /\ sinceAttempt = [p \in Providers |-> Never]
  /\ failureBackoff = [p \in Providers |-> 0]
  /\ wake = FALSE /\ tick = FALSE
  /\ untilTick = CheckEvery
  /\ cancelled = FALSE
  /\ run = "check"
  /\ due = {} /\ reading = None /\ readErr = FALSE
  /\ marking = {} /\ markUnseen = FALSE
  /\ failures = [p \in Providers |-> 0]

-----------------------------------------------------------------------------
(* The clock, and the ticker it drives: a tick nobody has taken is not     *)
(* queued a second time.                                                   *)

Older(age, cap) == IF age = Never THEN Never ELSE Smaller(age + 1, cap)

Advance ==
  /\ sinceWatched' = Older(sinceWatched, WatcherExpiry)
  /\ sinceAttempt' = [p \in Providers |-> Older(sinceAttempt[p], MaxWait)]
  /\ untilTick' = IF untilTick = 1 THEN CheckEvery ELSE untilTick - 1
  /\ tick' = (tick \/ untilTick = 1)
  /\ UNCHANGED <<failureBackoff, cancelled, run, readVars, markVars, failures>>

-----------------------------------------------------------------------------
(* MarkWatched, called by handleLimitsWatch: the mark under the mutex, the *)
(* wake-up after it.                                                       *)

MarkWatched(h) ==
  /\ h \notin marking
  /\ sinceWatched' = 0
  /\ marking' = marking \cup {h}
  /\ markUnseen' = TRUE
  /\ UNCHANGED <<sinceAttempt, tick, untilTick, failureBackoff, wake,
                 cancelled, run, readVars, failures>>

(* Mutant: an unbuffered wake channel, so a send finds only a parked Run.  *)
WakeRun_Unbuffered(h) ==
  /\ h \in marking
  /\ marking' = marking \ {h}
  /\ wake' = (run = "select")
  /\ UNCHANGED <<clockVars, failureBackoff, cancelled, run, readVars,
                 markUnseen, failures>>

WakeRun(h) ==
  /\ h \in marking
  /\ marking' = marking \ {h}
  /\ wake' = TRUE
  /\ UNCHANGED <<clockVars, failureBackoff, cancelled, run, readVars,
                 markUnseen, failures>>

-----------------------------------------------------------------------------
(* refreshDueProviders. *)

IsWatched == sinceWatched # Never /\ sinceWatched < WatcherExpiry

(* Mutant: the watched interval replaces the backoff instead of yielding. *)
Wait_WatchedWins(p) == IF IsWatched THEN Watched ELSE Larger(Idle, failureBackoff[p])

Wait(p) == Larger(IF IsWatched THEN Watched ELSE Idle, failureBackoff[p])

IsDue(p) == sinceAttempt[p] = Never \/ sinceAttempt[p] >= Wait(p)

CheckDue ==
  /\ run = "check"
  /\ due' = {p \in Providers : IsDue(p)}
  /\ run' = "next"
  /\ markUnseen' = FALSE
  /\ UNCHANGED <<clockVars, failureBackoff, wake, marking, cancelled, reading,
                 readErr, failures>>

(* The due providers are read one after the other in the order of New. *)
StartRead(p) ==
  /\ run = "next"
  /\ p \in due /\ \A q \in due : p <= q
  /\ reading' = p
  /\ due' = due \ {p}
  /\ run' = "fetch"
  /\ UNCHANGED <<clockVars, failureBackoff, markVars, cancelled, readErr, failures>>

(* Mutant: a failed fetch skips the save and is recorded as a success. *)
FetchReturns_ErrLost(err) ==
  /\ run = "fetch"
  /\ readErr' = FALSE
  /\ run' = IF err THEN "record" ELSE "save"
  /\ UNCHANGED <<clockVars, failureBackoff, markVars, cancelled, due, reading, failures>>

FetchReturns(err) ==
  /\ run = "fetch"
  /\ readErr' = err
  /\ run' = IF err THEN "record" ELSE "save"
  /\ UNCHANGED <<clockVars, failureBackoff, markVars, cancelled, due, reading, failures>>

(* Mutant: a shadowed err, so a failed save counts as a success. *)
SaveReturns_ErrShadowed(err) ==
  /\ run = "save"
  /\ readErr' = FALSE
  /\ run' = "record"
  /\ UNCHANGED <<clockVars, failureBackoff, markVars, cancelled, due, reading, failures>>

SaveReturns(err) ==
  /\ run = "save"
  /\ readErr' = err
  /\ run' = "record"
  /\ UNCHANGED <<clockVars, failureBackoff, markVars, cancelled, due, reading, failures>>

(* Mutants: the cap forgotten, and the cap that keeps the last short wait. *)
BackoffAfterFailure_Uncapped(backoff) == IF backoff = 0 THEN Watched ELSE backoff * 2

BackoffAfterFailure_StopsDoubling(backoff) ==
  IF backoff = 0 THEN Watched ELSE IF backoff * 2 > Idle THEN backoff ELSE backoff * 2

BackoffAfterFailure(backoff) ==
  IF backoff = 0 THEN Watched
  ELSE IF backoff * 2 > Idle THEN Idle ELSE backoff * 2

RecordAttempt ==
  /\ run = "record"
  /\ sinceAttempt' = [sinceAttempt EXCEPT ![reading] = 0]
  /\ failureBackoff' = [failureBackoff EXCEPT ![reading] =
                          IF readErr THEN BackoffAfterFailure(@) ELSE 0]
  /\ failures' = [failures EXCEPT ![reading] =
                    IF readErr THEN Smaller(@ + 1, MaxWait) ELSE 0]
  /\ reading' = None
  /\ run' = "next"
  /\ UNCHANGED <<sinceWatched, tick, untilTick, markVars, cancelled, due, readErr>>

(* The select of Run: whichever case is ready, and any of several. *)
Park ==
  /\ run = "next" /\ due = {}
  /\ run' = "select"
  /\ UNCHANGED <<clockVars, failureBackoff, markVars, cancelled, readVars, failures>>

(* Mutant: ctx.Done only as a last resort, after the ticker and the wake.  *)
SelectDone_LastResort ==
  /\ run = "select" /\ cancelled /\ ~tick /\ ~wake
  /\ run' = "stopped"
  /\ UNCHANGED <<clockVars, failureBackoff, markVars, cancelled, readVars, failures>>

SelectDone ==
  /\ run = "select" /\ cancelled
  /\ run' = "stopped"
  /\ UNCHANGED <<clockVars, failureBackoff, markVars, cancelled, readVars, failures>>

(* Mutants: a tick, or a wake-up, is taken without looking again. *)
SelectTick_NoCheck ==
  /\ run = "select" /\ tick
  /\ tick' = FALSE
  /\ UNCHANGED <<sinceWatched, sinceAttempt, untilTick, failureBackoff, run,
                 markVars, cancelled, readVars, failures>>

SelectWake_NoCheck ==
  /\ run = "select" /\ wake
  /\ wake' = FALSE
  /\ UNCHANGED <<clockVars, failureBackoff, marking, markUnseen, cancelled, run,
                 readVars, failures>>

SelectTick ==
  /\ run = "select" /\ tick
  /\ tick' = FALSE
  /\ run' = "check"
  /\ UNCHANGED <<sinceWatched, sinceAttempt, untilTick, failureBackoff,
                 markVars, cancelled, readVars, failures>>

SelectWake ==
  /\ run = "select" /\ wake
  /\ wake' = FALSE
  /\ run' = "check"
  /\ UNCHANGED <<clockVars, failureBackoff, marking, markUnseen, cancelled,
                 readVars, failures>>

(* main cancels ctx at shutdown. *)
Cancel ==
  /\ ~cancelled
  /\ cancelled' = TRUE
  /\ UNCHANGED <<clockVars, failureBackoff, markVars, run, readVars, failures>>

-----------------------------------------------------------------------------
RunStep ==
  \/ CheckDue
  \/ \E p \in Providers : StartRead(p)
  \/ \E err \in BOOLEAN : FetchReturns(err) \/ SaveReturns(err)
  \/ RecordAttempt
  \/ Park \/ SelectDone \/ SelectTick \/ SelectWake

Next ==
  \/ Advance
  \/ \E h \in Handlers : MarkWatched(h) \/ WakeRun(h)
  \/ RunStep
  \/ Cancel

Spec == Init /\ [][Next]_vars

(* The Go scheduler runs a goroutine that can run, and a read returns: the *)
(* collectors' clients have timeouts.  Of several ready cases select picks *)
(* one at random, so it does not pass over a ready ctx.Done forever.       *)
Fairness ==
  /\ WF_vars(RunStep)
  /\ SF_vars(SelectDone)
  /\ \A h \in Handlers : WF_vars(WakeRun(h))

(* Nothing here makes the clock, hence the ticker, go on. *)
FairSpec == Spec /\ Fairness

-----------------------------------------------------------------------------
(* The shape of the state. *)
TypeOK ==
  /\ sinceWatched \in {Never} \cup 0 .. WatcherExpiry
  /\ sinceAttempt \in [Providers -> {Never} \cup 0 .. MaxWait]
  /\ failureBackoff \in [Providers -> 0 .. MaxWait]
  /\ wake \in BOOLEAN /\ tick \in BOOLEAN
  /\ untilTick \in 1 .. CheckEvery
  /\ cancelled \in BOOLEAN
  /\ run \in {"check", "next", "fetch", "save", "record", "select", "stopped"}
  /\ due \subseteq Providers
  /\ reading \in Providers \cup {None}
  /\ (reading # None) <=> (run \in {"fetch", "save", "record"})
  /\ readErr \in BOOLEAN
  /\ marking \subseteq Handlers
  /\ markUnseen \in BOOLEAN
  /\ failures \in [Providers -> 0 .. MaxWait]

(* A wake-up is never lost.  MarkWatched drops its send when the channel is *)
(* full, and Run takes the value before it looks: still, whenever a mark   *)
(* has not been seen by dueProviders, something on the way will make Run   *)
(* look again without waiting for the ticker.                              *)
NoLostWake == markUnseen => wake \/ marking # {} \/ run \in {"check", "stopped"}

\* The watched interval, doubled n times.
Doubled[n \in Nat] == IF n = 0 THEN Watched ELSE 2 * Doubled[n - 1]

(* The wait after a failure is what the package comment says it is: one    *)
(* watched interval after the first, twice as long after each further one, *)
(* never past the idle interval; a success clears it.                      *)
BackoffFollowsFailures ==
  \A p \in Providers :
    failureBackoff[p] = IF failures[p] = 0 THEN 0
                        ELSE Smaller(Doubled[failures[p] - 1], Idle)

(* A provider is never asked again before its backoff is over, nor faster  *)
(* than the watched interval, however many wake-ups and ticks arrive and   *)
(* however long the reads before it in the same round take.  The shorter   *)
(* of the two intervals is meant: a configuration may swap them.           *)
ReadsSpaced ==
  [][\A p \in Providers : (reading' = p /\ reading # p) =>
        \/ sinceAttempt[p] = Never
        \/ sinceAttempt[p] >= Larger(Smaller(Watched, Idle), failureBackoff[p])]_vars

(* As long as time goes on every provider is read again and again, whatever *)
(* fails and whether or not anyone watches, until shutdown.                *)
EveryProviderReadAgain ==
  WF_vars(Advance) => \A p \in Providers : []<>(reading = p \/ run = "stopped")

(* A mark that makes a read due has it read even if the ticker never fires *)
(* again: "happens at once instead of on the next scheduled check".        *)
WatchedReadIsServed ==
  \A p \in Providers :
    (markUnseen /\ IsWatched /\ IsDue(p)) ~> (reading = p \/ ~IsWatched \/ run = "stopped")

(* Cancelling ctx ends Run although select may prefer a tick or a wake-up. *)
CancelStopsRun == cancelled ~> (run = "stopped")
=============================================================================
