------------------------ MODULE LimitsRefresh_proofs ------------------------
(* Theorems about LimitsRefresh, for every number of providers, every set  *)
(* of handlers and every positive choice of the intervals, and, in the     *)
(* last part, about LimitsRefreshTimed, for every bound on a read and      *)
(* every choice of the intervals in which the watched one is not the       *)
(* longer.                                                                 *)
EXTENDS LimitsRefreshTimed, WellFoundedInduction, TLAPS

(* A wait is bounded by MaxWait and never below either of its parts. *)
LEMMA MaxWaitFacts ==
  /\ MaxWait \in Nat \ {0}
  /\ Idle <= MaxWait /\ Watched <= MaxWait
  /\ Smaller(Watched, Idle) <= MaxWait
BY IntervalsAssumption DEF MaxWait, Larger, Smaller

(* The backoff after one more failure is positive and within MaxWait. *)
LEMMA BackoffAfterFailureType ==
  ASSUME NEW b \in 0 .. MaxWait
  PROVE  BackoffAfterFailure(b) \in 0 .. MaxWait
BY IntervalsAssumption DEF BackoffAfterFailure, MaxWait, Larger

(* An age grows or stays saturated, and stays in its range. *)
LEMMA OlderType ==
  ASSUME NEW cap \in Nat, NEW age \in {Never} \cup 0 .. cap
  PROVE  /\ Older(age, cap) \in {Never} \cup 0 .. cap
         /\ age = Never <=> Older(age, cap) = Never
         /\ Older(age, cap) >= age
BY DEF Older, Smaller, Never

LEMMA InitType == Init => TypeOK
<1> SUFFICES ASSUME Init PROVE TypeOK
  OBVIOUS
<1>1. wake \in BOOLEAN /\ tick \in BOOLEAN /\ cancelled \in BOOLEAN
        /\ readErr \in BOOLEAN /\ markUnseen \in BOOLEAN
  BY DEF Init
<1>2. sinceAttempt \in [Providers -> {Never} \cup 0 .. MaxWait]
  BY DEF Init
<1>3. failureBackoff \in [Providers -> 0 .. MaxWait]
      /\ failures \in [Providers -> 0 .. MaxWait]
  BY MaxWaitFacts DEF Init
<1>4. untilTick \in 1 .. CheckEvery
  BY IntervalsAssumption DEF Init
<1> QED
  BY <1>1, <1>2, <1>3, <1>4 DEF Init, TypeOK, None

LEMMA NextType == TypeOK /\ [Next]_vars => TypeOK'
<1> SUFFICES ASSUME TypeOK, [Next]_vars PROVE TypeOK'
  OBVIOUS
<1> USE IntervalsAssumption, MaxWaitFacts
<1>1. CASE Advance
  <2>1. sinceWatched' \in {Never} \cup 0 .. WatcherExpiry
    BY <1>1, OlderType DEF Advance, TypeOK
  <2>2. sinceAttempt' \in [Providers -> {Never} \cup 0 .. MaxWait]
    BY <1>1, OlderType DEF Advance, TypeOK
  <2>3. untilTick' \in 1 .. CheckEvery /\ tick' \in BOOLEAN
    BY <1>1 DEF Advance, TypeOK
  <2> QED
    BY <1>1, <2>1, <2>2, <2>3 DEF Advance, TypeOK, readVars, markVars
<1>2. ASSUME NEW h \in Handlers, MarkWatched(h) PROVE TypeOK'
  BY <1>2 DEF MarkWatched, TypeOK, readVars
<1>3. ASSUME NEW h \in Handlers, WakeRun(h) PROVE TypeOK'
  BY <1>3 DEF WakeRun, TypeOK, clockVars, readVars
<1>4. CASE CheckDue
  BY <1>4 DEF CheckDue, TypeOK, clockVars
<1>5. ASSUME NEW p \in Providers, StartRead(p) PROVE TypeOK'
  <2>1. reading' = p /\ p # None /\ run' = "fetch" /\ due' \subseteq Providers
    BY <1>5 DEF StartRead, TypeOK, None, Providers
  <2> QED
    BY <1>5, <2>1 DEF StartRead, TypeOK, clockVars, markVars
<1>6. ASSUME NEW err \in BOOLEAN, FetchReturns(err) PROVE TypeOK'
  BY <1>6 DEF FetchReturns, TypeOK, clockVars, markVars
<1>7. ASSUME NEW err \in BOOLEAN, SaveReturns(err) PROVE TypeOK'
  BY <1>7 DEF SaveReturns, TypeOK, clockVars, markVars
<1>8. CASE RecordAttempt
  <2>0. reading \in Providers
    BY <1>8 DEF RecordAttempt, TypeOK
  <2>1. sinceAttempt' \in [Providers -> {Never} \cup 0 .. MaxWait]
    BY <1>8, <2>0 DEF RecordAttempt, TypeOK
  <2>2. failureBackoff' \in [Providers -> 0 .. MaxWait]
    BY <1>8, <2>0, BackoffAfterFailureType DEF RecordAttempt, TypeOK
  <2>3. failures' \in [Providers -> 0 .. MaxWait]
    BY <1>8, <2>0 DEF RecordAttempt, TypeOK, Smaller
  <2> QED
    BY <1>8, <2>1, <2>2, <2>3 DEF RecordAttempt, TypeOK, markVars
<1>9. CASE Park \/ SelectDone
  BY <1>9 DEF Park, SelectDone, TypeOK, clockVars, markVars, readVars
<1>10. CASE SelectTick
  BY <1>10 DEF SelectTick, TypeOK, markVars, readVars
<1>11. CASE SelectWake
  BY <1>11 DEF SelectWake, TypeOK, clockVars, readVars
<1>12. CASE Cancel
  BY <1>12 DEF Cancel, TypeOK, clockVars, markVars, readVars
<1>13. CASE UNCHANGED vars
  BY <1>13 DEF vars, TypeOK
<1> QED
  BY <1>1, <1>2, <1>3, <1>4, <1>5, <1>6, <1>7, <1>8, <1>9, <1>10, <1>11, <1>12,
     <1>13 DEF Next, RunStep

(* Every variable keeps its shape, in particular every backoff and every   *)
(* age stays within the longest interval.                                  *)
THEOREM TypeCorrect == Spec => []TypeOK
BY InitType, NextType, PTL DEF Spec
-----------------------------------------------------------------------------
(* No interleaving of marks, ticks and rounds of reads loses a wake-up: a  *)
(* mark dueProviders has not seen is always followed by a look of Run that *)
(* does not need the ticker.                                               *)
THEOREM WakeNeverLost == Spec => []NoLostWake
<1>1. Init => NoLostWake
  BY DEF Init, NoLostWake
<1>2. NoLostWake /\ [Next]_vars => NoLostWake'
  <2> SUFFICES ASSUME NoLostWake, [Next]_vars PROVE NoLostWake'
    OBVIOUS
  <2>1. CASE Advance
    BY <2>1 DEF Advance, NoLostWake, markVars
  <2>2. ASSUME NEW h \in Handlers, MarkWatched(h) PROVE NoLostWake'
    BY <2>2 DEF MarkWatched, NoLostWake
  <2>3. ASSUME NEW h \in Handlers, WakeRun(h) PROVE NoLostWake'
    BY <2>3 DEF WakeRun, NoLostWake
  <2>4. CASE CheckDue
    BY <2>4 DEF CheckDue, NoLostWake
  <2>5. ASSUME NEW p \in Providers, StartRead(p) PROVE NoLostWake'
    BY <2>5 DEF StartRead, NoLostWake, markVars
  <2>6. ASSUME NEW err \in BOOLEAN, FetchReturns(err) \/ SaveReturns(err)
        PROVE  NoLostWake'
    BY <2>6 DEF FetchReturns, SaveReturns, NoLostWake, markVars
  <2>7. CASE RecordAttempt
    BY <2>7 DEF RecordAttempt, NoLostWake, markVars
  <2>8. CASE Park \/ SelectDone \/ SelectTick
    BY <2>8 DEF Park, SelectDone, SelectTick, NoLostWake, markVars
  <2>9. CASE SelectWake
    BY <2>9 DEF SelectWake, NoLostWake
  <2>10. CASE Cancel
    BY <2>10 DEF Cancel, NoLostWake, markVars
  <2>11. CASE UNCHANGED vars
    BY <2>11 DEF vars, NoLostWake
  <2> QED
    BY <2>1, <2>2, <2>3, <2>4, <2>5, <2>6, <2>7, <2>8, <2>9, <2>10, <2>11
    DEF Next, RunStep
<1> QED
  BY <1>1, <1>2, PTL DEF Spec

-----------------------------------------------------------------------------
(* The list dueProviders returns is used while time passes and other       *)
(* providers are read.  It does not go stale in the harmful direction: a   *)
(* provider still on it may still be read, whatever happened since.        *)

MayRead(p) ==
  \/ sinceAttempt[p] = Never
  \/ sinceAttempt[p] >= Larger(Smaller(Watched, Idle), failureBackoff[p])

DueMayRead ==
  /\ reading \notin due
  /\ \A p \in due : MayRead(p)

LEMMA DueMayReadStep ==
  ASSUME TypeOK, DueMayRead, [Next]_vars
  PROVE  DueMayRead'
<1> USE IntervalsAssumption, MaxWaitFacts
<1>1. CASE Advance
  <2> SUFFICES ASSUME NEW p \in due PROVE MayRead(p)'
    BY <1>1 DEF Advance, readVars, DueMayRead
  <2>1. p \in Providers /\ MayRead(p) /\ failureBackoff' = failureBackoff
    BY <1>1 DEF Advance, TypeOK, DueMayRead
  <2>2. /\ sinceAttempt'[p] = Older(sinceAttempt[p], MaxWait)
        /\ sinceAttempt[p] \in {Never} \cup 0 .. MaxWait
        /\ failureBackoff[p] \in 0 .. MaxWait
    BY <1>1, <2>1 DEF Advance, TypeOK
  <2>3. /\ sinceAttempt[p] = Never <=> sinceAttempt'[p] = Never
        /\ sinceAttempt'[p] >= sinceAttempt[p]
        /\ sinceAttempt'[p] \in {Never} \cup 0 .. MaxWait
    BY <2>2, OlderType
  <2> QED
    BY <2>1, <2>2, <2>3 DEF MayRead, Larger, Smaller, Never
<1>2. CASE CheckDue
  <2>0. reading' \notin due'
    BY <1>2 DEF CheckDue, TypeOK, None, Providers
  <2> SUFFICES ASSUME NEW p \in due' PROVE MayRead(p)'
    BY <2>0 DEF DueMayRead
  <2>1. p \in Providers /\ IsDue(p)
    BY <1>2 DEF CheckDue
  <2>2. sinceAttempt[p] \in {Never} \cup 0 .. MaxWait /\ failureBackoff[p] \in 0 .. MaxWait
    BY <2>1 DEF TypeOK
  <2>3. MayRead(p)
    BY <2>1, <2>2 DEF IsDue, Wait, MayRead, Larger, Smaller, Never
  <2> QED
    BY <1>2, <2>3 DEF CheckDue, clockVars, MayRead
<1>3. ASSUME NEW p \in Providers, StartRead(p) PROVE DueMayRead'
  BY <1>3 DEF StartRead, clockVars, DueMayRead, MayRead
<1>4. CASE RecordAttempt
  <2>1. reading' \notin due'
    BY <1>4 DEF RecordAttempt, TypeOK, None, Providers
  <2> SUFFICES ASSUME NEW p \in due PROVE MayRead(p)'
    BY <1>4, <2>1 DEF RecordAttempt, DueMayRead
  <2>2. p # reading /\ p \in Providers /\ MayRead(p)
    BY DEF DueMayRead, TypeOK
  <2> QED
    BY <2>2, <1>4 DEF RecordAttempt, TypeOK, MayRead
<1>5. CASE UNCHANGED <<sinceAttempt, failureBackoff, due, reading>>
  BY <1>5 DEF DueMayRead, MayRead
<1>6. ASSUME NEW h \in Handlers, MarkWatched(h) \/ WakeRun(h)
      PROVE  UNCHANGED <<sinceAttempt, failureBackoff, due, reading>>
  BY <1>6 DEF MarkWatched, WakeRun, readVars, clockVars
<1>7. ASSUME NEW err \in BOOLEAN, FetchReturns(err) \/ SaveReturns(err)
      PROVE  UNCHANGED <<sinceAttempt, failureBackoff, due, reading>>
  BY <1>7 DEF FetchReturns, SaveReturns, clockVars
<1>8. CASE Park \/ SelectDone \/ SelectTick \/ SelectWake \/ Cancel \/ UNCHANGED vars
  BY <1>8, <1>5 DEF Park, SelectDone, SelectTick, SelectWake, Cancel, vars,
     readVars, clockVars
<1> QED
  BY <1>1, <1>2, <1>3, <1>4, <1>5, <1>6, <1>7, <1>8 DEF Next, RunStep
(* A read starts only with a provider on the list. *)
LEMMA StartsFromList ==
  ASSUME TypeOK, [Next]_vars, NEW p \in Providers, reading' = p, reading # p
  PROVE  p \in due
BY DEF Next, RunStep, StartRead, Advance, MarkWatched, WakeRun, CheckDue, FetchReturns,
   SaveReturns, RecordAttempt, Park, SelectDone, SelectTick, SelectWake, Cancel,
   vars, readVars, None, Providers

(* Anthropic's rate limit is shared with every process on the login: no    *)
(* sequence of marks, ticks, slow reads and failures makes the refresher   *)
(* ask a provider faster than the shorter interval or inside its backoff.  *)
THEOREM ReadsAreSpaced == Spec => ReadsSpaced
<1>1. Init => DueMayRead
  BY DEF Init, DueMayRead
<1>2. TypeOK /\ DueMayRead /\ [Next]_vars =>
        [\A p \in Providers : (reading' = p /\ reading # p) =>
           \/ sinceAttempt[p] = Never
           \/ sinceAttempt[p] >= Larger(Smaller(Watched, Idle), failureBackoff[p])]_vars
  BY StartsFromList DEF DueMayRead, MayRead
<1> QED
  BY <1>1, <1>2, InitType, NextType, DueMayReadStep, PTL DEF Spec, ReadsSpaced

-----------------------------------------------------------------------------
(* Doubled is defined by recursion: it exists, and unfolds.  Each step is  *)
(* shown for the smallest number it could fail for.                        *)

LEMMA SmallestNumber ==
  ASSUME NEW C, C \subseteq Nat, C # {}
  PROVE  \E m \in C : \A n \in C : m <= n
<1> DEFINE R == OpToRel(<, Nat)
<1>1. IsWellFoundedOn(R, Nat)
  BY NatLessThanWellFounded
<1>2. PICK m \in C : \A n \in C : ~ (<<n, m>> \in R)
  <2> HIDE DEF R
  <2> QED
    BY <1>1, WFMin
<1>3. ASSUME NEW n \in C PROVE m <= n
  <2>1. n \in Nat /\ m \in Nat
    BY <1>3
  <2>2. ~ (<<n, m>> \in R)
    BY <1>2, <1>3
  <2>3. ~ (n < m)
    BY <2>1, <2>2 DEF OpToRel
  <2> QED
    BY <2>1, <2>3
<1> QED
  BY <1>3

\* g is the table of Doubled from 0 to n.
IsTable(g, n) == g = [i \in 0 .. n |-> IF i = 0 THEN Watched ELSE 2 * g[i - 1]]

Table(n) == CHOOSE g : IsTable(g, n)

LEMMA TablesAgree ==
  ASSUME NEW m \in Nat, NEW n \in Nat, NEW g, IsTable(g, m), NEW h, IsTable(h, n)
  PROVE  \A i \in 0 .. m : i <= n => g[i] = h[i]
<1> DEFINE C == {i \in 0 .. m : i <= n /\ g[i] # h[i]}
<1> SUFFICES ASSUME C # {} PROVE FALSE
  OBVIOUS
<1>1. PICK i \in C : \A j \in C : i <= j
  <2>1. C \subseteq Nat
    OBVIOUS
  <2> HIDE DEF C
  <2> QED
    BY <2>1, SmallestNumber
<1>2. i # 0
  BY DEF IsTable
<1>3. g[i] = 2 * g[i - 1] /\ h[i] = 2 * h[i - 1]
  BY <1>2 DEF IsTable
<1>4. g[i - 1] = h[i - 1]
  BY <1>1, <1>2
<1> QED
  BY <1>3, <1>4

LEMMA TableExists == ASSUME NEW n \in Nat PROVE IsTable(Table(n), n)
<1> DEFINE C == {m \in Nat : ~ \E g : IsTable(g, m)}
<1> SUFFICES ASSUME C # {} PROVE FALSE
  BY DEF Table
<1>1. PICK m \in C : \A j \in C : m <= j
  <2>1. C \subseteq Nat
    OBVIOUS
  <2> HIDE DEF C
  <2> QED
    BY <2>1, SmallestNumber
<1>2. CASE m = 0
  <2> DEFINE g == [i \in 0 .. 0 |-> Watched]
  <2>1. IsTable(g, 0)
    BY DEF IsTable
  <2> QED
    BY <1>2, <2>1
<1>3. CASE m # 0
  <2>1. PICK g : IsTable(g, m - 1)
    BY <1>1, <1>3
  <2> DEFINE h == [i \in 0 .. m |-> IF i = m THEN 2 * g[m - 1] ELSE g[i]]
  <2>2. ASSUME NEW i \in 0 .. m PROVE h[i] = IF i = 0 THEN Watched ELSE 2 * h[i - 1]
    BY <1>3, <2>1 DEF IsTable
  <2>3. IsTable(h, m)
    BY <2>2 DEF IsTable
  <2> QED
    BY <2>3
<1> QED
  BY <1>2, <1>3

LEMMA DoubledUnfolds ==
  \A n \in Nat : Doubled[n] = IF n = 0 THEN Watched ELSE 2 * Doubled[n - 1]
<1> DEFINE Unfolds(f) == f = [n \in Nat |-> IF n = 0 THEN Watched ELSE 2 * f[n - 1]]
           f == [n \in Nat |-> Table(n)[n]]
<1>1. ASSUME NEW n \in Nat PROVE f[n] = IF n = 0 THEN Watched ELSE 2 * f[n - 1]
  <2>1. IsTable(Table(n), n)
    BY TableExists
  <2>2. CASE n = 0
    BY <2>1, <2>2 DEF IsTable
  <2>3. CASE n # 0
    <3>1. IsTable(Table(n - 1), n - 1)
      BY <2>3, TableExists
    <3>2. Table(n)[n - 1] = Table(n - 1)[n - 1]
      BY <2>1, <2>3, <3>1, TablesAgree
    <3>3. Table(n)[n] = 2 * Table(n)[n - 1]
      BY <2>1, <2>3 DEF IsTable
    <3> QED
      BY <2>3, <3>2, <3>3
  <2> QED
    BY <2>2, <2>3
<1>2. Unfolds(f)
  BY <1>1
<1>3. Unfolds(Doubled)
  <2> HIDE DEF f
  <2> QED
    BY <1>2 DEF Doubled
<1> QED
  BY <1>3

(* n doublings reach beyond n. *)
LEMMA DoubledGrows == \A n \in Nat : Doubled[n] \in Nat /\ Doubled[n] > n
<1> DEFINE C == {n \in Nat : ~ (Doubled[n] \in Nat /\ Doubled[n] > n)}
<1> SUFFICES ASSUME C # {} PROVE FALSE
  OBVIOUS
<1>1. PICK m \in C : \A j \in C : m <= j
  <2>1. C \subseteq Nat
    OBVIOUS
  <2> HIDE DEF C
  <2> QED
    BY <2>1, SmallestNumber
<1>2. m # 0
  BY DoubledUnfolds, IntervalsAssumption
<1>3. Doubled[m - 1] \in Nat /\ Doubled[m - 1] > m - 1
  BY <1>1, <1>2
<1>4. Doubled[m] = 2 * Doubled[m - 1]
  BY <1>2, DoubledUnfolds
<1> QED
  BY <1>2, <1>3, <1>4
-----------------------------------------------------------------------------
(* With the watched interval no longer than the idle one, the wait of a    *)
(* provider is the watched interval doubled with each further failure and  *)
(* cut off at the idle one: BackoffFollowsFailures.                        *)
THEOREM BackoffDoubles ==
  ASSUME Watched <= Idle
  PROVE  Spec => []BackoffFollowsFailures
<1>0. MaxWait = Idle
  BY IntervalsAssumption DEF MaxWait, Larger
<1> DEFINE Follows(b, n) == b = IF n = 0 THEN 0 ELSE Smaller(Doubled[n - 1], Idle)
<1>1. Init => BackoffFollowsFailures
  BY DEF Init, BackoffFollowsFailures
<1>2. ASSUME NEW n \in 0 .. MaxWait, NEW b, Follows(b, n)
      PROVE  Follows(BackoffAfterFailure(b), Smaller(n + 1, MaxWait))
  <2>1. CASE n = 0
    BY <1>0, <1>2, <2>1, DoubledUnfolds, IntervalsAssumption
    DEF BackoffAfterFailure, Smaller
  <2>2. CASE n # 0
    <3>1. /\ n - 1 \in Nat /\ n \in Nat
          /\ Doubled[n - 1] \in Nat /\ Doubled[n - 1] > n - 1
          /\ Doubled[n] = 2 * Doubled[n - 1]
      BY <2>2, DoubledUnfolds, DoubledGrows
    <3>2. b = Smaller(Doubled[n - 1], Idle)
      BY <1>2, <2>2
    <3>3. CASE n < Idle
      <4>1. Smaller(n + 1, MaxWait) = n + 1
        BY <1>0, <3>1, <3>3, IntervalsAssumption DEF Smaller
      <4>2. BackoffAfterFailure(b) = Smaller(Doubled[n], Idle)
        BY <3>1, <3>2, IntervalsAssumption DEF BackoffAfterFailure, Smaller
      <4> QED
        BY <3>1, <4>1, <4>2
    <3>4. CASE n = Idle
      <4>1. Smaller(n + 1, MaxWait) = n
        BY <1>0, <3>1, <3>4, IntervalsAssumption DEF Smaller
      <4>2. b = Idle /\ BackoffAfterFailure(b) = Idle
        BY <3>1, <3>2, <3>4, IntervalsAssumption DEF BackoffAfterFailure, Smaller
      <4> QED
        BY <2>2, <3>2, <4>1, <4>2
    <3> QED
      BY <1>0, <3>1, <3>3, <3>4, IntervalsAssumption
  <2> QED
    BY <2>1, <2>2
<1>3. TypeOK /\ BackoffFollowsFailures /\ [Next]_vars => BackoffFollowsFailures'
  <2> SUFFICES ASSUME TypeOK, BackoffFollowsFailures, [Next]_vars, NEW p \in Providers
               PROVE  Follows(failureBackoff'[p], failures'[p])
    BY DEF BackoffFollowsFailures
  <2>1. Follows(failureBackoff[p], failures[p]) /\ failures[p] \in 0 .. MaxWait
    BY DEF BackoffFollowsFailures, TypeOK
  <2>2. CASE RecordAttempt
    <3>1. failureBackoff \in [Providers -> 0 .. MaxWait] /\ failures \in [Providers -> 0 .. MaxWait]
      BY DEF TypeOK
    <3>2. CASE p = reading /\ readErr
      <4>1. /\ failureBackoff'[p] = BackoffAfterFailure(failureBackoff[p])
            /\ failures'[p] = Smaller(failures[p] + 1, MaxWait)
        BY <2>2, <3>1, <3>2 DEF RecordAttempt
      <4> HIDE DEF Follows
      <4> QED
        BY <1>2, <2>1, <4>1
    <3>3. CASE p = reading /\ ~readErr
      <4>1. failureBackoff'[p] = 0 /\ failures'[p] = 0
        BY <2>2, <3>1, <3>3 DEF RecordAttempt
      <4> QED
        BY <4>1
    <3>4. CASE p # reading
      <4>1. failureBackoff'[p] = failureBackoff[p] /\ failures'[p] = failures[p]
        BY <2>2, <3>1, <3>4 DEF RecordAttempt
      <4> QED
        BY <2>1, <4>1
    <3> QED
      BY <3>2, <3>3, <3>4
  <2>3. CASE UNCHANGED <<failureBackoff, failures>>
    BY <2>1, <2>3
  <2>4. RecordAttempt \/ UNCHANGED <<failureBackoff, failures>>
    BY DEF Next, RunStep, StartRead, Advance, MarkWatched, WakeRun, CheckDue, FetchReturns,
       SaveReturns, Park, SelectDone, SelectTick, SelectWake, Cancel, vars
  <2> QED
    BY <2>2, <2>3, <2>4
<1> QED
  BY <1>1, <1>3, InitType, NextType, PTL DEF Spec

-----------------------------------------------------------------------------
(* What WatchedReadIsServed rests on. *)

\* p is on the list, or a mark nobody has seen finds it due.
Promised(p) == p \in due \/ (markUnseen /\ IsWatched /\ IsDue(p))

(* A provider that is due stays due until it is read, as long as someone   *)
(* watches.                                                                *)
LEMMA DueUntilRead ==
  ASSUME TypeOK, [Next]_vars, NEW p \in Providers, IsDue(p), reading # p,
         IsWatched, IsWatched'
  PROVE  IsDue(p)'
<1> USE IntervalsAssumption, MaxWaitFacts
<1>1. /\ sinceAttempt[p] \in {Never} \cup 0 .. MaxWait
      /\ failureBackoff[p] \in 0 .. MaxWait
  BY DEF TypeOK
<1>2. Wait(p) = Larger(Watched, failureBackoff[p])
  BY DEF Wait
<1>3. Wait(p)' = Larger(Watched, failureBackoff'[p])
  BY DEF Wait
<1>4. CASE Advance
  <2>1. /\ sinceAttempt'[p] = Older(sinceAttempt[p], MaxWait)
        /\ failureBackoff'[p] = failureBackoff[p]
    BY <1>4 DEF Advance
  <2>2. /\ sinceAttempt[p] = Never <=> sinceAttempt'[p] = Never
        /\ sinceAttempt'[p] >= sinceAttempt[p]
        /\ sinceAttempt'[p] \in {Never} \cup 0 .. MaxWait
    BY <1>1, <2>1, OlderType
  <2> QED
    BY <1>1, <1>2, <1>3, <2>1, <2>2 DEF IsDue, Larger, Never
<1>5. CASE RecordAttempt
  <2>1. sinceAttempt'[p] = sinceAttempt[p] /\ failureBackoff'[p] = failureBackoff[p]
    BY <1>5 DEF RecordAttempt, TypeOK
  <2> QED
    BY <1>2, <1>3, <2>1 DEF IsDue
<1>6. CASE UNCHANGED <<sinceAttempt, failureBackoff>>
  BY <1>2, <1>3, <1>6 DEF IsDue
<1>7. Advance \/ RecordAttempt \/ UNCHANGED <<sinceAttempt, failureBackoff>>
  BY DEF Next, RunStep, MarkWatched, WakeRun, CheckDue, StartRead, FetchReturns, SaveReturns,
     Park, SelectDone, SelectTick, SelectWake, Cancel, vars, clockVars
<1> QED
  BY <1>4, <1>5, <1>6, <1>7

(* A mark is forgotten only by the look that puts every due provider on    *)
(* the list.                                                               *)
LEMMA MarkForgotten ==
  ASSUME [Next]_vars, markUnseen, ~ markUnseen', NEW p \in Providers, IsDue(p)
  PROVE  p \in due'
BY DEF Next, RunStep, Advance, MarkWatched, WakeRun, CheckDue, StartRead, FetchReturns,
   SaveReturns, RecordAttempt, Park, SelectDone, SelectTick, SelectWake, Cancel, vars,
   markVars

(* A provider leaves the list only to be read. *)
LEMMA ListedUntilRead ==
  ASSUME [Next]_vars, NEW p \in due, p \in Providers, p \notin due'
  PROVE  reading' = p \/ run = "check"
BY DEF Next, RunStep, Advance, MarkWatched, WakeRun, CheckDue, StartRead, FetchReturns,
   SaveReturns, RecordAttempt, Park, SelectDone, SelectTick, SelectWake, Cancel, vars,
   readVars

(* The list is empty whenever Run looks at the providers again. *)
ListedInRound == run \in {"check", "select", "stopped"} => due = {}

LEMMA ListedInRoundInit == Init => ListedInRound
BY DEF Init, ListedInRound

LEMMA ListedInRoundNext == TypeOK /\ ListedInRound /\ [Next]_vars => ListedInRound'
BY DEF Next, RunStep, Advance, MarkWatched, WakeRun, CheckDue, StartRead, FetchReturns,
   SaveReturns, RecordAttempt, Park, SelectDone, SelectTick, SelectWake, Cancel, vars,
   readVars, ListedInRound

(* A mark that finds a provider due is kept until the provider is read or  *)
(* nobody watches any more: no look, tick, wake-up or failure of another   *)
(* provider in between loses it.                                           *)
THEOREM MarkKeptUntilRead ==
  Spec => [][\A p \in Providers :
               Promised(p) => Promised(p)' \/ reading = p \/ reading' = p \/ ~ IsWatched']_vars
<1>1. TypeOK /\ ListedInRound /\ [Next]_vars =>
        [\A p \in Providers :
           Promised(p) => Promised(p)' \/ reading = p \/ reading' = p \/ ~ IsWatched']_vars
  <2> SUFFICES ASSUME TypeOK, ListedInRound, [Next]_vars, NEW p \in Providers, Promised(p),
                      reading # p, reading' # p, IsWatched'
               PROVE  Promised(p)'
    OBVIOUS
  <2>1. CASE p \in due
    BY <2>1, ListedUntilRead DEF Promised, ListedInRound
  <2>2. CASE markUnseen /\ IsWatched /\ IsDue(p)
    <3>1. IsDue(p)'
      BY <2>2, DueUntilRead
    <3>2. markUnseen' \/ p \in due'
      BY <2>2, MarkForgotten
    <3> QED
      BY <3>1, <3>2 DEF Promised
  <2> QED
    BY <2>1, <2>2 DEF Promised
<1> QED
  BY <1>1, InitType, NextType, ListedInRoundInit, ListedInRoundNext, PTL DEF Spec

-----------------------------------------------------------------------------
(* The refresher in real time. *)

LEMMA TimedInitType == TimedInit => TimedTypeOK
<1> SUFFICES ASSUME TimedInit PROVE TimedTypeOK
  OBVIOUS
<1>1. TypeOK
  BY InitType DEF TimedInit
<1> QED
  BY <1>1, TimedAssumption DEF TimedInit, TimedTypeOK

(* Every step of the timed refresher is a step of the refresher. *)
LEMMA TimedIsRefresh == [TimedNext]_<<vars, timedVars>> => [Next]_vars
BY DEF TimedNext, TimedAdvance, TimedFetchReturns, TimedSaveReturns, Next, RunStep, vars

LEMMA TimedNextType == TimedTypeOK /\ [TimedNext]_<<vars, timedVars>> => TimedTypeOK'
<1> SUFFICES ASSUME TimedTypeOK, [TimedNext]_<<vars, timedVars>> PROVE TimedTypeOK'
  OBVIOUS
<1>1. TypeOK'
  BY NextType, TimedIsRefresh DEF TimedTypeOK
<1>2. StaleAge + 1 \in Nat
  BY IntervalsAssumption, TimedAssumption DEF StaleAge
<1>3. CASE TimedAdvance
  <2>1. readTime' \in 0 .. MaxReadTime
    BY <1>3, TimedAssumption DEF TimedAdvance, Waiting, TimedTypeOK
  <2>2. snapshotAge' \in [Providers -> {Never} \cup 0 .. StaleAge + 1]
    BY <1>3, <1>2, OlderType DEF TimedAdvance, TimedTypeOK
  <2> QED
    BY <1>1, <2>1, <2>2 DEF TimedTypeOK
<1>4. ASSUME NEW err \in BOOLEAN, TimedFetchReturns(err) PROVE TimedTypeOK'
  BY <1>1, <1>4, TimedAssumption DEF TimedFetchReturns, TimedTypeOK
<1>5. ASSUME NEW err \in BOOLEAN, TimedSaveReturns(err) PROVE TimedTypeOK'
  <2>1. reading \in Providers
    BY <1>5 DEF TimedSaveReturns, SaveReturns, TimedTypeOK, TypeOK
  <2> QED
    BY <1>1, <1>2, <1>5, <2>1 DEF TimedSaveReturns, TimedTypeOK
<1>6. CASE UNCHANGED timedVars
  BY <1>1, <1>6 DEF timedVars, TimedTypeOK
<1> QED
  BY <1>3, <1>4, <1>5, <1>6 DEF TimedNext

(* The refresher in real time keeps its shape: no read lasts longer than   *)
(* its timeout, and every age is one a comparison can tell apart.          *)
THEOREM TimedTypeCorrect == TimedSpec => []TimedTypeOK
BY TimedInitType, TimedNextType, PTL DEF TimedSpec

-----------------------------------------------------------------------------
(* Products with a variable, kept closed behind what is used of them.      *)

(* How long k reads may take. *)
Reads(k) == k * MaxReadTime

LEMMA ReadsFacts ==
  /\ Reads(0) = 0
  /\ \A k \in Nat : Reads(k) \in Nat /\ Reads(k + 1) = Reads(k) + MaxReadTime
  /\ \A j, k \in Nat : j <= k => Reads(j) <= Reads(k)
<1>0. MaxReadTime \in Nat
  BY TimedAssumption
<1>1. Reads(0) = 0
  BY <1>0 DEF Reads
<1>2. ASSUME NEW k \in Nat PROVE Reads(k) \in Nat /\ Reads(k + 1) = Reads(k) + MaxReadTime
  BY <1>0 DEF Reads
<1>3. ASSUME NEW j \in Nat, NEW k \in Nat, j <= k PROVE Reads(j) <= Reads(k)
  <2>1. PICK d \in Nat : k = j + d
    <3>1. k - j \in Nat /\ k = j + (k - j)
      BY <1>3
    <3> QED
      BY <3>1
  <2>2. (j + d) * MaxReadTime = j * MaxReadTime + d * MaxReadTime
    BY <1>0
  <2>3. j * MaxReadTime \in Nat /\ d * MaxReadTime \in Nat
    BY <1>0
  <2> QED
    BY <2>1, <2>2, <2>3 DEF Reads
<1> QED
  BY <1>1, <1>2, <1>3

(* What the failures of a provider may add to the age of its snapshot.     *)
Missed(n) == n * ReadGap

(* The age at which a provider is found due at the latest. *)
FoundBy == Idle - 1 + Larger(CheckEvery, Reads(NumProviders - 1))

LEMMA GapFacts ==
  /\ FoundBy \in Nat /\ ReadGap \in Nat
  /\ ReadGap = FoundBy + Reads(NumProviders)
  /\ Idle - 1 + CheckEvery <= FoundBy
  /\ Idle - 1 + Reads(NumProviders - 1) <= FoundBy
<1>1. NumProviders - 1 \in Nat /\ NumProviders \in Nat
  BY IntervalsAssumption
<1>2. Reads(NumProviders - 1) \in Nat /\ Reads(NumProviders) \in Nat
  BY <1>1, ReadsFacts
<1>3. ReadGap = FoundBy + Reads(NumProviders)
  BY DEF ReadGap, FoundBy, Reads
<1>4. FoundBy \in Nat /\ Idle - 1 + CheckEvery <= FoundBy
        /\ Idle - 1 + Reads(NumProviders - 1) <= FoundBy
  BY <1>2, IntervalsAssumption DEF FoundBy, Larger
<1> QED
  BY <1>2, <1>3, <1>4

LEMMA MissedFacts ==
  /\ Missed(0) = 0
  /\ \A n \in Nat : Missed(n) \in Nat /\ Missed(n + 1) = Missed(n) + ReadGap
BY GapFacts DEF Missed

-----------------------------------------------------------------------------
(* Where a round of reads stands: providers are read in order, and a       *)
(* recorded success has stored a snapshot.                                 *)
Round ==
  /\ run # "stopped"
  /\ run # "fetch" => readTime = 0
  /\ run \in {"fetch", "save", "record"} => \A q \in due : reading < q
  /\ run = "select" => due = {}
  /\ run = "record" /\ ~readErr /\ reading \notin MayAnswerEmpty => snapshotAge[reading] = 0

LEMMA RoundInit == TimedInit => Round
BY DEF TimedInit, Init, Round

LEMMA RoundNext == TimedTypeOK /\ Round /\ [TimedNext]_<<vars, timedVars>> => Round'
<1> SUFFICES ASSUME TimedTypeOK, Round, [TimedNext]_<<vars, timedVars>> PROVE Round'
  OBVIOUS
<1> USE DEF TimedTypeOK, TypeOK
<1>1. CASE TimedAdvance
  BY <1>1 DEF TimedAdvance, Waiting, Advance, readVars, Round
<1>2. ASSUME NEW err \in BOOLEAN, TimedFetchReturns(err) PROVE Round'
  BY <1>2 DEF TimedFetchReturns, FetchReturns, Round
<1>3. ASSUME NEW err \in BOOLEAN, TimedSaveReturns(err) PROVE Round'
  BY <1>3 DEF TimedSaveReturns, SaveReturns, Round
<1>4. CASE UNCHANGED <<run, due, reading, readErr, timedVars>>
  BY <1>4 DEF timedVars, Round
<1>5. CASE CheckDue /\ UNCHANGED timedVars
  BY <1>5 DEF CheckDue, timedVars, Round
<1>6. ASSUME NEW q \in Providers, StartRead(q), UNCHANGED timedVars PROVE Round'
  <2>1. \A r \in due' : q < r
    BY <1>6 DEF StartRead, Providers
  <2> QED
    BY <1>6, <2>1 DEF StartRead, timedVars, Round
<1>7. CASE (RecordAttempt \/ Park \/ SelectTick \/ SelectWake) /\ UNCHANGED timedVars
  BY <1>7 DEF RecordAttempt, Park, SelectTick, SelectWake, readVars, timedVars, Round
<1>8. ASSUME NEW h \in Handlers, MarkWatched(h) \/ WakeRun(h)
      PROVE  UNCHANGED <<run, due, reading, readErr>>
  BY <1>8 DEF MarkWatched, WakeRun, readVars
<1> QED
  BY <1>1, <1>2, <1>3, <1>4, <1>5, <1>6, <1>7, <1>8 DEF TimedNext, vars

-----------------------------------------------------------------------------
(* The age of a snapshot beyond what its failures explain. *)
Extra(p) == snapshotAge[p] - Missed(failures[p])

(* The reads of the first k providers, without the one of p. *)
Others(p, k) == Reads(IF k < p THEN k ELSE k - 1)

(* The last attempt and the snapshot are of one time. *)
Attempted(p) ==
  \/ run = "record" /\ reading = p
  \/ sinceAttempt[p] = Never /\ snapshotAge[p] = Never
  \/ sinceAttempt[p] # Never /\ (sinceAttempt[p] < Idle => Extra(p) <= sinceAttempt[p])

(* Found due and not yet read in this round. *)
Awaited(p) ==
  p \in due \/ reading = p =>
    /\ run = "next" =>
         \E k \in 0 .. NumProviders :
           (\A q \in due : k < q) /\ Extra(p) <= FoundBy + Reads(k)
    /\ run = "fetch" => Extra(p) <= FoundBy + Reads(reading - 1) + readTime
    /\ run = "save" => Extra(p) <= FoundBy + Reads(reading)
    /\ run = "record" => Extra(p) <= FoundBy + Reads(reading)

(* Read already, or found not to be due: at the check it was younger than  *)
(* the idle interval, and neither the round nor the tick is far away.      *)
Passed(p) ==
  p \notin due /\ reading # p =>
    /\ run # "check" /\ ~tick => Extra(p) <= Idle - 1 + CheckEvery - untilTick
    /\ run = "next" =>
         \E k \in 0 .. NumProviders :
           (\A q \in due : k < q) /\ Extra(p) <= Idle - 1 + Others(p, k)
    /\ run = "fetch" => Extra(p) <= Idle - 1 + Others(p, reading - 1) + readTime
    /\ run \in {"save", "record"} => Extra(p) <= Idle - 1 + Others(p, reading)

AgeExplained(p) ==
  failures[p] < MaxWait =>
    /\ Attempted(p)
    /\ run \in {"check", "select"} => Extra(p) <= FoundBy
    /\ Awaited(p)
    /\ Passed(p)

Ages == \A p \in Providers \ MayAnswerEmpty : AgeExplained(p)

LEMMA OthersFacts ==
  ASSUME NEW p \in Providers
  PROVE  /\ Others(p, 0) = 0
         /\ \A k \in 0 .. NumProviders : Others(p, k) \in Nat /\ Others(p, k) <= Reads(NumProviders - 1)
         /\ \A j, k \in 0 .. NumProviders : j <= k => Others(p, j) <= Others(p, k)
         /\ \A k \in Providers \ {p} : Others(p, k) = Others(p, k - 1) + MaxReadTime
<1> USE IntervalsAssumption, ReadsFacts DEF Providers
<1>0. MaxReadTime \in Nat
  BY TimedAssumption
<1>1. Others(p, 0) = 0
  BY DEF Others
<1>2. ASSUME NEW k \in 0 .. NumProviders
      PROVE  Others(p, k) \in Nat /\ Others(p, k) <= Reads(NumProviders - 1)
  <2>1. CASE k < p
    BY <2>1 DEF Others
  <2>2. CASE ~(k < p)
    BY <2>2 DEF Others
  <2> QED
    BY <2>1, <2>2
<1>3. ASSUME NEW j \in 0 .. NumProviders, NEW k \in 0 .. NumProviders, j <= k
      PROVE  Others(p, j) <= Others(p, k)
  <2>1. CASE k < p
    BY <1>3, <2>1 DEF Others
  <2>2. CASE ~(k < p) /\ j < p
    <3>1. j <= k - 1 /\ k - 1 \in Nat
      BY <2>2
    <3> QED
      BY <2>2, <3>1 DEF Others
  <2>3. CASE ~(k < p) /\ ~(j < p)
    <3>1. j - 1 <= k - 1 /\ k - 1 \in Nat /\ j - 1 \in Nat
      BY <1>3, <2>3
    <3> QED
      BY <2>3, <3>1 DEF Others
  <2> QED
    BY <2>1, <2>2, <2>3
<1>4. ASSUME NEW k \in Providers \ {p} PROVE Others(p, k) = Others(p, k - 1) + MaxReadTime
  <2>1. CASE k < p
    <3>1. k - 1 \in Nat /\ k - 1 < p /\ k = (k - 1) + 1
      BY <2>1
    <3>2. Reads((k - 1) + 1) = Reads(k - 1) + MaxReadTime
      BY <3>1
    <3> QED
      BY <2>1, <3>1, <3>2 DEF Others
  <2>2. CASE ~(k < p)
    <3>1. k - 2 \in Nat /\ ~(k - 1 < p) /\ k - 1 = (k - 2) + 1 /\ k - 1 - 1 = k - 2
      BY <2>2
    <3>2. Reads((k - 2) + 1) = Reads(k - 2) + MaxReadTime
      BY <3>1
    <3> QED
      BY <2>2, <3>1, <3>2 DEF Others
  <2> QED
    BY <2>1, <2>2
<1> QED
  BY <1>1, <1>2, <1>3, <1>4

LEMMA AgesInit == TimedInit => Ages
<1> SUFFICES ASSUME TimedInit, NEW p \in Providers \ MayAnswerEmpty PROVE AgeExplained(p)
  BY DEF Ages
<1>1. /\ snapshotAge[p] = Never /\ sinceAttempt[p] = Never /\ failures[p] = 0
      /\ run = "check" /\ due = {} /\ reading = None
  BY DEF TimedInit, Init
<1>2. Extra(p) = -1
  BY <1>1, MissedFacts DEF Extra, Never
<1> QED
  BY <1>1, <1>2, GapFacts DEF AgeExplained, Attempted, Awaited, Passed, None, Providers

(* The numbers of one provider that the steps below compare. *)
LEMMA Numbers ==
  ASSUME TimedTypeOK, NEW p \in Providers
  PROVE  /\ snapshotAge[p] \in Nat \cup {Never} /\ failures[p] \in Nat
         /\ Missed(failures[p]) \in Nat
         /\ Extra(p) \in Int /\ Extra(p) <= snapshotAge[p]
         /\ sinceAttempt[p] \in Nat \cup {Never}
         /\ untilTick \in Nat /\ 1 <= untilTick /\ untilTick <= CheckEvery
         /\ readTime \in Nat /\ readTime <= MaxReadTime
         /\ CheckEvery \in Nat /\ Idle \in Nat /\ 1 <= Idle
<1>1. StaleAge + 1 \in Nat
  BY IntervalsAssumption, TimedAssumption DEF StaleAge
<1>2. snapshotAge[p] \in Nat \cup {Never} /\ failures[p] \in Nat
        /\ sinceAttempt[p] \in Nat \cup {Never}
  BY <1>1, MaxWaitFacts DEF TimedTypeOK, TypeOK
<1>3. Missed(failures[p]) \in Nat
  BY <1>2, MissedFacts
<1>4. Extra(p) \in Int /\ Extra(p) <= snapshotAge[p]
  BY <1>2, <1>3 DEF Extra, Never
<1> QED
  BY <1>2, <1>3, <1>4, IntervalsAssumption, TimedAssumption DEF TimedTypeOK, TypeOK

(* As time passes every age grows by one at most, and by exactly one for   *)
(* an attempt whose age is not yet saturated.                              *)
LEMMA AdvanceAges ==
  ASSUME Watched <= Idle, TimedTypeOK, Round, NEW p \in Providers,
         AgeExplained(p), TimedAdvance
  PROVE  AgeExplained(p)'
<1> SUFFICES ASSUME failures'[p] < MaxWait PROVE AgeExplained(p)'
  BY DEF AgeExplained
<1>0. /\ failures' = failures /\ run' = run /\ due' = due /\ reading' = reading
      /\ snapshotAge'[p] = Older(snapshotAge[p], StaleAge + 1)
      /\ sinceAttempt'[p] = Older(sinceAttempt[p], MaxWait)
      /\ untilTick' = IF untilTick = 1 THEN CheckEvery ELSE untilTick - 1
      /\ tick' = (tick \/ untilTick = 1)
      /\ run \in {"fetch", "select"}
      /\ run = "select" => ~tick
      /\ run = "fetch" => readTime' = readTime + 1
  BY DEF TimedAdvance, Advance, Waiting, readVars
<1>1. Attempted(p) /\ Awaited(p) /\ Passed(p)
  BY <1>0 DEF AgeExplained
<1>2. StaleAge + 1 \in Nat /\ MaxWait = Idle
  BY IntervalsAssumption, TimedAssumption DEF StaleAge, MaxWait, Larger
<1>3. /\ Extra(p)' <= Extra(p) + 1
      /\ snapshotAge[p] = Never => snapshotAge'[p] = Never
      /\ Extra(p)' \in Int
  BY <1>0, <1>2, Numbers DEF Extra, Older, Smaller, Never
<1>4. /\ sinceAttempt[p] = Never <=> sinceAttempt'[p] = Never
      /\ sinceAttempt'[p] < Idle /\ sinceAttempt[p] # Never =>
           sinceAttempt'[p] = sinceAttempt[p] + 1 /\ sinceAttempt[p] < Idle
  BY <1>0, <1>2, Numbers, IntervalsAssumption DEF Older, Smaller, Never
<1>5. Attempted(p)'
  BY <1>0, <1>1, <1>3, <1>4, Numbers DEF Attempted
<1>6. Awaited(p)'
  <2>1. CASE run = "fetch"
    <3>1. reading - 1 \in Nat
      BY <2>1 DEF TimedTypeOK, TypeOK, Providers, None
    <3>2. FoundBy + Reads(reading - 1) \in Nat
      <4>1. Reads(reading - 1) \in Nat
        BY <3>1, ReadsFacts
      <4> QED
        BY <4>1, GapFacts
    <3> QED
      BY <1>0, <1>1, <1>3, <2>1, <3>2, Numbers DEF Awaited
  <2>2. CASE run = "select"
    BY <1>0, <2>2 DEF Awaited
  <2> QED
    BY <1>0, <2>1, <2>2
<1>7. Passed(p)'
  <2> SUFFICES ASSUME p \notin due, reading # p PROVE Passed(p)'
    BY <1>0 DEF Passed
  <2>1. ASSUME ~tick' PROVE Extra(p)' <= Idle - 1 + CheckEvery - untilTick'
    <3>1. ~tick /\ untilTick' = untilTick - 1 /\ run # "check"
      BY <1>0, <2>1
    <3>2. Extra(p) <= Idle - 1 + CheckEvery - untilTick
      BY <1>1, <3>1 DEF Passed
    <3> QED
      BY <1>3, <3>1, <3>2, Numbers
  <2>2. CASE run = "fetch"
    <3>1. reading - 1 \in 0 .. NumProviders
      BY <2>2, IntervalsAssumption DEF TimedTypeOK, TypeOK, Providers, None
    <3>2. Others(p, reading - 1) \in Nat
      BY <3>1, OthersFacts
    <3> QED
      BY <1>0, <1>1, <1>3, <2>1, <2>2, <3>2, Numbers DEF Passed, Others
  <2>3. CASE run = "select"
    BY <1>0, <2>1, <2>3 DEF Passed
  <2> QED
    BY <1>0, <2>2, <2>3
<1>8. run' \in {"check", "select"} => Extra(p)' <= FoundBy
  <2> SUFFICES ASSUME run = "select" PROVE Extra(p)' <= FoundBy
    BY <1>0
  <2>1. p \notin due /\ reading # p
    BY DEF Round, TimedTypeOK, TypeOK, None, Providers
  <2>2. Extra(p) <= Idle - 1 + CheckEvery - untilTick
    BY <1>0, <1>1, <2>1 DEF Passed
  <2> QED
    BY <1>3, <2>2, Numbers, GapFacts
<1> QED
  BY <1>5, <1>6, <1>7, <1>8 DEF AgeExplained

(* What the steps of a round need of a provider whose ages do not change.  *)
LEMMA ExtraKept ==
  ASSUME NEW p, snapshotAge' = snapshotAge, failures' = failures
  PROVE  Extra(p)' = Extra(p)
BY DEF Extra

LEMMA CheckAges ==
  ASSUME Watched <= Idle, TimedTypeOK, NEW p \in Providers, AgeExplained(p),
         CheckDue, UNCHANGED timedVars
  PROVE  AgeExplained(p)'
<1> SUFFICES ASSUME failures'[p] < MaxWait PROVE AgeExplained(p)'
  BY DEF AgeExplained
<1>0. /\ run = "check" /\ run' = "next" /\ reading' = reading /\ reading = None
      /\ due' = {q \in Providers : IsDue(q)} /\ failures' = failures
      /\ sinceAttempt' = sinceAttempt /\ tick' = tick /\ untilTick' = untilTick
      /\ snapshotAge' = snapshotAge
  BY DEF CheckDue, clockVars, timedVars, TimedTypeOK, TypeOK
<1>1. Extra(p)' = Extra(p) /\ Attempted(p) /\ Extra(p) <= FoundBy
  BY <1>0, ExtraKept DEF AgeExplained
<1>2. Attempted(p)'
  BY <1>0, <1>1 DEF Attempted, None, Providers
<1>3. 0 \in 0 .. NumProviders /\ \A q \in due' : 0 < q
  BY <1>0, IntervalsAssumption DEF Providers
<1>4. Awaited(p)'
  <2>1. Extra(p)' <= FoundBy + Reads(0)
    BY <1>1, ReadsFacts, GapFacts
  <2>2. \E k \in 0 .. NumProviders : (\A q \in due' : k < q) /\ Extra(p)' <= FoundBy + Reads(k)
    BY <1>3, <2>1
  <2> QED
    BY <1>0, <2>2 DEF Awaited
<1>5. Passed(p)'
  <2> SUFFICES ASSUME p \notin due' PROVE Passed(p)'
    BY DEF Passed
  <2>1. /\ sinceAttempt[p] # Never /\ sinceAttempt[p] < Idle
    <3>1. failureBackoff[p] \in 0 .. Idle
      BY IntervalsAssumption DEF TimedTypeOK, TypeOK, MaxWait, Larger
    <3> QED
      BY <1>0, <3>1, Numbers, IntervalsAssumption DEF IsDue, Wait, Larger, Never
  <2>2. Extra(p)' <= Idle - 1
    BY <1>0, <1>1, <2>1, Numbers DEF Attempted, Never, None, Providers
  <2>3. Extra(p)' <= Idle - 1 + CheckEvery - untilTick'
    BY <1>0, <1>1, <2>2, Numbers
  <2>4. Extra(p)' <= Idle - 1 + Others(p, 0)
    BY <1>1, <2>2, OthersFacts, Numbers
  <2>5. \E k \in 0 .. NumProviders :
          (\A q \in due' : k < q) /\ Extra(p)' <= Idle - 1 + Others(p, k)
    BY <1>3, <2>4
  <2> QED
    BY <1>0, <2>3, <2>5 DEF Passed, Others
<1> QED
  BY <1>0, <1>2, <1>4, <1>5 DEF AgeExplained

LEMMA StartAges ==
  ASSUME TimedTypeOK, Round, NEW p \in Providers, AgeExplained(p),
         NEW q \in Providers, StartRead(q), UNCHANGED timedVars
  PROVE  AgeExplained(p)'
<1> SUFFICES ASSUME failures'[p] < MaxWait PROVE AgeExplained(p)'
  BY DEF AgeExplained
<1>0. /\ run = "next" /\ run' = "fetch" /\ reading' = q /\ due' = due \ {q}
      /\ q \in due /\ failures' = failures /\ reading = None
      /\ sinceAttempt' = sinceAttempt /\ tick' = tick /\ untilTick' = untilTick
      /\ snapshotAge' = snapshotAge /\ readTime' = 0
  BY DEF StartRead, clockVars, timedVars, TimedTypeOK, TypeOK, Round
<1>1. Extra(p)' = Extra(p) /\ Attempted(p) /\ Awaited(p) /\ Passed(p)
  BY <1>0, ExtraKept DEF AgeExplained
<1>2. Attempted(p)'
  BY <1>0, <1>1 DEF Attempted
<1>3. q - 1 \in 0 .. NumProviders
  BY IntervalsAssumption DEF Providers
<1>4. Awaited(p)'
  <2> SUFFICES ASSUME p \in due' \/ reading' = p PROVE Extra(p)' <= FoundBy + Reads(q - 1) + 0
    BY <1>0 DEF Awaited
  <2>1. PICK k \in 0 .. NumProviders : (\A r \in due : k < r) /\ Extra(p) <= FoundBy + Reads(k)
    BY <1>0, <1>1 DEF Awaited
  <2>2. k \in Nat /\ q - 1 \in Nat /\ k <= q - 1
    BY <1>0, <1>3, <2>1, IntervalsAssumption DEF Providers
  <2>3. Reads(k) \in Nat /\ Reads(q - 1) \in Nat /\ Reads(k) <= Reads(q - 1)
    BY <2>2, ReadsFacts
  <2> QED
    BY <1>1, <2>1, <2>3, GapFacts, Numbers
<1>5. Passed(p)'
  <2> SUFFICES ASSUME p \notin due', reading' # p PROVE Passed(p)'
    BY DEF Passed
  <2>0. p \notin due /\ reading # p
    BY <1>0 DEF None, Providers
  <2>1. PICK k \in 0 .. NumProviders :
          (\A r \in due : k < r) /\ Extra(p) <= Idle - 1 + Others(p, k)
    BY <1>0, <1>1, <2>0 DEF Passed
  <2>2. k <= q - 1
    BY <1>0, <1>3, <2>1, IntervalsAssumption DEF Providers
  <2>3. Others(p, k) \in Nat /\ Others(p, q - 1) \in Nat /\ Others(p, k) <= Others(p, q - 1)
    BY <1>3, <2>2, OthersFacts
  <2>4. Extra(p)' <= Idle - 1 + Others(p, q - 1) + 0
    BY <1>1, <2>1, <2>3, Numbers
  <2> QED
    BY <1>0, <1>1, <2>0, <2>4 DEF Passed, Others
<1> QED
  BY <1>0, <1>2, <1>4, <1>5 DEF AgeExplained

(* The end of a fetch, and of a save: a snapshot stored now has age 0. *)
LEMMA ReturnAges ==
  ASSUME TimedTypeOK, Round, NEW p \in Providers, AgeExplained(p), NEW err \in BOOLEAN,
         TimedFetchReturns(err) \/ TimedSaveReturns(err)
  PROVE  AgeExplained(p)'
<1> SUFFICES ASSUME failures'[p] < MaxWait PROVE AgeExplained(p)'
  BY DEF AgeExplained
<1>0. /\ run \in {"fetch", "save"} /\ run' \in {"save", "record"}
      /\ run = "save" => run' = "record"
      /\ reading' = reading /\ due' = due
      /\ failures' = failures /\ sinceAttempt' = sinceAttempt
      /\ tick' = tick /\ untilTick' = untilTick
      /\ \/ snapshotAge' = snapshotAge
         \/ run = "save" /\ snapshotAge' = [snapshotAge EXCEPT ![reading] = 0]
  BY DEF TimedFetchReturns, TimedSaveReturns, FetchReturns, SaveReturns, clockVars
<1> reading \in Providers
  BY <1>0 DEF TimedTypeOK, TypeOK
<1>1. Attempted(p) /\ Awaited(p) /\ Passed(p)
  BY <1>0 DEF AgeExplained
<1>2. /\ p # reading => snapshotAge'[p] = snapshotAge[p]
      /\ snapshotAge' = snapshotAge \/ snapshotAge' = [snapshotAge EXCEPT ![reading] = 0]
  BY <1>0 DEF TimedTypeOK
<1>3. p # reading \/ snapshotAge' = snapshotAge => Extra(p)' = Extra(p)
  BY <1>0, <1>2 DEF Extra
<1>4. CASE p = reading /\ snapshotAge' # snapshotAge
  <2>1. run = "save" /\ run' = "record" /\ snapshotAge'[p] = 0
    BY <1>0, <1>4 DEF TimedTypeOK
  <2>2. Extra(p)' <= 0 /\ Extra(p)' \in Int
    <3>1. Extra(p)' = 0 - Missed(failures[p])
      BY <1>0, <2>1 DEF Extra
    <3> QED
      BY <3>1, Numbers
  <2>3. FoundBy + Reads(reading) \in Nat
    <3>1. reading \in Nat
      BY DEF Providers
    <3>2. Reads(reading) \in Nat
      BY <3>1, ReadsFacts
    <3>3. FoundBy \in Nat
      BY GapFacts
    <3> QED
      BY <3>2, <3>3
  <2> QED
    BY <1>0, <1>4, <2>1, <2>2, <2>3, GapFacts DEF AgeExplained, Attempted, Awaited, Passed
<1>5. CASE Extra(p)' = Extra(p) /\ snapshotAge'[p] = snapshotAge[p]
  <2>1. Attempted(p)'
    BY <1>0, <1>1, <1>5 DEF Attempted
  <2>2. reading - 1 \in Nat /\ reading = (reading - 1) + 1 /\ reading \in 0 .. NumProviders
          /\ reading - 1 \in 0 .. NumProviders
    BY <1>0, IntervalsAssumption DEF Providers
  <2>3. Awaited(p)'
    <3> SUFFICES ASSUME p \in due \/ reading = p PROVE Extra(p) <= FoundBy + Reads(reading)
      BY <1>0, <1>5 DEF Awaited
    <3>1. CASE run = "save"
      BY <1>1, <3>1 DEF Awaited
    <3>2. CASE run = "fetch"
      <4>1. Reads(reading) = Reads(reading - 1) + MaxReadTime /\ Reads(reading - 1) \in Nat
        BY <2>2, ReadsFacts
      <4>2. Extra(p) <= FoundBy + Reads(reading - 1) + readTime
        BY <1>1, <3>2 DEF Awaited
      <4> QED
        BY <4>1, <4>2, GapFacts, Numbers, TimedAssumption
    <3> QED
      BY <1>0, <3>1, <3>2
  <2>4. Passed(p)'
    <3> SUFFICES ASSUME p \notin due, reading # p PROVE Passed(p)'
      BY <1>0 DEF Passed
    <3>1. ~tick' => Extra(p)' <= Idle - 1 + CheckEvery - untilTick'
      BY <1>0, <1>1, <1>5 DEF Passed
    <3>2. Extra(p) <= Idle - 1 + Others(p, reading)
      <4>1. CASE run = "save"
        BY <1>1, <4>1 DEF Passed
      <4>2. CASE run = "fetch"
        <5>1. Others(p, reading) = Others(p, reading - 1) + MaxReadTime
                /\ Others(p, reading - 1) \in Nat
          BY <1>0, <2>2, OthersFacts
        <5>2. Extra(p) <= Idle - 1 + Others(p, reading - 1) + readTime
          BY <1>1, <4>2 DEF Passed
        <5> QED
          BY <5>1, <5>2, Numbers, TimedAssumption
      <4> QED
        BY <1>0, <4>1, <4>2
    <3>3. Others(p, reading)' = Others(p, reading)
      BY <1>0 DEF Others
    <3> QED
      BY <1>0, <1>5, <3>1, <3>2, <3>3 DEF Passed
  <2> QED
    BY <1>0, <2>1, <2>3, <2>4 DEF AgeExplained
<1> QED
  BY <1>2, <1>3, <1>4, <1>5

(* A recorded failure pays for the gap since the attempt before it. *)
LEMMA RecordAges ==
  ASSUME TimedTypeOK, Round, NEW p \in Providers \ MayAnswerEmpty, AgeExplained(p),
         RecordAttempt, UNCHANGED timedVars
  PROVE  AgeExplained(p)'
<1> SUFFICES ASSUME failures'[p] < MaxWait PROVE AgeExplained(p)'
  BY DEF AgeExplained
<1>0. /\ run = "record" /\ run' = "next" /\ reading' = None /\ due' = due
      /\ reading \in Providers /\ tick' = tick /\ untilTick' = untilTick
      /\ sinceAttempt' = [sinceAttempt EXCEPT ![reading] = 0]
      /\ failures' = [failures EXCEPT ![reading] =
                         IF readErr THEN Smaller(@ + 1, MaxWait) ELSE 0]
      /\ snapshotAge' = snapshotAge
      /\ \A q \in due : reading < q
  BY DEF RecordAttempt, timedVars, TimedTypeOK, TypeOK, Round
<1>1. reading \in 0 .. NumProviders /\ 0 \in 0 .. NumProviders /\ \A q \in due : 0 < q
  BY <1>0, IntervalsAssumption DEF Providers, TimedTypeOK, TypeOK
<1>2. CASE p = reading
  <2>1. p \notin due /\ sinceAttempt'[p] = 0
    BY <1>0, <1>2 DEF TimedTypeOK, TypeOK, Providers
  <2>2. Extra(p)' <= 0 /\ Extra(p)' \in Int
    <3>1. CASE ~readErr
      <4>1. snapshotAge[p] = 0 /\ failures'[p] = 0
        BY <1>0, <1>2, <3>1 DEF Round, TimedTypeOK, TypeOK
      <4> QED
        BY <1>0, <4>1, MissedFacts DEF Extra
    <3>2. CASE readErr
      <4>1. failures'[p] = failures[p] + 1 /\ failures[p] < MaxWait
        <5>1. failures'[p] = Smaller(failures[p] + 1, MaxWait)
          BY <1>0, <1>2, <3>2 DEF TimedTypeOK, TypeOK
        <5> QED
          BY <5>1, Numbers, MaxWaitFacts DEF Smaller
      <4>2. Extra(p) <= FoundBy + Reads(reading)
        BY <1>0, <1>2, <4>1 DEF AgeExplained, Awaited
      <4>3. Reads(reading) \in Nat /\ Reads(reading) <= Reads(NumProviders)
              /\ Reads(NumProviders) \in Nat
        BY <1>0, <1>1, ReadsFacts, IntervalsAssumption DEF Providers
      <4>4. Extra(p) <= ReadGap
        BY <4>2, <4>3, GapFacts, Numbers
      <4>5. Missed(failures[p] + 1) = Missed(failures[p]) + ReadGap
        BY MissedFacts, Numbers
      <4>6. Extra(p)' = Extra(p) - ReadGap
        BY <1>0, <4>1, <4>5, Numbers, GapFacts DEF Extra, Never
      <4> QED
        BY <4>4, <4>6, Numbers, GapFacts
    <3> QED
      BY <3>1, <3>2 DEF TimedTypeOK, TypeOK
  <2>3. Attempted(p)'
    BY <2>1, <2>2 DEF Attempted, Never
  <2>4. Awaited(p)'
    BY <1>0, <2>1 DEF Awaited, None, Providers
  <2>5. Extra(p)' <= Idle - 1 + CheckEvery - untilTick'
    BY <1>0, <2>2, Numbers
  <2>6. Extra(p)' <= Idle - 1 + Others(p, 0)
    BY <2>2, OthersFacts, Numbers
  <2>7. \E k \in 0 .. NumProviders :
          (\A q \in due' : k < q) /\ Extra(p)' <= Idle - 1 + Others(p, k)
    BY <1>0, <1>1, <2>6
  <2> QED
    BY <1>0, <2>3, <2>4, <2>5, <2>7 DEF AgeExplained, Passed, Others
<1>3. CASE p # reading
  <2>1. failures'[p] = failures[p] /\ sinceAttempt'[p] = sinceAttempt[p]
    BY <1>0, <1>3 DEF TimedTypeOK, TypeOK
  <2>2. Extra(p)' = Extra(p) /\ Attempted(p) /\ Awaited(p) /\ Passed(p)
    BY <1>0, <2>1 DEF AgeExplained, Extra
  <2>3. Attempted(p)'
    BY <1>0, <1>3, <2>1, <2>2 DEF Attempted
  <2>4. Awaited(p)'
    <3> SUFFICES ASSUME p \in due PROVE Awaited(p)'
      BY <1>0 DEF Awaited, None, Providers
    <3>1. Extra(p)' <= FoundBy + Reads(reading)
      BY <1>0, <2>2 DEF Awaited
    <3>2. \E k \in 0 .. NumProviders : (\A q \in due' : k < q) /\ Extra(p)' <= FoundBy + Reads(k)
      BY <1>0, <1>1, <3>1
    <3> QED
      BY <1>0, <3>2 DEF Awaited
  <2>5. Passed(p)'
    <3> SUFFICES ASSUME p \notin due PROVE Passed(p)'
      BY <1>0 DEF Passed
    <3>1. ~tick' => Extra(p)' <= Idle - 1 + CheckEvery - untilTick'
      BY <1>0, <1>3, <2>2 DEF Passed
    <3>2. Extra(p)' <= Idle - 1 + Others(p, reading)
      BY <1>0, <1>3, <2>2 DEF Passed
    <3>3. \E k \in 0 .. NumProviders :
            (\A q \in due' : k < q) /\ Extra(p)' <= Idle - 1 + Others(p, k)
      BY <1>0, <1>1, <3>2
    <3> QED
      BY <1>0, <3>1, <3>3 DEF Passed, Others
  <2> QED
    BY <1>0, <2>3, <2>4, <2>5 DEF AgeExplained
<1> QED
  BY <1>2, <1>3

(* Parking after a round, and waking up for the next check. *)
LEMMA SelectAges ==
  ASSUME TimedTypeOK, Round, NEW p \in Providers, AgeExplained(p),
         Park \/ SelectTick \/ SelectWake, UNCHANGED timedVars
  PROVE  AgeExplained(p)'
<1> SUFFICES ASSUME failures'[p] < MaxWait PROVE AgeExplained(p)'
  BY DEF AgeExplained
<1>0. /\ failures' = failures /\ sinceAttempt' = sinceAttempt /\ snapshotAge' = snapshotAge
      /\ due' = due /\ reading' = reading /\ untilTick' = untilTick
      /\ due = {} /\ reading = None /\ reading # p
      /\ \/ run = "next" /\ run' = "select" /\ tick' = tick
         \/ run = "select" /\ run' = "check"
  BY DEF Park, SelectTick, SelectWake, clockVars, readVars, timedVars, Round, TimedTypeOK,
     TypeOK, None, Providers
<1>1. Extra(p)' = Extra(p) /\ Attempted(p) /\ Passed(p)
  BY <1>0, ExtraKept DEF AgeExplained
<1>2. Attempted(p)'
  BY <1>0, <1>1 DEF Attempted
<1>3. Awaited(p)'
  BY <1>0 DEF Awaited
<1>4. Extra(p) <= FoundBy
  <2>1. CASE run = "next"
    <3>1. PICK k \in 0 .. NumProviders : Extra(p) <= Idle - 1 + Others(p, k)
      BY <1>0, <1>1, <2>1 DEF Passed
    <3>2. Others(p, k) \in Nat /\ Others(p, k) <= Reads(NumProviders - 1)
      BY OthersFacts
    <3>3. Reads(NumProviders - 1) \in Nat
      BY ReadsFacts, IntervalsAssumption
    <3> QED
      BY <3>1, <3>2, <3>3, GapFacts, Numbers
  <2>2. CASE run = "select"
    BY <1>0, <2>2 DEF AgeExplained
  <2> QED
    BY <1>0, <2>1, <2>2
<1>5. Passed(p)'
  <2>1. run' = "select" /\ ~tick' => Extra(p)' <= Idle - 1 + CheckEvery - untilTick'
    BY <1>0, <1>1 DEF Passed
  <2> QED
    BY <1>0, <2>1 DEF Passed
<1> QED
  BY <1>0, <1>1, <1>2, <1>3, <1>4, <1>5 DEF AgeExplained

LEMMA AgesNext ==
  ASSUME Watched <= Idle, TimedTypeOK, Round, Ages, [TimedNext]_<<vars, timedVars>>
  PROVE  Ages'
<1> SUFFICES ASSUME NEW p \in Providers \ MayAnswerEmpty PROVE AgeExplained(p)'
  BY DEF Ages
<1>0. AgeExplained(p)
  BY DEF Ages
<1>1. CASE TimedAdvance
  BY <1>0, <1>1, AdvanceAges
<1>2. ASSUME NEW err \in BOOLEAN, TimedFetchReturns(err) \/ TimedSaveReturns(err)
      PROVE  AgeExplained(p)'
  BY <1>0, <1>2, ReturnAges
<1>3. CASE CheckDue /\ UNCHANGED timedVars
  BY <1>0, <1>3, CheckAges
<1>4. ASSUME NEW q \in Providers, StartRead(q), UNCHANGED timedVars PROVE AgeExplained(p)'
  BY <1>0, <1>4, StartAges
<1>5. CASE RecordAttempt /\ UNCHANGED timedVars
  BY <1>0, <1>5, RecordAges
<1>6. CASE (Park \/ SelectTick \/ SelectWake) /\ UNCHANGED timedVars
  BY <1>0, <1>6, SelectAges
<1>7. CASE UNCHANGED <<failures, sinceAttempt, tick, untilTick, run, due, reading, timedVars>>
  BY <1>0, <1>7 DEF timedVars, AgeExplained, Attempted, Awaited, Passed, Extra, Others
<1>8. ASSUME NEW h \in Handlers, MarkWatched(h) \/ WakeRun(h)
      PROVE  UNCHANGED <<failures, sinceAttempt, tick, untilTick, run, due, reading>>
  BY <1>8 DEF MarkWatched, WakeRun, readVars, clockVars
<1> QED
  BY <1>1, <1>2, <1>3, <1>4, <1>5, <1>6, <1>7, <1>8 DEF TimedNext, vars

-----------------------------------------------------------------------------
(* No snapshot of a provider that states its windows is older than one gap *)
(* per failure in a row and one more.                                      *)
AgeFollowsMisses ==
  \A p \in Providers \ MayAnswerEmpty : failures[p] < MaxWait => Extra(p) <= ReadGap

LEMMA AgesBound == TimedTypeOK /\ Round /\ Ages => AgeFollowsMisses
<1> SUFFICES ASSUME TimedTypeOK, Round, Ages, NEW p \in Providers \ MayAnswerEmpty,
                    failures[p] < MaxWait
             PROVE  Extra(p) <= ReadGap
  BY DEF AgeFollowsMisses
<1>1. /\ run \in {"check", "select"} => Extra(p) <= FoundBy
      /\ Awaited(p) /\ Passed(p)
  BY DEF Ages, AgeExplained
<1>2. /\ Reads(NumProviders) \in Nat /\ Reads(NumProviders - 1) \in Nat
      /\ Reads(NumProviders - 1) <= Reads(NumProviders)
  BY ReadsFacts, IntervalsAssumption
<1>3. ASSUME NEW k \in 0 .. NumProviders, Extra(p) <= FoundBy + Reads(k)
      PROVE  Extra(p) <= ReadGap
  <2>1. Reads(k) \in Nat /\ Reads(k) <= Reads(NumProviders)
    BY ReadsFacts, IntervalsAssumption
  <2> QED
    BY <1>2, <1>3, <2>1, GapFacts, Numbers
<1>4. ASSUME NEW k \in 0 .. NumProviders, Extra(p) <= Idle - 1 + Others(p, k)
      PROVE  Extra(p) <= ReadGap
  <2>1. Others(p, k) \in Nat /\ Others(p, k) <= Reads(NumProviders - 1)
    BY OthersFacts
  <2> QED
    BY <1>2, <1>4, <2>1, GapFacts, Numbers
<1>5. CASE run \in {"check", "select"}
  BY <1>1, <1>2, <1>5, GapFacts, Numbers
<1>6. CASE run = "next"
  BY <1>1, <1>3, <1>4, <1>6 DEF Awaited, Passed, TimedTypeOK, TypeOK
<1>7. CASE run \in {"fetch", "save", "record"}
  <2>1. /\ reading \in 0 .. NumProviders /\ reading - 1 \in 0 .. NumProviders
        /\ reading - 1 \in Nat /\ reading \in Providers /\ reading = (reading - 1) + 1
    BY <1>7, IntervalsAssumption DEF TimedTypeOK, TypeOK, Providers, None
  <2>2. CASE p \in due \/ reading = p
    <3>1. CASE run \in {"save", "record"}
      BY <1>1, <1>3, <2>1, <2>2, <3>1 DEF Awaited
    <3>2. CASE run = "fetch"
      <4>1. Reads(reading) = Reads(reading - 1) + MaxReadTime /\ Reads(reading - 1) \in Nat
        BY <2>1, ReadsFacts
      <4>2. Extra(p) <= FoundBy + Reads(reading - 1) + readTime
        BY <1>1, <2>2, <3>2 DEF Awaited
      <4>3. Extra(p) <= FoundBy + Reads(reading)
        BY <4>1, <4>2, GapFacts, Numbers, TimedAssumption
      <4> QED
        BY <1>3, <2>1, <4>3
    <3> QED
      BY <1>7, <3>1, <3>2
  <2>3. CASE p \notin due /\ reading # p
    <3>1. CASE run \in {"save", "record"}
      BY <1>1, <1>4, <2>1, <2>3, <3>1 DEF Passed
    <3>2. CASE run = "fetch"
      <4>1. Others(p, reading) = Others(p, reading - 1) + MaxReadTime
              /\ Others(p, reading - 1) \in Nat
        BY <2>1, <2>3, OthersFacts
      <4>2. Extra(p) <= Idle - 1 + Others(p, reading - 1) + readTime
        BY <1>1, <2>3, <3>2 DEF Passed
      <4>3. Extra(p) <= Idle - 1 + Others(p, reading)
        BY <4>1, <4>2, Numbers, TimedAssumption
      <4> QED
        BY <1>4, <2>1, <4>3
    <3> QED
      BY <1>7, <3>1, <3>2
  <2> QED
    BY <2>2, <2>3
<1> QED
  BY <1>5, <1>6, <1>7 DEF Round, TimedTypeOK, TypeOK

LEMMA AgesInductive ==
  ASSUME Watched <= Idle
  PROVE  TimedSpec => [](TimedTypeOK /\ Round /\ Ages)
<1>1. TimedInit => TimedTypeOK /\ Round /\ Ages
  BY TimedInitType, RoundInit, AgesInit
<1>2. TimedTypeOK /\ Round /\ Ages /\ [TimedNext]_<<vars, timedVars>>
        => (TimedTypeOK /\ Round /\ Ages)'
  BY TimedNextType, RoundNext, AgesNext
<1> QED
  BY <1>1, <1>2, PTL DEF TimedSpec

(* A provider whose reads succeed never has a snapshot older than one gap: *)
(* for any number of other providers, however slow they are, however often *)
(* they fail and whoever watches, provided Watched <= Idle.                *)
THEOREM HealthySnapshotsStayFresh ==
  ASSUME Watched <= Idle
  PROVE  TimedSpec => []HealthySnapshotFresh
<1>1. TimedTypeOK /\ AgeFollowsMisses => HealthySnapshotFresh
  <2> SUFFICES ASSUME TimedTypeOK, AgeFollowsMisses,
                      NEW p \in Providers \ MayAnswerEmpty, failures[p] = 0
               PROVE  snapshotAge[p] <= ReadGap
    BY DEF HealthySnapshotFresh
  <2>1. Extra(p) <= ReadGap
    BY MaxWaitFacts DEF AgeFollowsMisses
  <2>2. Extra(p) = snapshotAge[p]
    BY Numbers, MissedFacts DEF Extra, Never
  <2> QED
    BY <2>1, <2>2
<1> QED
  BY <1>1, AgesBound, AgesInductive, PTL

LEMMA MissedMonotone ==
  ASSUME NEW m \in Nat, NEW n \in Nat, m <= n
  PROVE  Missed(m) <= Missed(n)
<1>0. ReadGap \in Nat
  BY GapFacts
<1>1. n - m \in Nat /\ n = m + (n - m)
  OBVIOUS
<1>2. (m + (n - m)) * ReadGap = m * ReadGap + (n - m) * ReadGap
  BY <1>0
<1>3. m * ReadGap \in Nat /\ (n - m) * ReadGap \in Nat
  BY <1>0, <1>1
<1> QED
  BY <1>1, <1>2, <1>3 DEF Missed

(* The budget main computes, a multiple of the idle interval, holds what   *)
(* it is for: with all gaps but one fitting into it, a snapshot is shown   *)
(* as stale only after that many misses but one.                           *)
THEOREM OneMissIsNotStale ==
  ASSUME Watched <= Idle, StaleIntervals - 1 <= Idle,
         (StaleIntervals - 1) * ReadGap <= StaleIntervals * Idle
  PROVE  TimedSpec => []StaleAfterTwoMisses
<1>1. TimedTypeOK /\ AgeFollowsMisses => StaleAfterTwoMisses
  <2> SUFFICES ASSUME TimedTypeOK, AgeFollowsMisses,
                      NEW p \in Providers \ MayAnswerEmpty, Stale(p),
                      failures[p] < StaleIntervals - 1
               PROVE  FALSE
    BY Numbers, TimedAssumption DEF StaleAfterTwoMisses
  <2>1. StaleIntervals - 1 \in Nat /\ failures[p] + 1 <= StaleIntervals - 1
          /\ failures[p] + 1 \in Nat
    BY Numbers, TimedAssumption
  <2>2. Extra(p) <= ReadGap
    BY <2>1, Numbers, MaxWaitFacts, IntervalsAssumption
    DEF AgeFollowsMisses, MaxWait, Larger
  <2>3. snapshotAge[p] <= Missed(failures[p] + 1)
    BY <2>2, Numbers, MissedFacts, GapFacts DEF Extra, Never
  <2>4. Missed(failures[p] + 1) <= Missed(StaleIntervals - 1)
    BY <2>1, MissedMonotone
  <2>5. Missed(StaleIntervals - 1) <= StaleAge
    BY DEF Missed, StaleAge
  <2>6. StaleAge \in Nat
    BY IntervalsAssumption, TimedAssumption DEF StaleAge
  <2>7. Missed(failures[p] + 1) \in Nat /\ Missed(StaleIntervals - 1) \in Nat
    BY <2>1, MissedFacts
  <2> QED
    BY <2>3, <2>4, <2>5, <2>6, <2>7, Numbers DEF Stale, Never
<1> QED
  BY <1>1, AgesBound, AgesInductive, PTL
=============================================================================
