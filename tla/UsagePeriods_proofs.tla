------------------------ MODULE UsagePeriods_proofs ------------------------
(* Theorems about UsagePeriods, for any length of the day, any offset of   *)
(* local time, any periods and any number of calls.                        *)
EXTENDS UsagePeriods, FiniteSetTheorems, TLAPS

-----------------------------------------------------------------------------
(* Days and times. *)

LEMMA DayOf ==
  ASSUME NEW t \in Int
  PROVE  /\ Day(t) \in Int
         /\ DayLength * Day(t) <= t /\ t < DayLength * Day(t) + DayLength
BY PeriodsAssumption, Z3 DEF Day

(* What is no more than n days apart is no more than n dates apart. *)
LEMMA CloseTimes ==
  ASSUME NEW a \in Int, NEW b \in Int, NEW n \in Int, a <= b + DayLength * n
  PROVE  Day(a) <= Day(b) + n
<1> DEFINE q == Day(a)
           r == Day(b)
<1>1. /\ q \in Int /\ r \in Int
      /\ DayLength * q <= a /\ b < DayLength * r + DayLength
  BY DayOf
<1>2. DayLength \in Nat \ {0}
  BY PeriodsAssumption
<1> HIDE DEF q, r
<1>3. ASSUME q > r + n PROVE FALSE
  <2>1. DayLength * q >= DayLength * r + DayLength * n + DayLength
    BY <1>1, <1>2, <1>3
  <2>2. DayLength * r \in Int /\ DayLength * q \in Int /\ DayLength * n \in Int
    BY <1>1, <1>2
  <2> QED
    BY <1>1, <1>2, <2>1, <2>2
<1>4. q <= r + n
  BY <1>1, <1>3
<1> QED
  BY <1>4 DEF q, r

(* And the other way round, up to one day. *)
LEMMA CloseDates ==
  ASSUME NEW a \in Int, NEW b \in Int, NEW n \in Int, Day(a) <= Day(b) + n
  PROVE  a < b + DayLength * (n + 1)
<1> DEFINE q == Day(a)
           r == Day(b)
<1>1. /\ q \in Int /\ r \in Int
      /\ a < DayLength * q + DayLength /\ DayLength * r <= b
  BY DayOf
<1>2. DayLength \in Nat \ {0} /\ q <= r + n
  BY PeriodsAssumption
<1> HIDE DEF q, r
<1>3. DayLength * q <= DayLength * r + DayLength * n
  BY <1>1, <1>2
<1>4. DayLength * (n + 1) = DayLength * n + DayLength
  BY <1>2
<1>5. DayLength * r \in Int /\ DayLength * q \in Int /\ DayLength * n \in Int
  BY <1>1, <1>2
<1> QED
  BY <1>1, <1>2, <1>3, <1>4, <1>5

LEMMA DaysType == \A period \in Periods : Days(period) \in Nat
BY PeriodsAssumption DEF Days, Periods

-----------------------------------------------------------------------------
(* GROUP BY: every call is in one row, which its group alone has. *)
LEMMA GroupByPartitions ==
  ASSUME NEW cs, \A c \in cs : c.orchestrator \in Orchestrators
  PROVE  /\ UNION {row.calls : row \in GroupBy(cs)} = cs
         /\ GroupBy(cs) \subseteq [orchestrator : Orchestrators \ {Null}, calls : SUBSET cs]
         /\ \A r1, r2 \in GroupBy(cs) :
              r1 # r2 => r1.orchestrator # r2.orchestrator /\ r1.calls \cap r2.calls = {}
<1> DEFINE Row(o) == [orchestrator |-> o, calls |-> {c \in cs : Coalesce(c.orchestrator) = o}]
           names == {Coalesce(c.orchestrator) : c \in cs}
<1>1. \A row \in GroupBy(cs) : \E o \in names : row = Row(o)
  BY DEF GroupBy
<1>2. \A o \in names : Row(o) \in GroupBy(cs)
  BY DEF GroupBy
<1>3. names \subseteq Orchestrators \ {Null}
  BY DEF Coalesce, Orchestrators, Null
<1>4. ASSUME NEW c \in cs PROVE c \in UNION {row.calls : row \in GroupBy(cs)}
  <2>1. Coalesce(c.orchestrator) \in names /\ c \in Row(Coalesce(c.orchestrator)).calls
    OBVIOUS
  <2> QED
    BY <1>2, <2>1
<1>5. \A row \in GroupBy(cs) : row.calls \subseteq cs
  BY <1>1
<1>6. UNION {row.calls : row \in GroupBy(cs)} = cs
  BY <1>4, <1>5
<1>7. GroupBy(cs) \subseteq [orchestrator : Orchestrators \ {Null}, calls : SUBSET cs]
  BY <1>1, <1>3
<1>8. ASSUME NEW r1 \in GroupBy(cs), NEW r2 \in GroupBy(cs), r1 # r2
      PROVE  r1.orchestrator # r2.orchestrator /\ r1.calls \cap r2.calls = {}
  <2>1. PICK o1 \in names, o2 \in names : r1 = Row(o1) /\ r2 = Row(o2)
    BY <1>1
  <2>2. o1 # o2
    BY <1>8, <2>1
  <2> QED
    BY <2>1, <2>2
<1> QED
  BY <1>6, <1>7, <1>8

-----------------------------------------------------------------------------
(* The shape of the state. *)

Call == [id : 1 .. MaxCalls, at : 0 .. clock, date : Int, orchestrator : Orchestrators]

Shape ==
  /\ clock \in 0 .. MaxClock /\ offset \in Offsets
  /\ calls \subseteq Call /\ IsFiniteSet(calls)
  /\ \A c \in calls : c.date = Day(c.at + offset)
  /\ report \in [pc : {"idle", "reading", "answer"}, at : 0 .. clock, known : SUBSET calls,
                 periods : [Periods -> SUBSET [orchestrator : Orchestrators \ {Null},
                                               calls : SUBSET calls]],
                 left : SUBSET Periods]
  /\ report.pc = "answer" => report.left = {}

LEMMA ShapeIsType == Shape => PeriodsTypeOK
BY DEF Shape, Call, PeriodsTypeOK

LEMMA NotAskedShape ==
  ASSUME clock \in 0 .. MaxClock
  PROVE  NotAsked \in [pc : {"idle"}, at : 0 .. clock, known : SUBSET calls,
                       periods : [Periods -> {{}}], left : SUBSET Periods]
BY PeriodsAssumption DEF NotAsked

LEMMA ShapeInit == Init => Shape
<1> SUFFICES ASSUME Init PROVE Shape
  OBVIOUS
<1>1. clock \in 0 .. MaxClock
  BY PeriodsAssumption DEF Init
<1>2. IsFiniteSet(calls)
  BY FS_EmptySet DEF Init
<1> QED
  BY <1>1, <1>2, NotAskedShape DEF Init, Shape, NotAsked

(* What ReadPeriod reads. *)
Read(period) == GroupBy({c \in calls : InPeriod(c, Days(period))})

LEMMA ReadPeriodStep ==
  ASSUME Shape, NEW period \in Periods, ReadPeriod(period)
  PROVE  /\ report' \in [pc : {"reading", "answer"}, at : {report.at}, known : {report.known},
                         periods : {[report.periods EXCEPT ![period] = Read(period)]},
                         left : {report.left \ {period}}]
         /\ report'.pc = "answer" => report'.left = {}
         /\ UNCHANGED <<clock, offset, calls>>
BY DEF ReadPeriod, Read, Shape

LEMMA ReadType ==
  ASSUME Shape, NEW period \in Periods
  PROVE  /\ UNION {row.calls : row \in Read(period)} = {c \in calls : InPeriod(c, Days(period))}
         /\ Read(period) \subseteq [orchestrator : Orchestrators \ {Null}, calls : SUBSET calls]
         /\ \A r1, r2 \in Read(period) :
              r1 # r2 => r1.orchestrator # r2.orchestrator /\ r1.calls \cap r2.calls = {}
<1> DEFINE cs == {c \in calls : InPeriod(c, Days(period))}
<1>1. \A c \in cs : c.orchestrator \in Orchestrators
  BY DEF Shape, Call
<1>2. SUBSET cs \subseteq SUBSET calls
  OBVIOUS
<1> HIDE DEF cs
<1>3. [orchestrator : Orchestrators \ {Null}, calls : SUBSET cs] \subseteq
        [orchestrator : Orchestrators \ {Null}, calls : SUBSET calls]
  BY <1>2
<1>4. Read(period) = GroupBy(cs)
  BY DEF Read, cs
<1>5. /\ UNION {row.calls : row \in Read(period)} = cs
      /\ Read(period) \subseteq [orchestrator : Orchestrators \ {Null}, calls : SUBSET cs]
      /\ \A r1, r2 \in Read(period) :
           r1 # r2 => r1.orchestrator # r2.orchestrator /\ r1.calls \cap r2.calls = {}
  BY <1>1, <1>4, GroupByPartitions
<1>6. UNION {row.calls : row \in Read(period)} = {c \in calls : InPeriod(c, Days(period))}
  BY <1>5 DEF cs
<1> QED
  BY <1>3, <1>5, <1>6

LEMMA ShapeNext == Shape /\ [Next]_vars => Shape'
<1> SUFFICES ASSUME Shape, [Next]_vars PROVE Shape'
  OBVIOUS
<1>1. CASE Advance
  <2>1. clock' \in 0 .. MaxClock /\ 0 .. clock \subseteq 0 .. clock'
    BY <1>1, PeriodsAssumption DEF Advance, Shape
  <2> QED
    BY <1>1, <2>1 DEF Advance, Shape, Call
<1>2. ASSUME NEW o \in Orchestrators, Track(o) PROVE Shape'
  <2> DEFINE c == [id |-> Cardinality(calls) + 1, at |-> clock,
                   date |-> Day(clock + offset), orchestrator |-> o]
  <2>1. Cardinality(calls) \in Nat /\ Cardinality(calls) < MaxCalls /\ calls' = calls \cup {c}
    BY <1>2, FS_CardinalityType DEF Track, Shape
  <2>2. Cardinality(calls) + 1 \in 1 .. MaxCalls
    BY <2>1, PeriodsAssumption
  <2>3. clock \in Int /\ offset \in Int
    BY PeriodsAssumption DEF Shape
  <2>4. Day(clock + offset) \in Int
    BY <2>3, DayOf
  <2>5. c \in Call /\ c.date = Day(c.at + offset)
    BY <2>2, <2>4 DEF Call, Shape
  <2>6. IsFiniteSet(calls')
    BY <2>1, FS_AddElement DEF Shape
  <2> HIDE DEF c
  <2>7. calls \subseteq calls' /\ UNCHANGED <<clock, offset, report>>
    BY <1>2, <2>1 DEF Track
  <2>8. report \in [pc : {"idle", "reading", "answer"}, at : 0 .. clock, known : SUBSET calls',
                 periods : [Periods -> SUBSET [orchestrator : Orchestrators \ {Null},
                                               calls : SUBSET calls']],
                 left : SUBSET Periods]
    <3>1. SUBSET [orchestrator : Orchestrators \ {Null}, calls : SUBSET calls] \subseteq
          SUBSET [orchestrator : Orchestrators \ {Null}, calls : SUBSET calls']
      BY <2>7
    <3> QED
      BY <2>7, <3>1 DEF Shape
  <2> QED
    BY <2>1, <2>5, <2>6, <2>7, <2>8 DEF Shape, Call
<1>3. CASE Ask
  <2>1. report' \in [pc : {"reading"}, at : {clock}, known : {calls},
                      periods : [Periods -> {{}}], left : {Periods}]
    BY <1>3, NotAskedShape DEF Ask, Shape
  <2>2. clock \in 0 .. clock
    BY PeriodsAssumption DEF Shape
  <2>3. report' \in [pc : {"idle", "reading", "answer"}, at : 0 .. clock, known : SUBSET calls,
                     periods : [Periods -> SUBSET [orchestrator : Orchestrators \ {Null},
                                                   calls : SUBSET calls]],
                     left : SUBSET Periods]
    BY <2>1, <2>2
  <2>4. report'.pc # "answer"
    BY <2>1
  <2> QED
    BY <1>3, <2>3, <2>4 DEF Ask, Shape, Call
<1>4. CASE ReadFails \/ Respond
  BY <1>4, NotAskedShape DEF ReadFails, Respond, Shape, Call
<1>5. ASSUME NEW period \in Periods, ReadPeriod(period) PROVE Shape'
  <2>1. Read(period) \in SUBSET [orchestrator : Orchestrators \ {Null}, calls : SUBSET calls]
    BY ReadType
  <2> QED
    BY <1>5, <2>1, ReadPeriodStep DEF Shape, Call
<1>6. CASE UNCHANGED vars
  BY <1>6 DEF vars, Shape, Call
<1> QED
  BY <1>1, <1>2, <1>3, <1>4, <1>5, <1>6 DEF Next

(* Type correctness of UsagePeriods. *)
THEOREM PeriodsTypeCorrect == Spec => []PeriodsTypeOK
BY ShapeInit, ShapeNext, ShapeIsType, PTL DEF Spec

-----------------------------------------------------------------------------
(* What a period holds. *)

(* It was read on day d, while the request was answered: all it counts is  *)
(* of that day's period, and what was there when the request came and is   *)
(* of the period is counted.                                               *)
ReadOn(period, d) ==
  /\ Day(report.at) <= d /\ d <= Day(clock)
  /\ \A c \in Counted(period) : c \in calls /\ c.date >= d - Days(period)
  /\ \A c \in report.known : c.date >= d - Days(period) => c \in Counted(period)

Unread(period) == report.pc = "idle" \/ period \in report.left

EveryRead ==
  \A period \in Periods :
    IF Unread(period) THEN report.periods[period] = {} ELSE \E d \in Int : ReadOn(period, d)

Filled == Shape /\ OneRowPerGroup /\ EveryRead

LEMMA Times ==
  ASSUME Shape
  PROVE  /\ clock \in Int /\ offset \in Int /\ report.at \in Int /\ report.at <= clock
         /\ Day(clock) \in Int /\ Day(report.at) \in Int /\ Day(report.at) <= Day(clock)
         /\ \A c \in calls : c.at \in Int /\ c.date \in Int
<1>1. clock \in Int /\ offset \in Int /\ report.at \in Int /\ report.at <= clock
  BY PeriodsAssumption DEF Shape
<1>2. \A c \in calls : c.at \in Int /\ c.date \in Int
  BY DEF Shape, Call
<1>3. DayLength * 0 = 0
  BY PeriodsAssumption
<1> QED
  BY <1>1, <1>2, <1>3, DayOf, CloseTimes

(* A request that has read nothing. *)
LEMMA NothingRead ==
  ASSUME \A period \in Periods : report'.periods[period] = {},
         report'.pc = "idle" \/ report'.left = Periods
  PROVE  OneRowPerGroup' /\ EveryRead'
BY DEF OneRowPerGroup, EveryRead, Unread

LEMMA FilledInit == Init => Filled
BY ShapeInit DEF Init, NotAsked, Filled, OneRowPerGroup, EveryRead, Unread

(* Time passes and calls come; what has been read stays as it is. *)
LEMMA FilledOutside ==
  ASSUME Filled, Shape', UNCHANGED report, calls \subseteq calls',
         Day(clock) <= Day(clock')
  PROVE  Filled'
<1>1. OneRowPerGroup'
  BY DEF Filled, OneRowPerGroup
<1>2. ASSUME NEW period \in Periods, NEW d \in Int, ReadOn(period, d)
      PROVE  ReadOn(period, d)'
  <2>1. Day(clock) \in Int /\ Day(clock') \in Int
    BY Times, DayOf DEF Filled, Shape
  <2>2. d <= Day(clock')
    BY <1>2, <2>1 DEF ReadOn
  <2> QED
    BY <1>2, <2>2 DEF ReadOn, Counted
<1>3. EveryRead'
  BY <1>2 DEF Filled, EveryRead, Unread
<1> QED
  BY <1>1, <1>3 DEF Filled

LEMMA FilledByRead ==
  ASSUME Filled, Shape', NEW period \in Periods, ReadPeriod(period)
  PROVE  Filled'
<1> USE DEF Filled
<1>1. /\ report'.at = report.at /\ report'.known = report.known
      /\ report'.periods = [report.periods EXCEPT ![period] = Read(period)]
      /\ report'.left = report.left \ {period} /\ report'.pc # "idle"
      /\ UNCHANGED <<clock, offset, calls>>
  BY ReadPeriodStep
<1>2. report.periods \in [Periods -> SUBSET [orchestrator : Orchestrators \ {Null},
                                            calls : SUBSET calls]]
  BY DEF Shape
<1>3. report'.periods[period] = Read(period)
  BY <1>1, <1>2
<1>4. \A other \in Periods \ {period} : report'.periods[other] = report.periods[other]
  BY <1>1, <1>2
<1>5. OneRowPerGroup'
  BY <1>3, <1>4, ReadType DEF OneRowPerGroup
<1>6. ReadOn(period, Day(clock))'
  <2>1. Counted(period)' = {c \in calls : c.date >= Day(clock) - Days(period)}
    BY <1>3, ReadType DEF Counted, InPeriod
  <2>2. report.known \subseteq calls
    BY DEF Shape
  <2> QED
    BY <1>1, <2>1, <2>2, Times DEF ReadOn
<1>7. ASSUME NEW other \in Periods \ {period} PROVE
        IF Unread(other)' THEN report'.periods[other] = {} ELSE \E d \in Int : ReadOn(other, d)'
  <2>1. Unread(other)' => Unread(other)
    BY <1>1 DEF Unread
  <2>2. report.pc = "reading"
    BY DEF ReadPeriod
  <2>3. ~Unread(other)' => ~Unread(other)
    BY <1>1, <2>2 DEF Unread
  <2>4. Counted(other)' = Counted(other)
    BY <1>4 DEF Counted
  <2>5. ASSUME NEW d \in Int, ReadOn(other, d) PROVE ReadOn(other, d)'
    BY <1>1, <2>4, <2>5 DEF ReadOn
  <2> QED
    BY <1>4, <2>1, <2>3, <2>5 DEF EveryRead
<1>8. ~Unread(period)'
  BY <1>1 DEF Unread
<1>9. Day(clock)' \in Int
  BY <1>1, Times
<1> QED
  BY <1>5, <1>6, <1>7, <1>8, <1>9 DEF EveryRead

LEMMA FilledNext == Filled /\ [Next]_vars => Filled'
<1> SUFFICES ASSUME Filled, [Next]_vars PROVE Filled'
  OBVIOUS
<1>0. Shape'
  BY ShapeNext DEF Filled
<1>1. CASE Advance
  <2>1. clock' = clock + 1 /\ UNCHANGED <<report, calls>>
    BY <1>1 DEF Advance
  <2>2. Day(clock) <= Day(clock')
    <3>1. clock \in Int /\ clock' \in Int /\ clock <= clock' + DayLength * 0
      BY <2>1, Times, PeriodsAssumption DEF Filled
    <3> QED
      BY <3>1, CloseTimes, DayOf
  <2> QED
    BY <1>0, <2>1, <2>2, FilledOutside
<1>2. CASE (\E o \in Orchestrators : Track(o)) \/ UNCHANGED vars
  <2>1. calls \subseteq calls' /\ UNCHANGED <<clock, report>>
    BY <1>2 DEF Track, vars
  <2> QED
    BY <1>0, <2>1, FilledOutside, Times DEF Filled
<1>3. CASE Ask
  <2>1. report'.periods = [p \in Periods |-> {}] /\ report'.left = Periods
    BY <1>3 DEF Ask, NotAsked
  <2> QED
    BY <1>0, <2>1, NothingRead DEF Filled
<1>4. CASE ReadFails \/ Respond
  <2>1. report'.periods = [p \in Periods |-> {}] /\ report'.pc = "idle"
    BY <1>4 DEF ReadFails, Respond, NotAsked
  <2> QED
    BY <1>0, <2>1, NothingRead DEF Filled
<1>5. ASSUME NEW period \in Periods, ReadPeriod(period) PROVE Filled'
  BY <1>0, <1>5, FilledByRead
<1> QED
  BY <1>1, <1>2, <1>3, <1>4, <1>5 DEF Next

(* No total of a period is divided between two rows or counted in both.    *)
THEOREM OneRowPerGroupHolds == Spec => []OneRowPerGroup
<1>1. Filled => OneRowPerGroup
  BY DEF Filled
<1> QED
  BY <1>1, FilledInit, FilledNext, PTL DEF Spec

(* A period of N days holds what is N times 24 hours old when the request  *)
(* is answered, and nothing a day older when it came, but for the offset.  *)
THEOREM PeriodHoldsItsDaysHolds == Spec => []PeriodHoldsItsDays
<1>1. ASSUME Filled, NEW period \in Periods PROVE RecentCounted(period) /\ OldLeftOut(period)
  <2> DEFINE n == Days(period)
  <2>1. n \in Int
    BY DaysType
  <2>2. CASE Unread(period)
    <3>1. Counted(period) = {}
      BY <1>1, <2>2 DEF Filled, EveryRead, Counted
    <3>2. report.pc # "answer"
      BY <1>1, <2>2 DEF Filled, Shape, Unread
    <3> QED
      BY <3>1, <3>2 DEF RecentCounted, OldLeftOut
  <2>3. CASE ~Unread(period)
    <3>1. PICK d \in Int : ReadOn(period, d)
      BY <1>1, <2>3 DEF Filled, EveryRead
    <3> HIDE DEF n
    <3>2. ASSUME NEW c \in report.known, clock - c.at <= DayLength * n + offset
          PROVE  c \in Counted(period)
      <4>1. c \in calls /\ c.date = Day(c.at + offset)
        BY <1>1 DEF Filled, Shape
      <4>2. clock \in Int /\ c.at \in Int /\ offset \in Int /\ c.date \in Int /\ Day(clock) \in Int
        BY <1>1, <4>1, Times DEF Filled
      <4>3. DayLength * n \in Int
        BY <2>1, PeriodsAssumption
      <4>4. clock <= (c.at + offset) + DayLength * n
        BY <3>2, <4>2, <4>3
      <4>5. Day(clock) <= c.date + n
        BY <2>1, <4>1, <4>2, <4>4, CloseTimes
      <4>6. c.date >= d - n
        BY <2>1, <3>1, <4>2, <4>5 DEF ReadOn
      <4> QED
        BY <3>1, <4>6 DEF ReadOn, n
    <3>3. ASSUME NEW c \in Counted(period)
          PROVE  report.at - c.at < DayLength * (n + 1) + offset
      <4>1. c \in calls /\ c.date >= d - n
        BY <3>1 DEF ReadOn, n
      <4>2. c.date = Day(c.at + offset)
        BY <1>1, <4>1 DEF Filled, Shape
      <4>3. /\ report.at \in Int /\ c.at \in Int /\ offset \in Int /\ c.date \in Int
            /\ Day(report.at) \in Int
        BY <1>1, <4>1, Times DEF Filled
      <4>4. Day(report.at) <= Day(c.at + offset) + n
        BY <2>1, <3>1, <4>1, <4>2, <4>3 DEF ReadOn
      <4>5. report.at < (c.at + offset) + DayLength * (n + 1)
        BY <2>1, <4>3, <4>4, CloseDates
      <4>6. DayLength * (n + 1) \in Int
        BY <2>1, PeriodsAssumption
      <4> QED
        BY <4>3, <4>5, <4>6
    <3> QED
      BY <3>2, <3>3 DEF RecentCounted, OldLeftOut, n
  <2> QED
    BY <2>2, <2>3
<1>2. Filled => PeriodHoldsItsDays
  BY <1>1 DEF PeriodHoldsItsDays
<1> QED
  BY <1>2, FilledInit, FilledNext, PTL DEF Spec

(* A shorter period is within the longer ones unless two midnights pass    *)
(* while the request is answered, whatever the order of the reads.         *)
THEOREM PeriodsNestedHolds == Spec => []PeriodsNested
<1>1. ASSUME Filled, report.pc = "answer", Day(clock) <= Day(report.at) + 1,
             NEW short \in Periods, NEW long \in Periods, Days(short) < Days(long)
      PROVE  Counted(short) \cap report.known \subseteq Counted(long)
  <2>1. ~Unread(short) /\ ~Unread(long)
    BY <1>1 DEF Filled, Shape, Unread
  <2>2. PICK d \in Int : ReadOn(short, d)
    BY <1>1, <2>1 DEF Filled, EveryRead
  <2>3. PICK e \in Int : ReadOn(long, e)
    BY <1>1, <2>1 DEF Filled, EveryRead
  <2>4. e <= d + 1
    BY <1>1, <2>2, <2>3, Times DEF ReadOn, Filled
  <2>5. ASSUME NEW c \in Counted(short), c \in report.known PROVE c \in Counted(long)
    <3>1. c.date >= d - Days(short) /\ c.date \in Int
      BY <1>1, <2>2, <2>5, Times DEF ReadOn, Filled
    <3>2. c.date >= e - Days(long)
      BY <1>1, <2>4, <3>1, DaysType
    <3> QED
      BY <2>3, <2>5, <3>2 DEF ReadOn
  <2> QED
    BY <2>5
<1>2. Days("day") < Days("week") /\ Days("week") < Days("month")
  BY PeriodsAssumption DEF Days
<1>3. "day" \in Periods /\ "week" \in Periods /\ "month" \in Periods
  BY DEF Periods
<1>4. Filled => PeriodsNested
  BY <1>1, <1>2, <1>3 DEF PeriodsNested
<1> QED
  BY <1>4, FilledInit, FilledNext, PTL DEF Spec
=============================================================================
