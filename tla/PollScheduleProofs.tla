------------------------- MODULE PollScheduleProofs -------------------------
(* The poll schedule for every clock width, hub tick, jitter and interval:   *)
(* type correctness, and that no poll leaves a backlog.                      *)
EXTENDS PollSchedule, TLAPS

-----------------------------------------------------------------------------
(* Arithmetic on a clock that wraps.                                         *)

\* There is a time to be on the clock: Word is not 0.
LEMMA ClockRuns == Time # {} => Word \in Nat \ {0}
BY ScheduleAssumption DEF Time

\* A multiple of Word smaller than Word is 0.
LEMMA SmallMultiple ==
  ASSUME Word \in Nat \ {0}, NEW k \in Int, -Word < k * Word, k * Word < Word
  PROVE  k = 0
<1>1. k >= 1 => k * Word >= Word
  OBVIOUS
<1>2. k <= -1 => k * Word <= -Word
  OBVIOUS
<1> QED
  BY <1>1, <1>2

\* The remainder is a time, a whole number of turns away.
LEMMA Remainder ==
  ASSUME Word \in Nat \ {0}, NEW a \in Int
  PROVE  a % Word \in Time /\ \E k \in Int : a - (a % Word) = k * Word
<1>1. a = Word * (a \div Word) + (a % Word) /\ a \div Word \in Int /\ a % Word \in 0..(Word - 1)
  OBVIOUS
<1>2. a - (a % Word) = (a \div Word) * Word
  BY <1>1
<1> QED
  BY <1>1, <1>2 DEF Time

\* Two times a whole number of turns apart are one.
LEMMA OneTime ==
  ASSUME Word \in Nat \ {0}, NEW r \in Time, NEW s \in Time, NEW k \in Int, r - s = k * Word
  PROVE  r = s
BY SmallMultiple DEF Time

\* What is a whole number of turns apart is read alike.
LEMMA SameReading ==
  ASSUME Word \in Nat \ {0}, NEW a \in Int, NEW b \in Int, NEW k \in Int, a - b = k * Word
  PROVE  a % Word = b % Word
<1>1. PICK m \in Int : a - (a % Word) = m * Word
  BY Remainder
<1>2. PICK n \in Int : b - (b % Word) = n * Word
  BY Remainder
<1>3. a % Word \in Time /\ b % Word \in Time
  BY Remainder
<1>4. (a % Word) - (b % Word) = (k - m + n) * Word
  BY <1>1, <1>2, <1>3 DEF Time
<1> QED
  BY <1>3, <1>4, OneTime

\* A time reads as itself, and a reading may be taken before or after what is added.
LEMMA ReadTime ==
  ASSUME Word \in Nat \ {0}, NEW r \in Time
  PROVE  r % Word = r
<1>1. r \in Int
  BY DEF Time
<1>2. r % Word \in Time /\ \E k \in Int : r - (r % Word) = k * Word
  BY <1>1, Remainder
<1> QED
  BY <1>2, OneTime

LEMMA ReadLater ==
  ASSUME Word \in Nat \ {0}, NEW a \in Int, NEW b \in Int
  PROVE  /\ ((a % Word) + b) % Word = (a + b) % Word
         /\ (b - (a % Word)) % Word = (b - a) % Word
<1>1. a % Word \in Int
  BY Remainder DEF Time
<1>2. PICK k \in Int : a - (a % Word) = k * Word
  BY Remainder
<1>3. ((a % Word) + b) - (a + b) = (-k) * Word
  BY <1>1, <1>2
<1>4. (b - (a % Word)) - (b - a) = k * Word
  BY <1>1, <1>2
<1>5. (a % Word) + b \in Int /\ a + b \in Int /\ b - (a % Word) \in Int /\ b - a \in Int /\ -k \in Int
  BY <1>1
<1>6. ((a % Word) + b) % Word = (a + b) % Word
  BY <1>3, <1>5, SameReading
<1>7. (b - (a % Word)) % Word = (b - a) % Word
  BY <1>4, <1>5, SameReading
<1> QED
  BY <1>6, <1>7

-----------------------------------------------------------------------------
(* Types.                                                                    *)

\* Half the clock, and the ticks that fit into the longest interval.
LEMMA HalfTheClock ==
  /\ 2 * MaxInterval < Word /\ MaxInterval \in Int
  /\ Slack \in Nat /\ MaxGap \in Nat
<1>1. Word \in Nat /\ HubTick \in Nat \ {0}
  BY ScheduleAssumption
<1>2. Word \div 2 \in Nat /\ 2 * (Word \div 2) <= Word
  BY <1>1
<1>3. MaxInterval \in Int /\ MaxInterval >= -1 /\ 2 * MaxInterval < Word
  BY <1>2, <1>1 DEF MaxInterval
<1>4. HubTick \div 2 \in Nat
  BY <1>1
<1>5. MaxInterval \div HubTick \in Int /\ MaxInterval \div HubTick >= -1
  <2> DEFINE q == MaxInterval \div HubTick
  <2>1. /\ MaxInterval = HubTick * q + (MaxInterval % HubTick)
        /\ (MaxInterval % HubTick) \in 0..(HubTick - 1) /\ q \in Int
    BY <1>1, <1>3
  <2> HIDE DEF q
  <2>2. q <= -2 => HubTick * q <= HubTick * (-2)
    BY <1>1, <2>1
  <2>3. q >= -1
    BY <1>1, <1>3, <2>1, <2>2
  <2> QED
    BY <2>1, <2>3 DEF q
<1> QED
  BY <1>3, <1>4, <1>5 DEF Slack, MaxGap

\* An entity that is polled, but not on every tick, has an interval within half the clock.
LEMMA IntervalFits ==
  ASSUME TypeOK, interval # 0, interval # Never
  PROVE  /\ Word \in Nat \ {0} /\ interval \in 1..MaxInterval
         /\ 2 * interval < Word /\ Word >= 4
<1>1. Word \in Nat \ {0}
  BY ClockRuns DEF TypeOK
<1>2. interval \in 0..MaxInterval
  BY ScheduleAssumption DEF TypeOK
<1>3. 2 * interval < Word /\ interval \in 1..MaxInterval
  BY <1>1, <1>2, HalfTheClock
<1>4. MaxInterval >= 1 /\ 2 * (Word \div 2) <= Word /\ Word \div 2 \in Nat
  BY <1>1, <1>3, HalfTheClock
<1>5. MaxInterval = (Word \div 2) - 1
  BY DEF MaxInterval
<1> QED
  BY <1>1, <1>3, <1>4, <1>5

\* update() samples a time of the clock.
LEMMA SampledTime ==
  ASSUME TypeOK, NEW lost \in 0..MaxLost, NEW late \in 0..Jitter
  PROVE  /\ Word \in Nat \ {0} /\ lost \in Nat /\ late \in Nat
         /\ tick + (1 + lost) * HubTick \in Int
         /\ At(lost, late) \in Time
         /\ Advance(lost) => tick' \in Time
<1>1. Word \in Nat \ {0} /\ tick \in Int /\ HubTick \in Nat /\ lost \in Nat /\ late \in Nat
  BY ClockRuns, ScheduleAssumption DEF TypeOK, Time
<1>2. (1 + lost) * HubTick \in Int
  BY <1>1
<1> HIDE DEF Time
<1>3. tick + (1 + lost) * HubTick \in Int /\ tick + (1 + lost) * HubTick + late \in Int
  BY <1>1, <1>2
<1> QED
  BY <1>1, <1>3, Remainder DEF At, Advance

\* The next due time is a time of the clock.
LEMMA DueIsTime ==
  ASSUME TypeOK, interval # 0, interval # Never, NEW now \in Time
  PROVE  NextDue(now) \in Time
<1>1. Word \in Nat \ {0} /\ Word >= 4 /\ interval \in Int
  BY IntervalFits
<1>2. now \in Int /\ nextDue \in Int
  BY DEF TypeOK, Time
<1>3. Anchored(now) \in Time
  <2>1. (IF nextDue = 0 THEN now ELSE nextDue) + interval \in Int
    BY <1>1, <1>2
  <2> QED
    BY <1>1, <2>1, Remainder DEF Anchored
<1>4. Reanchored(now, Anchored(now)) \in Time
  <2>1. (now + interval) % Word \in Time
    <3>1. now + interval \in Int
      BY <1>1, <1>2
    <3> QED
      BY <1>1, <3>1, Remainder
  <2> QED
    BY <1>3, <2>1 DEF Reanchored
<1> QED
  BY <1>1, <1>4 DEF NextDue, Nudged, Time

\* Every variable of the schedule keeps its type, whatever the width of the clock.
THEOREM ScheduleTypeCorrect == Spec => []TypeOK
<1>1. Init => TypeOK
  <2> SUFFICES ASSUME Init PROVE TypeOK
    OBVIOUS
  <2>1. 0 \in 0..MaxGap /\ 0 \in 0..Settling
    BY HalfTheClock DEF Settling
  <2>2. tick \in Time /\ 0 \in Time
    BY ClockRuns DEF Init, Time
  <2> QED
    BY <2>1, <2>2 DEF Init, TypeOK
<1>2. TypeOK /\ [Next]_vars => TypeOK'
  <2> SUFFICES ASSUME TypeOK, [Next]_vars PROVE TypeOK'
    OBVIOUS
  <2>1. Count \in 0..MaxGap /\ 0 \in 0..MaxGap
    BY HalfTheClock DEF TypeOK, Count
  <2>2. ASSUME NEW lost \in 0..MaxLost, NEW late \in 0..Jitter, SkipQueued(lost, late)
        PROVE  TypeOK'
    BY <2>1, <2>2, SampledTime DEF SkipQueued, Advance, TypeOK
  <2>3. ASSUME NEW lost \in 0..MaxLost, NEW late \in 0..Jitter, NotDue(lost, late)
        PROVE  TypeOK'
    BY <2>1, <2>3, SampledTime DEF NotDue, Advance, TypeOK
  <2>4. ASSUME NEW lost \in 0..MaxLost, NEW late \in 0..Jitter, Poll(lost, late)
        PROVE  TypeOK'
    <3>1. /\ Due(At(lost, late)) /\ Advance(lost) /\ polled' = TRUE /\ queued' = TRUE
          /\ regular' = TRUE /\ gap' = 0 /\ UNCHANGED interval
          /\ nextDue' = IF interval = 0 THEN nextDue ELSE NextDue(At(lost, late))
          /\ settled' = IF regular /\ lost = 0
                          THEN IF settled < Settling THEN settled + 1 ELSE settled ELSE 0
      BY <2>4 DEF Poll, Advance
    <3>2. interval # Never /\ At(lost, late) \in Time /\ tick' \in Time
      BY <3>1, SampledTime DEF Due
    <3>3. nextDue' \in Time
      BY <3>1, <3>2, DueIsTime DEF TypeOK
    <3>4. settled' \in 0..Settling
      BY <3>1 DEF TypeOK, Settling
    <3> QED
      BY <2>1, <3>1, <3>2, <3>3, <3>4 DEF TypeOK
  <2>5. CASE ReadDone \/ PriorityRead
    BY <2>5 DEF ReadDone, PriorityRead, TypeOK
  <2>6. CASE RefreshAll
    <3>1. 0 \in Time
      BY ClockRuns DEF TypeOK, Time
    <3> QED
      BY <2>6, <3>1 DEF RefreshAll, TypeOK
  <2>7. CASE UNCHANGED vars
    BY <2>7 DEF vars, TypeOK
  <2> QED
    BY <2>2, <2>3, <2>4, <2>5, <2>6, <2>7 DEF Next
<1> QED
  BY <1>1, <1>2, PTL DEF Spec

-----------------------------------------------------------------------------
(* No backlog.                                                               *)

\* The signed difference of two times looks half the clock ahead.
LEMMA SignedLooksAhead ==
  ASSUME Word \in Nat \ {0}, NEW a \in Int, NEW b \in Int
  PROVE  /\ (a - b) % Word \in Time
         /\ Signed(a, b) >= 0 <=> 2 * ((a - b) % Word) < Word
         /\ Signed(a, b) > 0 <=> 2 * ((a - b) % Word) < Word /\ (a - b) % Word # 0
         /\ Signed(a, b) <= 0 <=> ~(Signed(a, b) > 0)
<1> DEFINE d == (a - b) % Word
<1>1. d \in Time
  <2>1. a - b \in Int
    OBVIOUS
  <2> QED
    BY <2>1, Remainder
<1>2. Signed(a, b) = IF 2 * d < Word THEN d ELSE d - Word
  BY DEF Signed
<1> HIDE DEF d
<1>3. d \in 0..(Word - 1)
  BY <1>1 DEF Time
<1>4. /\ Signed(a, b) >= 0 <=> 2 * d < Word
      /\ Signed(a, b) > 0 <=> 2 * d < Word /\ d # 0
      /\ Signed(a, b) <= 0 <=> ~(Signed(a, b) > 0)
  BY <1>2, <1>3
<1> QED
  BY <1>1, <1>4 DEF d

\* The times that come up a little after a time that is ahead.
LEMMA OneLater ==
  ASSUME Word \in Nat \ {0}, NEW a \in Int, (a % Word) + 1 < Word
  PROVE  (a + 1) % Word = (a % Word) + 1
<1>1. (a % Word) \in Time /\ (a % Word) + 1 \in Time
  BY Remainder DEF Time
<1>2. ((a % Word) + 1) % Word = (a + 1) % Word
  <2>1. 1 \in Int
    OBVIOUS
  <2> QED
    BY <2>1, ReadLater
<1> QED
  BY <1>1, <1>2, ReadTime

\* How far ahead of the sampled time the next one is due, before it is moved off 0.
LEMMA NextIsAhead ==
  ASSUME TypeOK, interval # 0, NEW now \in Time, Due(now)
  PROVE  LET next == Reanchored(now, Anchored(now))
         IN  /\ next \in Time
             /\ (next - now) % Word \in 1..(interval + Slack)
             /\ 2 * ((next - now) % Word) < Word
<1> DEFINE i == interval
           next == Reanchored(now, Anchored(now))
<1>1. i # Never /\ (nextDue = 0 \/ Signed(now + Slack, nextDue) >= 0)
  BY DEF Due
<1>2. /\ Word \in Nat \ {0} /\ Word >= 4 /\ i \in 1..MaxInterval /\ 2 * i < Word
      /\ i \in Time /\ i \in Int
      /\ now \in Int /\ nextDue \in Int /\ Slack \in Nat
  BY <1>1, IntervalFits, HalfTheClock DEF TypeOK, Time
<1> HIDE DEF i
<1>3. ASSUME next = (now + i) % Word
      PROVE  /\ next \in Time /\ (next - now) % Word \in 1..(i + Slack)
             /\ 2 * ((next - now) % Word) < Word
  <2>1. now + i \in Int /\ -now \in Int
    BY <1>2
  <2>5. (((now + i) % Word) + (-now)) % Word = ((now + i) + (-now)) % Word
    BY <1>2, <2>1, ReadLater
  <2>2. i % Word = i /\ (now + i) + (-now) = i
    BY <1>2, ReadTime
  <2>3. (next - now) % Word = i
    <3>1. next \in Time
      BY <1>2, <1>3, <2>1, Remainder
    <3>2. next - now = next + (-now)
      BY <1>2, <3>1 DEF Time
    <3> QED
      BY <1>3, <2>2, <2>5, <3>2
  <2>4. next \in Time
    BY <1>2, <1>3, <2>1, Remainder
  <2> QED
    BY <1>2, <2>3, <2>4
<1>4. CASE nextDue = 0
  <2>1. Anchored(now) = (now + i) % Word
    BY <1>4 DEF Anchored, i
  <2> QED
    BY <1>3, <2>1 DEF Reanchored, i
<1>5. CASE nextDue # 0 /\ next # (now + i) % Word
  <2> DEFINE y == (next - now) % Word
             z == ((now + Slack) - nextDue) % Word
  <2>1. next = (nextDue + i) % Word /\ Signed(next, now) > 0 /\ next \in Time
    <3>1. Anchored(now) = (nextDue + i) % Word /\ next = Anchored(now)
      BY <1>5 DEF Anchored, Reanchored, i
    <3>2. Anchored(now) \in Time
      <4>1. nextDue + i \in Int
        BY <1>2
      <4> QED
        BY <1>2, <3>1, <4>1, Remainder
    <3>3. ~(Signed(Anchored(now), now) <= 0)
      BY <1>5, <3>1 DEF Reanchored, i
    <3> QED
      <4>1. Anchored(now) \in Int
        BY <3>2 DEF Time
      <4> QED
        BY <1>2, <3>1, <3>2, <3>3, <4>1, SignedLooksAhead
  <2>7. next \in Int
    BY <2>1 DEF Time
  <2>2. y \in Time /\ 2 * y < Word /\ y # 0
    BY <1>2, <2>1, <2>7, SignedLooksAhead
  <2>3. z \in Time /\ 2 * z < Word
    <3>1. now + Slack \in Int
      BY <1>2
    <3> QED
      BY <1>1, <1>2, <1>5, <3>1, SignedLooksAhead
  <2>4. \E k \in Int : (i + Slack) - (y + z) = k * Word
    <3>7. next - now \in Int /\ (now + Slack) - nextDue \in Int /\ nextDue + i \in Int
      BY <1>2, <2>7
    <3>1. PICK k \in Int : (next - now) - y = k * Word
      BY <1>2, <3>7, Remainder
    <3>2. PICK l \in Int : ((now + Slack) - nextDue) - z = l * Word
      BY <1>2, <3>7, Remainder
    <3>3. PICK m \in Int : (nextDue + i) - next = m * Word
      BY <1>2, <2>1, <3>7, Remainder
    <3> HIDE DEF y, z, next
    <3>4. y \in Int /\ z \in Int /\ next \in Int
      BY <2>1, <2>2, <2>3 DEF Time
    <3>5. (i + Slack) - (y + z) = k * Word + l * Word + m * Word
      BY <1>2, <3>1, <3>2, <3>3, <3>4
    <3>6. k * Word + l * Word + m * Word = (k + l + m) * Word /\ k + l + m \in Int
      BY <1>2
    <3> QED
      BY <3>5, <3>6
  <2> HIDE DEF y, z, next
  <2>5. y <= i + Slack
    <3>1. y \in Nat /\ z \in Nat /\ y + z < Word /\ y < Word
      BY <1>2, <2>2, <2>3 DEF Time
    <3>2. CASE i + Slack >= Word
      BY <1>2, <3>1, <3>2
    <3>3. CASE i + Slack < Word
      <4>1. i + Slack \in Time /\ y + z \in Time
        BY <1>2, <3>1, <3>3 DEF Time
      <4>2. i + Slack = y + z
        BY <1>2, <2>4, <4>1, OneTime
      <4> QED
        BY <1>2, <3>1, <4>2
    <3> QED
      BY <1>2, <3>2, <3>3
  <2>6. y \in 1..(i + Slack)
    BY <1>2, <2>2, <2>5 DEF Time
  <2> QED
    BY <2>1, <2>2, <2>6 DEF y, i, next
<1> QED
  BY <1>3, <1>4, <1>5 DEF i

\* The nudge off the sentinel puts the next poll one step later at most.
LEMMA DueIsAhead ==
  ASSUME TypeOK, interval # 0, NEW now \in Time, Due(now)
  PROVE  (NextDue(now) - now) % Word \in 1..(interval + Slack + 1)
<1> DEFINE next == Reanchored(now, Anchored(now))
           x == (next - now) % Word
<1>1. next \in Time /\ x \in 1..(interval + Slack) /\ 2 * x < Word
  BY NextIsAhead
<1>2. Word \in Nat \ {0} /\ Word >= 4 /\ interval \in Int /\ Slack \in Nat
  BY IntervalFits, HalfTheClock DEF Due
<1>3. NextDue(now) = IF next = 0 THEN 1 ELSE next
  BY DEF NextDue, Nudged
<1>4. now \in Int /\ next \in Int /\ next - now \in Int
  BY <1>1 DEF Time
<1> HIDE DEF next
<1>5. x + 1 < Word
  BY <1>1, <1>2
<1>6. CASE next # 0
  BY <1>1, <1>2, <1>3, <1>6
<1>7. CASE next = 0
  <2>1. ((next - now) + 1) % Word = x + 1
    BY <1>2, <1>4, <1>5, OneLater
  <2>2. (next - now) + 1 = 1 - now
    BY <1>4, <1>7
  <2>3. (NextDue(now) - now) % Word = x + 1
    BY <1>3, <1>7, <2>1, <2>2
  <2> HIDE DEF x
  <2>4. x + 1 \in 1..(interval + Slack + 1)
    BY <1>1, <1>2
  <2> QED
    BY <2>3, <2>4
<1> QED
  BY <1>6, <1>7

\* However long reads were pending or ticks were lost, a poll leaves the next one in the
\* future, and no further than the interval after the scheduled time of this one.
THEOREM NoPollIsMadeUp == Spec => NoBacklog
<1> DEFINE Ahead == polled' /\ interval # 0 =>
             \E late \in 0..Jitter : (nextDue' - tick' - late) % Word \in 1..(interval + Slack + 1)
<1>1. ASSUME TypeOK, Next
      PROVE  Ahead
  <2>1. ASSUME NEW lost \in 0..MaxLost, NEW late \in 0..Jitter, Poll(lost, late), interval # 0
        PROVE  (nextDue' - tick' - late) % Word \in 1..(interval + Slack + 1)
    <3> DEFINE now == At(lost, late)
               t == tick + (1 + lost) * HubTick
    <3>1. /\ Word \in Nat \ {0} /\ t \in Int /\ late \in Int /\ now \in Time
          /\ now = (t + late) % Word
      BY <1>1, SampledTime DEF At
    <3>2. Due(now) /\ nextDue' = NextDue(now) /\ tick' = t % Word /\ interval # Never
      BY <2>1 DEF Poll, Advance, Due
    <3> HIDE DEF now, t
    <3>3. nextDue' \in Int
      BY <1>1, <2>1, <3>1, <3>2, DueIsTime DEF Time
    <3>4. (nextDue' - now) % Word = (nextDue' - (t + late)) % Word
      <4>1. t + late \in Int
        BY <3>1
      <4> QED
        BY <3>1, <3>3, <4>1, ReadLater
    <3>5. (nextDue' - late - tick') % Word = (nextDue' - late - t) % Word
      <4>1. nextDue' - late \in Int
        BY <3>1, <3>3
      <4> QED
        BY <3>1, <3>2, <4>1, ReadLater
    <3>6. tick' \in Int
      BY <1>1, <2>1, SampledTime DEF Poll, Time
    <3>7. /\ nextDue' - (t + late) = nextDue' - late - t
          /\ nextDue' - late - tick' = nextDue' - tick' - late
      BY <3>1, <3>3, <3>6
    <3>8. (nextDue' - tick' - late) % Word = (nextDue' - now) % Word
      BY <3>4, <3>5, <3>7
    <3> QED
      BY <1>1, <2>1, <3>1, <3>2, <3>8, DueIsAhead
  <2>2. ASSUME polled', interval # 0
        PROVE  \E lost \in 0..MaxLost, late \in 0..Jitter : Poll(lost, late)
    BY <1>1, <2>2 DEF Next, SkipQueued, NotDue, ReadDone, PriorityRead, RefreshAll
  <2> QED
    BY <2>1, <2>2
<1>2. TypeOK /\ [Next]_vars => [Ahead]_vars
  BY <1>1
<1> QED
  BY <1>2, ScheduleTypeCorrect, PTL DEF Spec, NoBacklog
=============================================================================
