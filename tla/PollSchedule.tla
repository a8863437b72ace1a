---------------------------- MODULE PollSchedule ----------------------------
(***************************************************************************)
(* poll_schedule.h and the way schedule_due_entities_() uses it: when one   *)
(* polled entity is due.  The millisecond clock wraps (2^32 in the code,    *)
(* Word here) and deadlines compare through a signed difference.  The hub's *)
(* update() runs a little after the tick that invoked it, and not at all    *)
(* while the loop is blocked; an entity whose read is still pending is       *)
(* passed over.                                                            *)
(***************************************************************************)
EXTENDS Integers

CONSTANTS
  Word,        \* the clock wraps here
  HubTick,     \* get_update_interval() of the hub
  Jitter,      \* how late after its tick update() may sample the clock
  Intervals,   \* what poll_interval() of an entity may be
  MaxLost,     \* bound: ticks the loop may lose at a time
  StallBound   \* bound: how late a pending read may leave an entity

Time == 0..(Word - 1)
Never == Word - 1               \* POLL_NEVER
MaxInterval == (Word \div 2) - 1  \* POLL_INTERVAL_MAX_MS

ASSUME ScheduleAssumption ==
  /\ Word \in Nat /\ HubTick \in Nat \ {0} /\ Jitter \in Nat
  /\ Intervals \subseteq (0..MaxInterval) \cup {Never}
  /\ MaxLost \in Nat /\ StallBound \in Nat

VARIABLES
  interval,   \* poll_interval() of the entity
  tick,       \* the hub tick last run
  nextDue,    \* next_due_ms_; 0 is "never polled"
  queued,     \* read_queued_
  \* History, read by the properties only.
  polled,     \* the last step queued a read
  gap,        \* ticks since the last poll, as far as MaxGap
  regular,    \* nothing disturbed the polling since the last poll
  settled     \* undisturbed gaps before that poll, as far as Settling

schedule == <<interval, tick, nextDue, queued>>
vars == <<interval, tick, nextDue, queued, polled, gap, regular, settled>>

\* static_cast<int32_t>(a - b)
Signed(a, b) == LET d == (a - b) % Word IN IF 2 * d < Word THEN d ELSE d - Word

Slack == HubTick \div 2
Settling == 2  \* gaps a late poll may shorten
MaxGap == (MaxInterval \div HubTick) + 2

Init ==
  /\ interval \in Intervals
  /\ tick \in Time /\ tick % HubTick = 0
  /\ nextDue = 0 /\ queued = FALSE
  /\ polled = FALSE /\ gap = 0 /\ regular = FALSE
  /\ settled = 0

----------------------------------------------------------------------------
\* poll_schedule_step()
DueSharp(now) ==
  /\ interval # Never
  /\ interval = 0 \/ nextDue = 0 \/ Signed(now, nextDue) >= 0
Due(now) ==
  /\ interval # Never
  /\ interval = 0 \/ nextDue = 0 \/ Signed(now + Slack, nextDue) >= 0

\* From the schedule, not from now; from now after a whole period missed; and
\* off the sentinel.
Anchored(now) == ((IF nextDue = 0 THEN now ELSE nextDue) + interval) % Word
ReanchoredNever(now, next) == next
Reanchored(now, next) == IF Signed(next, now) <= 0 THEN (now + interval) % Word ELSE next
Nudged(next) == IF next = 0 THEN 1 ELSE next

NextDue(now) == Nudged(Reanchored(now, Anchored(now)))

----------------------------------------------------------------------------
\* update(): "lost" ticks went by unserved, and the clock is read "late" after
\* this one.  A pending read is not left that long (StallBound).
At(lost, late) == (tick + (1 + lost) * HubTick + late) % Word
Reachable(now) == nextDue = 0 \/ Signed(now, nextDue) <= StallBound

Count == IF gap < MaxGap THEN gap + 1 ELSE gap

Advance(lost) == tick' = (tick + (1 + lost) * HubTick) % Word /\ UNCHANGED interval

SkipQueued(lost, late) ==
  /\ queued /\ Reachable(At(lost, late))
  /\ Advance(lost)
  /\ polled' = FALSE /\ gap' = Count /\ regular' = FALSE
  /\ UNCHANGED <<nextDue, queued, settled>>

NotDue(lost, late) ==
  /\ ~queued /\ Reachable(At(lost, late))
  /\ ~Due(At(lost, late))
  /\ Advance(lost)
  /\ polled' = FALSE /\ gap' = Count /\ regular' = (regular /\ lost = 0)
  /\ UNCHANGED <<nextDue, queued, settled>>

Poll(lost, late) ==
  /\ ~queued /\ Reachable(At(lost, late))
  /\ Due(At(lost, late))
  /\ Advance(lost)
  /\ queued' = TRUE
  /\ nextDue' = IF interval = 0 THEN nextDue ELSE NextDue(At(lost, late))
  /\ polled' = TRUE /\ gap' = 0
  /\ settled' = IF regular /\ lost = 0
                  THEN IF settled < Settling THEN settled + 1 ELSE settled
                  ELSE 0
  /\ regular' = TRUE

\* The read is answered, fails or is refused.
ReadDone ==
  /\ queued
  /\ queued' = FALSE /\ polled' = FALSE
  /\ UNCHANGED <<interval, tick, nextDue, gap, regular, settled>>

\* request_priority_read(): a read-back or the refresh of a sibling.
PriorityRead ==
  /\ ~queued
  /\ queued' = TRUE /\ polled' = FALSE
  /\ UNCHANGED <<interval, tick, nextDue, gap, regular, settled>>

\* refresh_all(), when it is not suppressed.
RefreshAll ==
  /\ nextDue' = 0
  /\ polled' = FALSE /\ regular' = FALSE
  /\ UNCHANGED <<interval, tick, queued, gap, settled>>

Next ==
  \/ \E lost \in 0..MaxLost, late \in 0..Jitter :
       SkipQueued(lost, late) \/ NotDue(lost, late) \/ Poll(lost, late)
  \/ ReadDone \/ PriorityRead \/ RefreshAll

Spec == Init /\ [][Next]_vars

----------------------------------------------------------------------------
\* Every variable holds a value of its type; a due time is a time of the clock.
TypeOK ==
  /\ interval \in Intervals /\ tick \in Time /\ nextDue \in Time
  /\ queued \in BOOLEAN /\ polled \in BOOLEAN /\ gap \in 0..MaxGap
  /\ regular \in BOOLEAN /\ settled \in 0..Settling

\* The ticks between two polls: the interval rounded to hub ticks, one tick for
\* an interval shorter than the hub's.
Floor == IF interval < HubTick THEN 1 ELSE interval \div HubTick
Ceiling == IF interval < HubTick THEN 1 ELSE (interval + HubTick - 1) \div HubTick

\* design_notes.md: an interval is "honoured at hub-tick granularity".  Unless a
\* read is left pending, ticks are lost or a refresh intervenes, an entity whose
\* interval is k hub ticks is polled on every k-th tick, and one in between on
\* the tick before or after: whatever the jitter, across the wrap of the clock,
\* and up to the longest interval the configuration accepts.  After such a
\* disturbance two gaps (Settling) are enough to be back on the schedule.
PollsOnTime ==
  [][settled >= Settling /\ regular /\ tick' # tick /\ (regular' \/ polled') =>
       IF polled' THEN settled' >= Settling => gap + 1 \in Floor..Ceiling
                  ELSE gap + 1 < Ceiling]_vars

\* However long reads were pending or ticks were lost, a poll leaves the next
\* one in the future and no further than an interval after the scheduled time of
\* this one: no backlog of missed slots, and no silence.
NoBacklog ==
  [][polled' /\ interval # 0 =>
       \E late \in 0..Jitter : (nextDue' - tick' - late) % Word \in 1..(interval + Slack + 1)]_vars
=============================================================================
