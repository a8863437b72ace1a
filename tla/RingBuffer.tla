----------------------------- MODULE RingBuffer -----------------------------
(***************************************************************************)
(* ring_buffer.h: the lanes of the hub.  An array allocated once, a head    *)
(* index and a count, every method under one mutex.  A method is one step,  *)
(* except consume_front_if(), which holds the mutex while the caller's      *)
(* consumer runs; any other task then waits.                               *)
(***************************************************************************)
EXTENDS Integers, Sequences

CONSTANTS
  Elements,    \* values of T
  Capacities,  \* what setup() may ask reserve() for
  NoItem,      \* no element: an out parameter left alone
  Garbage      \* the content of a slot never written

ASSUME RingAssumption ==
  /\ Capacities \subseteq Nat
  /\ NoItem \notin Elements /\ Garbage \notin Elements

VARIABLES
  slots,                  \* slots_
  capacity, head, count,  \* capacity_, head_, count_
  initialized,            \* initialized_
  offered,                \* the item consume_front_if() holds the mutex over
  result                  \* what the last call returned

vars == <<slots, capacity, head, count, initialized, offered, result>>

Init ==
  /\ slots = [s \in {} |-> Garbage] /\ capacity = 0 /\ head = 0 /\ count = 0
  /\ initialized = FALSE /\ offered = NoItem
  /\ result = [outcome |-> "none", item |-> NoItem]

\* slot_unlocked_(): where the element "offset" places behind the head is, and
\* its inverse.
Slot(offset) == IF offset >= capacity - head
                  THEN offset - (capacity - head) ELSE head + offset
Offset(s) == IF s >= head THEN s - head ELSE s + (capacity - head)

Returns(outcome, item) == result' = [outcome |-> outcome, item |-> item]

\* The mutex is free: nobody's consumer is running.
LockFreeAlways == TRUE
LockFree == offered = NoItem

Reserve(n) ==
  /\ LockFree
  /\ \/ /\ ~initialized
        /\ slots' = [s \in 0..(n - 1) |-> Garbage]
        /\ capacity' = n /\ head' = 0 /\ count' = 0 /\ initialized' = TRUE
        /\ Returns("true", NoItem)
        /\ UNCHANGED offered
     \/ /\ initialized \/ n > 0
        /\ Returns("false", NoItem)
        /\ UNCHANGED <<slots, capacity, head, count, initialized, offered>>

RejectPush ==
  /\ LockFree /\ count = capacity
  /\ Returns("false", NoItem)
  /\ UNCHANGED <<slots, capacity, head, count, initialized, offered>>

PushBack(v) ==
  /\ LockFree /\ count # capacity
  /\ slots' = [slots EXCEPT ![Slot(count)] = v]
  /\ count' = count + 1
  /\ Returns("true", NoItem)
  /\ UNCHANGED <<capacity, head, initialized, offered>>

Previous == IF head = 0 THEN capacity - 1 ELSE head - 1

PushFront(v) ==
  /\ LockFree /\ count # capacity
  /\ head' = Previous
  /\ slots' = [slots EXCEPT ![Previous] = v]
  /\ count' = count + 1
  /\ Returns("true", NoItem)
  /\ UNCHANGED <<capacity, initialized, offered>>

\* The elements ahead of the i-th shift back by one, and it goes to the head.
Shifted(i) == [s \in DOMAIN slots |->
                 IF s = head THEN slots[Slot(i)]
                 ELSE IF Offset(s) <= i THEN slots[Slot(Offset(s) - 1)] ELSE slots[s]]

\* move_first_to_front_if(), and move_to_front() with the predicate "is v".
MoveFirstToFrontIf(accepted) ==
  /\ LockFree
  /\ \E i \in 0..(count - 1) :
       /\ slots[Slot(i)] \in accepted
       /\ \A j \in 0..(i - 1) : slots[Slot(j)] \notin accepted
       /\ slots' = Shifted(i)
  /\ Returns("true", NoItem)
  /\ UNCHANGED <<capacity, head, count, initialized, offered>>

FindNothing(accepted) ==
  /\ LockFree
  /\ \A i \in 0..(count - 1) : slots[Slot(i)] \notin accepted
  /\ Returns("false", NoItem)
  /\ UNCHANGED <<slots, capacity, head, count, initialized, offered>>

\* try_front() and try_pop_front() of an empty buffer, consume_front_if() of one.
Empty ==
  /\ LockFree /\ count = 0
  /\ Returns("false", NoItem) \/ Returns("EMPTY", NoItem)
  /\ UNCHANGED <<slots, capacity, head, count, initialized, offered>>

TryFront ==
  /\ LockFree /\ count # 0
  /\ Returns("true", slots[head])
  /\ UNCHANGED <<slots, capacity, head, count, initialized, offered>>

TryPopFront ==
  /\ LockFree /\ count # 0
  /\ Returns("true", slots[head])
  /\ head' = Slot(1)
  /\ count' = count - 1
  /\ UNCHANGED <<slots, capacity, initialized, offered>>

\* consume_front_if(): the front is copied, the consumer runs, and what it says
\* decides whether the front goes.
Offer ==
  /\ LockFree /\ count # 0
  /\ offered' = slots[head]
  /\ UNCHANGED <<slots, capacity, head, count, initialized, result>>

Retain ==
  /\ offered # NoItem
  /\ Returns("RETAINED", offered)
  /\ offered' = NoItem
  /\ UNCHANGED <<slots, capacity, head, count, initialized>>

Remove ==
  /\ offered # NoItem
  /\ Returns("REMOVED", offered)
  /\ offered' = NoItem
  /\ head' = Slot(1)
  /\ count' = count - 1
  /\ UNCHANGED <<slots, capacity, initialized>>

Next ==
  \/ \E n \in Capacities : Reserve(n)
  \/ \E v \in Elements : PushBack(v) \/ PushFront(v) \/ RejectPush
  \/ \E accepted \in SUBSET Elements : MoveFirstToFrontIf(accepted) \/ FindNothing(accepted)
  \/ Empty \/ TryFront \/ TryPopFront
  \/ Offer \/ Retain \/ Remove

Spec == Init /\ [][Next]_vars

----------------------------------------------------------------------------
\* Every variable holds a value of its type; the head stays inside the array.
TypeOK ==
  /\ capacity \in Nat /\ count \in 0..capacity
  /\ head \in Nat /\ (capacity > 0 => head < capacity) /\ (capacity = 0 => head = 0)
  /\ slots \in [0..(capacity - 1) -> Elements \cup {Garbage}]
  /\ initialized \in BOOLEAN /\ (~initialized => capacity = 0)
  /\ offered \in Elements \cup {NoItem}
  /\ result \in [outcome : {"none", "true", "false", "EMPTY", "RETAINED", "REMOVED"},
                 item : Elements \cup {NoItem}]

Contents == [i \in 1..count |-> slots[Slot(i - 1)]]

Abstract == INSTANCE Deque WITH queue <- Contents

\* The ring is the queue it promises to be, whoever calls it: no slot is read
\* before it was written, nothing is lost, duplicated or reordered across the
\* wrap, and the item consume_front_if() removes is the one its consumer saw.
ImplementsDeque == Abstract!Spec
=============================================================================
