------------------------------- MODULE Deque -------------------------------
(***************************************************************************)
(* What RingBuffer promises the tasks that share one: a double-ended queue  *)
(* whose capacity is fixed once and whose operations take effect one at a   *)
(* time.  Each step is one call that has returned; "result" is what the     *)
(* caller was told.                                                        *)
(***************************************************************************)
EXTENDS QueueOps

CONSTANTS Elements, Capacities, NoItem

VARIABLES queue, capacity, initialized, result
vars == <<queue, capacity, initialized, result>>

Returns(outcome, item) == result' = [outcome |-> outcome, item |-> item]

Init ==
  /\ queue = <<>> /\ capacity = 0 /\ initialized = FALSE
  /\ result = [outcome |-> "none", item |-> NoItem]

\* One successful reserve() only; the allocation may fail, and may be retried.
Reserve(n) ==
  \/ /\ ~initialized
     /\ capacity' = n /\ initialized' = TRUE
     /\ Returns("true", NoItem)
     /\ UNCHANGED queue
  \/ /\ initialized \/ n > 0
     /\ Returns("false", NoItem)
     /\ UNCHANGED <<queue, capacity, initialized>>

\* A push into a full queue is rejected and changes nothing.
Push(v, pushed) ==
  /\ IF Len(queue) < capacity
       THEN queue' = pushed /\ Returns("true", NoItem)
       ELSE UNCHANGED queue /\ Returns("false", NoItem)
  /\ UNCHANGED <<capacity, initialized>>

PushBack(v) == Push(v, Append(queue, v))
PushFront(v) == Push(v, <<v>> \o queue)

\* The first element the predicate accepts moves up; the others keep their order.
MoveFirstToFrontIf(accepted) ==
  /\ \/ /\ \E i \in DOMAIN queue :
             /\ queue[i] \in accepted /\ \A j \in 1..(i - 1) : queue[j] \notin accepted
             /\ queue' = MovedToFront(queue, i)
        /\ Returns("true", NoItem)
     \/ /\ \A i \in DOMAIN queue : queue[i] \notin accepted
        /\ UNCHANGED queue
        /\ Returns("false", NoItem)
  /\ UNCHANGED <<capacity, initialized>>

TryFront ==
  /\ IF queue = <<>> THEN Returns("false", NoItem) ELSE Returns("true", Head(queue))
  /\ UNCHANGED <<queue, capacity, initialized>>

TryPopFront ==
  /\ IF queue = <<>>
       THEN UNCHANGED queue /\ Returns("false", NoItem)
       ELSE queue' = Tail(queue) /\ Returns("true", Head(queue))
  /\ UNCHANGED <<capacity, initialized>>

\* The consumer is offered the front; what it takes is exactly what it was offered.
ConsumeFrontIf ==
  /\ \/ queue = <<>> /\ UNCHANGED queue /\ Returns("EMPTY", NoItem)
     \/ queue # <<>> /\ UNCHANGED queue /\ Returns("RETAINED", Head(queue))
     \/ queue # <<>> /\ queue' = Tail(queue) /\ Returns("REMOVED", Head(queue))
  /\ UNCHANGED <<capacity, initialized>>

Next ==
  \/ \E n \in Capacities : Reserve(n)
  \/ \E v \in Elements : PushBack(v) \/ PushFront(v)
  \/ \E accepted \in SUBSET Elements : MoveFirstToFrontIf(accepted)
  \/ TryFront \/ TryPopFront \/ ConsumeFrontIf

Spec == Init /\ [][Next]_vars
=============================================================================
