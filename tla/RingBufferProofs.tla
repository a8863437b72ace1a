-------------------------- MODULE RingBufferProofs --------------------------
(* RingBuffer keeps its type and implements Deque, for any capacity and any  *)
(* elements.                                                                *)
EXTENDS RingBuffer, QueueOps, SequenceTheorems, TLAPS

\* The slots that count were written, and a consumer is offered the front.
Written == \A k \in 0..(count - 1) : slots[Slot(k)] \in Elements
FrontOffered == offered # NoItem => count > 0 /\ offered = slots[head]
IInv == TypeOK /\ Written /\ FrontOffered

\* slot_unlocked_() stays inside the array, Offset undoes it, and the head is at
\* offset zero.
LEMMA SlotFacts ==
  ASSUME TypeOK, NEW k \in 0..(capacity - 1)
  PROVE  /\ Slot(k) \in 0..(capacity - 1)
         /\ Offset(Slot(k)) = k
         /\ Slot(0) = head
BY DEF TypeOK, Slot, Offset

\* Two offsets never share a slot.
LEMMA SlotsDiffer ==
  ASSUME TypeOK, NEW k \in 0..(capacity - 1), NEW m \in 0..(capacity - 1), k # m
  PROVE  Slot(k) # Slot(m)
BY DEF TypeOK, Slot

\* What the ring holds is a queue of "count" elements, the front at the head.
ContentsOK ==
  /\ Contents \in Seq(Elements)
  /\ Len(Contents) = count /\ count \in Nat
  /\ DOMAIN Contents = 1..count
  /\ \A i \in 1..count : Contents[i] = slots[Slot(i - 1)]
  /\ Contents = <<>> <=> count = 0
  /\ count > 0 => Head(Contents) = slots[head]

\* In every reachable state the slots from the head on are such a queue.
LEMMA ContentsFacts == IInv => ContentsOK
<1> SUFFICES ASSUME IInv PROVE ContentsOK
  OBVIOUS
<1>1. count \in Nat /\ count <= capacity /\ capacity \in Nat
  BY DEF IInv, TypeOK
<1>2. \A i \in 1..count : slots[Slot(i - 1)] \in Elements
  BY <1>1 DEF IInv, Written
<1>3. Contents \in [1..count -> Elements]
  BY <1>2 DEF Contents
<1>4. Contents \in Seq(Elements) /\ DOMAIN Contents = 1..count
  BY <1>1, <1>3, SeqDef
<1>5. Len(Contents) = count
  BY <1>1, <1>4, LenProperties
<1>6. Contents = <<>> <=> count = 0
  BY <1>4, <1>5, EmptySeq
<1>7. ASSUME count > 0 PROVE Head(Contents) = slots[head]
  <2>1. Head(Contents) = Contents[1]
    BY <1>4, <1>5, <1>7
  <2>2. Slot(0) = head /\ 1 \in 1..count
    BY <1>1, <1>7, SlotFacts, 0 \in 0..(capacity - 1) DEF IInv
  <2> QED
    BY <2>1, <2>2 DEF Contents
<1> QED
  BY <1>1, <1>4, <1>5, <1>6, <1>7 DEF ContentsOK, Contents

\* An unreserved ring is well formed.
LEMMA InitIInv == Init => IInv
<1> SUFFICES ASSUME Init PROVE IInv
  OBVIOUS
<1>1. slots \in [0..(capacity - 1) -> Elements \cup {Garbage}]
  <2>1. capacity = 0 /\ 0..(0 - 1) = {}
    BY DEF Init
  <2>2. slots \in [{} -> Elements \cup {Garbage}]
    BY DEF Init
  <2> QED
    BY <2>1, <2>2
<1>2. 0..(count - 1) = {}
  BY DEF Init
<1>3. /\ capacity = 0 /\ head = 0 /\ count = 0 /\ initialized = FALSE /\ offered = NoItem
      /\ result = [outcome |-> "none", item |-> NoItem]
  BY DEF Init
<1>4. TypeOK
  <2>1. count \in 0..capacity /\ capacity \in Nat /\ head \in Nat
    BY <1>3
  <2>2. /\ capacity > 0 => head < capacity
        /\ capacity = 0 => head = 0
        /\ initialized \in BOOLEAN /\ (~initialized => capacity = 0)
    BY <1>3
  <2>3. /\ offered \in Elements \cup {NoItem}
        /\ result \in [outcome : {"none", "true", "false", "EMPTY", "RETAINED", "REMOVED"},
                       item : Elements \cup {NoItem}]
    BY <1>3
  <2> QED
    BY <1>1, <2>1, <2>2, <2>3 DEF TypeOK
<1> QED
  BY <1>2, <1>3, <1>4 DEF IInv, Written, FrontOffered

\* Each operation keeps the ring well formed.
LEMMA StepIInv == IInv /\ [Next]_vars => IInv'
<1> SUFFICES ASSUME IInv, [Next]_vars PROVE IInv'
  OBVIOUS
<1> USE DEF IInv, Written, FrontOffered, Returns, LockFree
<1>1. ASSUME NEW n \in Capacities, Reserve(n) PROVE IInv'
  <2>1. n \in Nat
    BY RingAssumption
  <2>2. CASE UNCHANGED <<slots, capacity, head, count, initialized>>
    BY <1>1, <2>2 DEF Reserve, TypeOK, Slot
  <2>3. CASE /\ slots' = [s \in 0..(n - 1) |-> Garbage] /\ capacity' = n /\ head' = 0
             /\ count' = 0 /\ initialized' = TRUE
             /\ Returns("true", NoItem) /\ UNCHANGED offered
    <3>1. slots' \in [0..(capacity' - 1) -> Elements \cup {Garbage}]
      BY <2>3
    <3>2. 0..(count' - 1) = {}
      BY <2>3
    <3>3. TypeOK'
      BY <2>1, <2>3, <3>1 DEF TypeOK
    <3>4. offered' = NoItem
      BY <1>1, <2>3 DEF Reserve
    <3> QED
      BY <3>2, <3>3, <3>4
  <2> QED
    BY <1>1, <2>2, <2>3 DEF Reserve
<1>2. CASE RejectPush
  BY <1>2 DEF RejectPush, TypeOK, Slot
<1>3. ASSUME NEW v \in Elements, PushBack(v) PROVE IInv'
  <2>1. count \in 0..(capacity - 1) /\ Slot(count) \in 0..(capacity - 1)
    BY <1>3, SlotFacts DEF PushBack, TypeOK
  <2>2. TypeOK'
    BY <1>3, <2>1 DEF PushBack, TypeOK
  <2>3. ASSUME NEW k \in 0..(count' - 1) PROVE slots'[Slot(k)'] \in Elements
    <3>1. Slot(k)' = Slot(k) /\ k \in 0..count /\ k \in 0..(capacity - 1)
      BY <1>3, <2>1 DEF PushBack, Slot, TypeOK
    <3>2. CASE k = count
      BY <1>3, <2>1, <3>1, <3>2 DEF PushBack, TypeOK
    <3>3. CASE k # count
      <4>1. Slot(k) # Slot(count) /\ Slot(k) \in 0..(capacity - 1)
        BY <2>1, <3>1, <3>3, SlotsDiffer, SlotFacts
      <4> QED
        BY <1>3, <3>1, <3>3, <4>1 DEF PushBack, TypeOK
    <3> QED
      BY <3>2, <3>3
  <2> QED
    BY <1>3, <2>2, <2>3 DEF PushBack
<1>4. ASSUME NEW v \in Elements, PushFront(v) PROVE IInv'
  <2>1. /\ count < capacity /\ count \in Nat /\ capacity \in Nat
        /\ Previous \in 0..(capacity - 1)
    BY <1>4 DEF PushFront, TypeOK, Previous
  <2>2. TypeOK'
    BY <1>4, <2>1 DEF PushFront, TypeOK
  <2>3. ASSUME NEW k \in 0..(count' - 1) PROVE slots'[Slot(k)'] \in Elements
    <3>1. k \in Nat /\ k <= count /\ count' = count + 1
      BY <1>4, <2>1 DEF PushFront
    <3>2. CASE k = 0
      <4>1. Slot(k)' = Previous
        BY <1>4, <2>1, <3>2 DEF PushFront, TypeOK, Slot, Previous
      <4> QED
        BY <1>4, <2>1, <4>1 DEF PushFront, TypeOK
    <3>3. CASE k # 0
      <4>1. Slot(k)' = Slot(k - 1) /\ Slot(k - 1) # Previous
        BY <1>4, <2>1, <3>1, <3>3 DEF PushFront, TypeOK, Slot, Previous
      <4>2. Slot(k - 1) \in 0..(capacity - 1) /\ k - 1 \in 0..(count - 1)
        BY <2>1, <3>1, <3>3, SlotFacts
      <4> QED
        BY <1>4, <4>1, <4>2 DEF PushFront, TypeOK
    <3> QED
      BY <3>2, <3>3
  <2> QED
    BY <1>4, <2>2, <2>3 DEF PushFront
<1>5. ASSUME NEW accepted \in SUBSET Elements, MoveFirstToFrontIf(accepted) PROVE IInv'
  <2>1. PICK i \in 0..(count - 1) : slots' = Shifted(i)
    BY <1>5 DEF MoveFirstToFrontIf
  <2>2. \A k \in 0..(count - 1) : Slot(k) \in 0..(capacity - 1) /\ Offset(Slot(k)) = k
    BY SlotFacts DEF TypeOK
  <2>3. \A s \in 0..(capacity - 1) :
          Offset(s) \in 0..(capacity - 1) /\ (Offset(s) = 0 <=> s = head)
    BY DEF TypeOK, Offset
  <2>4. \A s \in 0..(capacity - 1) : Offset(s) <= i /\ s # head =>
          Offset(s) - 1 \in 0..(count - 1)
    <3> DEFINE o(s) == Offset(s)
    <3>1. count \in Nat /\ i \in Nat /\ i <= count - 1
      BY <2>1 DEF TypeOK
    <3>2. \A s \in 0..(capacity - 1) : o(s) \in Nat /\ (o(s) = 0 <=> s = head)
      BY <2>3
    <3> HIDE DEF o
    <3>3. \A s \in 0..(capacity - 1) : o(s) <= i /\ s # head => o(s) - 1 \in 0..(count - 1)
      BY <3>1, <3>2
    <3> QED
      BY <3>3 DEF o
  <2>5. DOMAIN slots = 0..(capacity - 1) /\ count <= capacity
    BY DEF TypeOK
  <2>6. \A s \in 0..(capacity - 1) : slots'[s] \in Elements \cup {Garbage}
    BY <2>1, <2>2, <2>4, <2>5 DEF TypeOK, Shifted
  <2>7. slots' \in [0..(capacity - 1) -> Elements \cup {Garbage}]
    BY <2>1, <2>5, <2>6 DEF Shifted
  <2>8. \A k \in 0..(count - 1) : slots'[Slot(k)] \in Elements
    BY <2>1, <2>2, <2>4, <2>5 DEF Shifted
  <2>9. \A k \in 0..(count - 1) : Slot(k)' = Slot(k)
    BY <1>5 DEF MoveFirstToFrontIf, Slot
  <2>10. TypeOK'
    BY <1>5, <2>7 DEF MoveFirstToFrontIf, TypeOK
  <2> QED
    BY <1>5, <2>8, <2>9, <2>10 DEF MoveFirstToFrontIf
<1>6. ASSUME NEW accepted \in SUBSET Elements, FindNothing(accepted) PROVE IInv'
  BY <1>6 DEF FindNothing, TypeOK, Slot
<1>7. CASE Empty
  BY <1>7 DEF Empty, TypeOK, Slot
<1>8. ASSUME count > 0, LockFree \/ offered = slots[head] PROVE slots[head] \in Elements
  BY <1>8, SlotFacts, 0 \in 0..(capacity - 1) DEF TypeOK
<1>9. CASE TryFront
  BY <1>8, <1>9 DEF TryFront, TypeOK, Slot
<1>10. ASSUME head' = Slot(1), count' = count - 1, count > 0,
              UNCHANGED <<slots, capacity, initialized>>, offered' = NoItem,
              result' \in [outcome : {"true", "REMOVED"}, item : Elements]
       PROVE  IInv'
  <2>1. TypeOK'
    BY <1>10 DEF TypeOK, Slot
  <2>2. \A k \in 0..(count' - 1) : Slot(k)' = Slot(k + 1)
    BY <1>10 DEF TypeOK, Slot
  <2> QED
    BY <1>10, <2>1, <2>2 DEF TypeOK
<1>11. CASE TryPopFront
  BY <1>8, <1>10, <1>11 DEF TryPopFront, TypeOK
<1>12. CASE Offer
  BY <1>8, <1>12 DEF Offer, TypeOK, Slot
<1>13. CASE Retain
  BY <1>13 DEF Retain, TypeOK, Slot
<1>14. CASE Remove
  BY <1>8, <1>10, <1>14 DEF Remove, TypeOK
<1>15. CASE UNCHANGED vars
  BY <1>15 DEF vars, TypeOK, Slot
<1> QED
  BY <1>1, <1>2, <1>3, <1>4, <1>5, <1>6, <1>7, <1>9, <1>11, <1>12, <1>13, <1>14, <1>15
  DEF Next

\* The ring keeps its type: the head stays inside the array and the count within
\* the capacity, whatever sequence of calls is made (ring_buffer.h).
THEOREM RingTypeCorrect == Spec => []TypeOK
<1>1. Spec => []IInv
  BY InitIInv, StepIInv, PTL DEF Spec
<1>2. IInv => TypeOK
  BY DEF IInv
<1> QED
  BY <1>1, <1>2, PTL

----------------------------------------------------------------------------
\* Removing the front of the ring is taking the tail of the queue.
LEMMA FrontRemoved ==
  ASSUME IInv, ContentsOK, ContentsOK', count > 0, head' = Slot(1), count' = count - 1,
         UNCHANGED <<slots, capacity>>
  PROVE  Contents' = Tail(Contents) /\ Contents # <<>> /\ Head(Contents) = slots[head]
<1>1. /\ Contents # <<>> /\ Head(Contents) = slots[head]
      /\ Contents \in Seq(Elements) /\ Len(Contents) = count
      /\ Contents' \in Seq(Elements) /\ Len(Contents') = count - 1
      /\ \A i \in 1..count : Contents[i] = slots[Slot(i - 1)]
      /\ \A i \in 1..(count - 1) : Contents'[i] = slots[Slot(i - 1)']
  BY DEF ContentsOK
<1>2. /\ Tail(Contents) \in Seq(Elements) /\ Len(Tail(Contents)) = count - 1
      /\ \A i \in 1..(count - 1) : Tail(Contents)[i] = Contents[i + 1]
  BY <1>1, HeadTailProperties
<1>3. count \in Nat
  BY DEF IInv, TypeOK
<1>4. \A i \in 1..(count - 1) : Slot(i - 1)' = Slot(i) /\ i + 1 \in 1..count /\ (i + 1) - 1 = i
  BY <1>3 DEF IInv, TypeOK, Slot
<1>5. ASSUME NEW i \in 1..(count - 1) PROVE Contents'[i] = Tail(Contents)[i]
  <2>1. Contents'[i] = slots[Slot(i)]
    BY <1>1, <1>4
  <2>2. Contents[i + 1] = slots[Slot(i)]
    BY <1>1, <1>4
  <2> QED
    BY <1>2, <2>1, <2>2
<1>6. Contents' = Tail(Contents)
  BY <1>1, <1>2, <1>5, SeqEqual
<1> QED
  BY <1>1, <1>6

\* What leaves the array alone leaves the queue alone.
LEMMA SameContents ==
  ASSUME UNCHANGED <<slots, capacity, head, count>>
  PROVE  Contents' = Contents
BY DEF Contents, Slot

\* Every step of the ring is a step of the queue, or invisible (the consumer of
\* consume_front_if() starting).
LEMMA StepRefines ==
  ASSUME IInv, IInv', ContentsOK, ContentsOK', [Next]_vars
  PROVE  [Abstract!Next]_(Abstract!vars)
<1> USE DEF Returns, Abstract!Returns
<1>1. ASSUME NEW n \in Capacities, Reserve(n) PROVE Abstract!Reserve(n)
  <2>1. CASE UNCHANGED <<slots, capacity, head, count, initialized>>
    BY <1>1, <2>1, SameContents DEF Reserve, Abstract!Reserve
  <2>2. CASE ~initialized /\ capacity' = n /\ count' = 0 /\ initialized' = TRUE
             /\ Returns("true", NoItem)
    <3>1. count = 0
      BY <2>2 DEF IInv, TypeOK
    <3>2. Contents = <<>> /\ Contents' = <<>>
      BY <2>2, <3>1 DEF ContentsOK
    <3> QED
      BY <2>2, <3>2 DEF Abstract!Reserve
  <2> QED
    BY <1>1, <2>1, <2>2 DEF Reserve
<1>2. ASSUME NEW v \in Elements, RejectPush PROVE Abstract!PushBack(v)
  BY <1>2, SameContents DEF RejectPush, ContentsOK, Abstract!PushBack, Abstract!Push
<1>3. ASSUME NEW v \in Elements, PushBack(v) PROVE Abstract!PushBack(v)
  <2>1. count \in 0..(capacity - 1) /\ Slot(count) \in 0..(capacity - 1) /\ count < capacity
    BY <1>3, SlotFacts DEF PushBack, TypeOK, IInv
  <2>2. /\ Contents \in Seq(Elements) /\ Len(Contents) = count
        /\ Contents' \in Seq(Elements) /\ Len(Contents') = count + 1
        /\ \A i \in 1..count : Contents[i] = slots[Slot(i - 1)]
        /\ \A i \in 1..(count + 1) : Contents'[i] = slots'[Slot(i - 1)']
    BY <1>3 DEF ContentsOK, PushBack
  <2>3. \A i \in 1..(count + 1) : Slot(i - 1)' = Slot(i - 1)
    BY <1>3 DEF PushBack, Slot
  <2>4. \A i \in 1..count : Slot(i - 1) # Slot(count) /\ Slot(i - 1) \in 0..(capacity - 1)
    <3>1. \A i \in 1..count : i - 1 \in 0..(capacity - 1) /\ i - 1 # count
      BY <2>1 DEF IInv, TypeOK
    <3> QED
      BY <2>1, <3>1, SlotsDiffer, SlotFacts DEF IInv
  <2>5. DOMAIN slots = 0..(capacity - 1) /\ slots' = [slots EXCEPT ![Slot(count)] = v]
    BY <1>3 DEF IInv, TypeOK, PushBack
  <2>6. \A i \in 1..count : Contents'[i] = Contents[i]
    BY <2>1, <2>2, <2>3, <2>4, <2>5
  <2>7. Contents'[count + 1] = v
    <3>1. count + 1 \in 1..(count + 1) /\ (count + 1) - 1 = count
      BY <2>1
    <3> QED
      BY <2>1, <2>2, <2>3, <2>5, <3>1
  <2>8. Contents' = Append(Contents, v)
    <3> DEFINE old == Contents
               new == Contents'
               longer == Append(old, v)
    <3>1. /\ old \in Seq(Elements) /\ Len(old) = count /\ count \in Nat
          /\ new \in Seq(Elements) /\ Len(new) = count + 1
          /\ \A i \in 1..count : new[i] = old[i]
          /\ new[count + 1] = v
      BY <2>1, <2>2, <2>6, <2>7
    <3> HIDE DEF old, new
    <3>2. /\ longer \in Seq(Elements) /\ Len(longer) = count + 1
          /\ \A i \in 1..count : longer[i] = old[i]
          /\ longer[count + 1] = v
      BY <3>1
    <3>3. \A i \in 1..(count + 1) : i \in 1..count \/ i = count + 1
      BY <3>1
    <3>4. \A i \in 1..Len(new) : new[i] = longer[i]
      BY <3>1, <3>2, <3>3
    <3> HIDE DEF longer
    <3>5. new = longer
      BY <3>1, <3>2, <3>4, SeqEqual
    <3> QED
      BY <3>5 DEF new, longer, old
  <2> QED
    BY <1>3, <2>1, <2>2, <2>8 DEF PushBack, Abstract!PushBack, Abstract!Push
<1>4. ASSUME NEW v \in Elements, PushFront(v) PROVE Abstract!PushFront(v)
  <2>1. /\ count < capacity /\ count \in Nat /\ capacity \in Nat
        /\ Previous \in 0..(capacity - 1)
    BY <1>4 DEF PushFront, IInv, TypeOK, Previous
  <2>2. /\ Contents \in Seq(Elements) /\ Len(Contents) = count
        /\ Contents' \in Seq(Elements) /\ Len(Contents') = count + 1
        /\ \A i \in 1..count : Contents[i] = slots[Slot(i - 1)]
        /\ \A i \in 1..(count + 1) : Contents'[i] = slots'[Slot(i - 1)']
    BY <1>4 DEF ContentsOK, PushFront
  <2>3. DOMAIN slots = 0..(capacity - 1) /\ slots' = [slots EXCEPT ![Previous] = v]
    BY <1>4 DEF IInv, TypeOK, PushFront
  <2>4. Contents'[1] = v
    <3>1. Slot(0)' = Previous
      BY <1>4, <2>1 DEF PushFront, IInv, TypeOK, Slot, Previous
    <3>2. 1 \in 1..(count + 1) /\ 1 - 1 = 0
      BY <2>1
    <3> QED
      BY <2>1, <2>2, <2>3, <3>1, <3>2
  <2>5. ASSUME NEW i \in 1..count PROVE Contents'[i + 1] = Contents[i]
    <3>1. Slot(i)' = Slot(i - 1) /\ Slot(i - 1) # Previous
      BY <1>4, <2>1 DEF PushFront, IInv, TypeOK, Slot, Previous
    <3>2. i + 1 \in 1..(count + 1) /\ (i + 1) - 1 = i /\ i - 1 \in 0..(capacity - 1)
      BY <2>1
    <3>3. Slot(i - 1) \in 0..(capacity - 1)
      BY <3>2, SlotFacts DEF IInv
    <3> QED
      BY <2>1, <2>2, <2>3, <3>1, <3>2, <3>3
  <2>6. Contents' = <<v>> \o Contents
    <3> DEFINE old == Contents
               new == Contents'
               one == <<v>>
               longer == one \o old
    <3>1. /\ old \in Seq(Elements) /\ Len(old) = count /\ count \in Nat
          /\ new \in Seq(Elements) /\ Len(new) = count + 1
          /\ \A i \in 1..count : new[i + 1] = old[i]
          /\ new[1] = v
          /\ one \in Seq(Elements) /\ Len(one) = 1 /\ one[1] = v
      BY <2>1, <2>2, <2>4, <2>5
    <3> HIDE DEF old, new, one
    <3>2. /\ longer \in Seq(Elements) /\ Len(longer) = count + 1
          /\ \A i \in 1..(count + 1) : longer[i] = IF i <= 1 THEN one[i] ELSE old[i - 1]
      <4>1. Len(one) + Len(old) = count + 1
        BY <3>1
      <4>2. /\ longer \in Seq(Elements) /\ Len(longer) = Len(one) + Len(old)
            /\ \A i \in 1..(Len(one) + Len(old)) :
                 longer[i] = IF i <= Len(one) THEN one[i] ELSE old[i - Len(one)]
        BY <3>1, ConcatProperties
      <4> QED
        BY <3>1, <4>1, <4>2
    <3> HIDE DEF longer
    <3>3. \A i \in 1..(count + 1) : i = 1 \/ (~(i <= 1) /\ i - 1 \in 1..count /\ (i - 1) + 1 = i)
      BY <3>1
    <3>4. \A i \in 1..Len(new) : new[i] = longer[i]
      BY <3>1, <3>2, <3>3
    <3>5. new = longer
      BY <3>1, <3>2, <3>4, SeqEqual
    <3> QED
      BY <3>5 DEF new, longer, old, one
  <2> QED
    BY <1>4, <2>1, <2>2, <2>6 DEF PushFront, Abstract!PushFront, Abstract!Push
<1>5. ASSUME NEW accepted \in SUBSET Elements, MoveFirstToFrontIf(accepted)
      PROVE  Abstract!MoveFirstToFrontIf(accepted)
  <2>1. PICK i \in 0..(count - 1) :
          /\ slots[Slot(i)] \in accepted
          /\ \A j \in 0..(i - 1) : slots[Slot(j)] \notin accepted
          /\ slots' = Shifted(i)
    BY <1>5 DEF MoveFirstToFrontIf
  <2>2. count \in Nat /\ count <= capacity /\ capacity \in Nat /\ i \in Nat /\ i < count
    BY <2>1 DEF IInv, TypeOK
  <2>3. /\ Contents \in Seq(Elements) /\ Len(Contents) = count /\ DOMAIN Contents = 1..count
        /\ Contents' \in Seq(Elements) /\ Len(Contents') = count
        /\ \A k \in 1..count : Contents[k] = slots[Slot(k - 1)]
        /\ \A k \in 1..count : Contents'[k] = slots'[Slot(k - 1)]
    BY <1>5 DEF ContentsOK, MoveFirstToFrontIf, Slot
  <2>4. \A k \in 0..(count - 1) : /\ Slot(k) \in 0..(capacity - 1)
                                  /\ Offset(Slot(k)) = k
                                  /\ (Slot(k) = head <=> k = 0)
    <3>1. \A k \in 0..(count - 1) : k \in 0..(capacity - 1)
      BY <2>2
    <3>2. \A k \in 0..(count - 1) : Slot(k) = head <=> k = 0
      BY <2>2 DEF IInv, TypeOK, Slot
    <3> QED
      BY <3>1, <3>2, SlotFacts DEF IInv
  <2>5. \A s \in 0..(capacity - 1) :
          slots'[s] = IF s = head THEN slots[Slot(i)]
                      ELSE IF Offset(s) <= i THEN slots[Slot(Offset(s) - 1)] ELSE slots[s]
    BY <2>1 DEF Shifted, IInv, TypeOK
  <2>6. \A k \in 0..(count - 1) :
          slots'[Slot(k)] = IF k = 0 THEN slots[Slot(i)]
                            ELSE IF k <= i THEN slots[Slot(k - 1)] ELSE slots[Slot(k)]
    BY <2>4, <2>5
  <2>7. Contents' = MovedToFront(Contents, i + 1)
    <3> DEFINE old == Contents
               new == Contents'
               one == <<old[i + 1]>>
               rest == Without(old, i + 1)
               moved == one \o rest
    <3>1. /\ old \in Seq(Elements) /\ Len(old) = count
          /\ new \in Seq(Elements) /\ Len(new) = count
      BY <2>3
    <3>2. \A k \in 1..count : new[k] = IF k = 1 THEN old[i + 1]
                                       ELSE IF k <= i + 1 THEN old[k - 1] ELSE old[k]
      <4>1. \A k \in 1..count : k - 1 \in 0..(count - 1) /\ (k = 1 <=> k - 1 = 0)
                                /\ (k - 1 <= i <=> k <= i + 1)
        BY <2>2
      <4>2. \A k \in 1..count : k # 1 => k - 1 \in 1..count /\ (k - 1) - 1 = k - 1 - 1
        BY <2>2
      <4>3. i + 1 \in 1..count /\ (i + 1) - 1 = i
        BY <2>2
      <4> TAKE k \in 1..count
      <4>4. new[k] = IF k - 1 = 0 THEN slots[Slot(i)]
                     ELSE IF k - 1 <= i THEN slots[Slot((k - 1) - 1)] ELSE slots[Slot(k - 1)]
        BY <2>3, <2>6, <4>1
      <4>5. old[i + 1] = slots[Slot(i)] /\ old[k] = slots[Slot(k - 1)]
        BY <2>3, <4>3
      <4>6. k # 1 => old[k - 1] = slots[Slot((k - 1) - 1)]
        BY <2>3, <4>2
      <4> QED
        BY <4>1, <4>4, <4>5, <4>6
    <3> HIDE DEF old, new
    <3>3. old[i + 1] \in Elements
      BY <2>2, <3>1
    <3>4. one \in Seq(Elements) /\ Len(one) = 1 /\ one[1] = old[i + 1]
      BY <3>3
    <3>5. /\ rest \in Seq(Elements) /\ Len(rest) = count - 1
          /\ \A j \in 1..(count - 1) : rest[j] = IF j < i + 1 THEN old[j] ELSE old[j + 1]
      <4>1. rest = [j \in 1..(count - 1) |-> IF j < i + 1 THEN old[j] ELSE old[j + 1]]
        BY <3>1 DEF Without
      <4>2. \A j \in 1..(count - 1) : old[j] \in Elements /\ old[j + 1] \in Elements
        BY <2>2, <3>1
      <4>3. rest \in [1..(count - 1) -> Elements] /\ count - 1 \in Nat
        BY <2>2, <4>1, <4>2
      <4>4. rest \in Seq(Elements) /\ DOMAIN rest = 1..(count - 1)
        BY <4>3, SeqDef
      <4> QED
        BY <4>1, <4>3, <4>4, LenProperties
    <3> HIDE DEF one, rest
    <3>6. /\ moved \in Seq(Elements) /\ Len(moved) = count
          /\ \A k \in 1..count : moved[k] = IF k <= 1 THEN one[k] ELSE rest[k - 1]
      <4>1. Len(one) + Len(rest) = count
        BY <2>2, <3>4, <3>5
      <4>2. /\ moved \in Seq(Elements) /\ Len(moved) = Len(one) + Len(rest)
            /\ \A k \in 1..(Len(one) + Len(rest)) :
                 moved[k] = IF k <= Len(one) THEN one[k] ELSE rest[k - Len(one)]
        BY <3>4, <3>5, ConcatProperties
      <4> QED
        BY <3>4, <4>1, <4>2
    <3> HIDE DEF moved
    <3>7. \A k \in 1..count : new[k] = moved[k]
      <4> TAKE k \in 1..count
      <4>1. CASE k = 1
        BY <3>2, <3>4, <3>6, <4>1
      <4>2. CASE k # 1
        <5>1. /\ ~(k <= 1) /\ k - 1 \in 1..(count - 1) /\ (k - 1) + 1 = k
              /\ (k - 1 < i + 1 <=> k <= i + 1)
          BY <2>2, <4>2
        <5> QED
          BY <3>2, <3>5, <3>6, <4>2, <5>1
      <4> QED
        BY <4>1, <4>2
    <3>8. new = moved
      BY <3>1, <3>6, <3>7, SeqEqual
    <3> QED
      BY <3>8 DEF new, old, moved, one, rest, MovedToFront
  <2>8. /\ i + 1 \in DOMAIN Contents /\ Contents[i + 1] \in accepted
        /\ \A j \in 1..((i + 1) - 1) : Contents[j] \notin accepted
    <3>1. i + 1 \in 1..count /\ (i + 1) - 1 = i
      BY <2>2
    <3>2. \A j \in 1..i : j \in 1..count /\ j - 1 \in 0..(i - 1)
      BY <2>2
    <3> QED
      BY <2>1, <2>3, <3>1, <3>2
  <2>9. \E k \in DOMAIN Contents :
          /\ Contents[k] \in accepted /\ \A j \in 1..(k - 1) : Contents[j] \notin accepted
          /\ Contents' = MovedToFront(Contents, k)
    BY <2>7, <2>8
  <2>10. UNCHANGED <<capacity, initialized>> /\ Returns("true", NoItem)
    BY <1>5 DEF MoveFirstToFrontIf
  <2> QED
    BY <2>9, <2>10 DEF Abstract!MoveFirstToFrontIf, MovedToFront, Without,
                       Abstract!MovedToFront, Abstract!Without
<1>6. ASSUME NEW accepted \in SUBSET Elements, FindNothing(accepted)
      PROVE  Abstract!MoveFirstToFrontIf(accepted)
  <2>1. \A k \in 1..count : k - 1 \in 0..(count - 1)
    BY DEF IInv, TypeOK
  <2>2. \A k \in DOMAIN Contents : Contents[k] \notin accepted
    BY <1>6, <2>1 DEF FindNothing, ContentsOK
  <2> QED
    BY <1>6, <2>2, SameContents DEF FindNothing, Abstract!MoveFirstToFrontIf
<1>7. ASSUME Empty PROVE Abstract!TryFront \/ Abstract!ConsumeFrontIf
  <2>1. Contents = <<>> /\ Contents' = Contents
    BY <1>7, SameContents DEF Empty, ContentsOK
  <2> QED
    BY <1>7, <2>1 DEF Empty, Abstract!TryFront, Abstract!ConsumeFrontIf
<1>8. count \in Nat
  BY DEF IInv, TypeOK
<1>9. ASSUME TryFront PROVE Abstract!TryFront
  <2>1. Contents' = Contents /\ Contents # <<>> /\ Head(Contents) = slots[head]
    BY <1>8, <1>9, SameContents DEF TryFront, ContentsOK
  <2> QED
    BY <1>9, <2>1 DEF TryFront, Abstract!TryFront
<1>10. ASSUME TryPopFront PROVE Abstract!TryPopFront
  <2>1. Contents' = Tail(Contents) /\ Contents # <<>> /\ Head(Contents) = slots[head]
    BY <1>8, <1>10, FrontRemoved DEF TryPopFront
  <2> QED
    BY <1>10, <2>1 DEF TryPopFront, Abstract!TryPopFront
<1>11. CASE Offer
  BY <1>11, SameContents DEF Offer, Abstract!vars
<1>12. ASSUME Retain PROVE Abstract!ConsumeFrontIf
  <2>1. Contents' = Contents /\ Contents # <<>> /\ Head(Contents) = offered
    BY <1>8, <1>12, SameContents DEF Retain, ContentsOK, IInv, FrontOffered
  <2> QED
    BY <1>12, <2>1 DEF Retain, Abstract!ConsumeFrontIf
<1>13. ASSUME Remove PROVE Abstract!ConsumeFrontIf
  <2>1. count > 0 /\ offered = slots[head]
    BY <1>13 DEF Remove, IInv, FrontOffered
  <2>2. Contents' = Tail(Contents) /\ Contents # <<>> /\ Head(Contents) = offered
    BY <1>13, <2>1, FrontRemoved DEF Remove
  <2> QED
    BY <1>13, <2>2 DEF Remove, Abstract!ConsumeFrontIf
<1>14. CASE UNCHANGED vars
  BY <1>14, SameContents DEF vars, Abstract!vars
<1> QED
  BY <1>1, <1>2, <1>3, <1>4, <1>5, <1>6, <1>7, <1>9, <1>10, <1>11, <1>12, <1>13, <1>14
  DEF Next, Abstract!Next

\* An unreserved ring is an unreserved queue.
LEMMA InitRefines == Init => Abstract!Init
<1> SUFFICES ASSUME Init PROVE Abstract!Init
  OBVIOUS
<1>1. ContentsOK
  BY InitIInv, ContentsFacts
<1> QED
  BY <1>1 DEF Init, ContentsOK, Abstract!Init

\* The ring implements the queue it promises to be, for any capacity, any
\* elements and any interleaving of the tasks that call it (ring_buffer.h).
THEOREM RingImplementsDeque == Spec => ImplementsDeque
<1>1. Spec => []IInv
  BY InitIInv, StepIInv, PTL DEF Spec
<1>2. IInv => ContentsOK
  BY ContentsFacts
<1>3. IInv /\ IInv' /\ ContentsOK /\ ContentsOK' /\ [Next]_vars
        => [Abstract!Next]_(Abstract!vars)
  BY StepRefines
<1>4. Init => Abstract!Init
  BY InitRefines
<1> QED
  BY <1>1, <1>2, <1>3, <1>4, PTL DEF Spec, ImplementsDeque, Abstract!Spec
=============================================================================
