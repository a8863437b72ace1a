------------------------------ MODULE QueueOps ------------------------------
(* Queues as sequences: what the lanes of the hub and RingBuffer share. *)
EXTENDS Integers, Sequences

ToSet(q) == {q[i] : i \in DOMAIN q}

\* d stands somewhere ahead of e.
Before(q, d, e) == \E i, j \in DOMAIN q : i < j /\ q[i] = d /\ q[j] = e

\* q without its i-th element, and q with it moved to the head.
Without(q, i) == [j \in 1..(Len(q) - 1) |-> IF j < i THEN q[j] ELSE q[j + 1]]
MovedToFront(q, i) == <<q[i]>> \o Without(q, i)
=============================================================================
