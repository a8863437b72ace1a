----------------------------- MODULE HubProofs -----------------------------
(* The safety of the hub and of its parts, for every number of entities,     *)
(* registers and values.                                                     *)
(*                                                                           *)
(* The hub: type correctness, the lane flags, the single bus slot, and the   *)
(* atomicity of read-modify-write.  None of the invariants of Hub is         *)
(* inductive alone.  IInv conjoins them with three facts about the request   *)
(* in the engine's hands: where a write came from, that an answer is still   *)
(* what the heater holds, and that an unserved merged write is the one the   *)
(* pending read-back check is about.                                         *)
(*                                                                           *)
(* The parts that live on the hub have a state of their own, and the steps   *)
(* of each are steps of the hub.                                             *)
(*   The clock always has the request pending that will end its phase, and   *)
(*   writes nothing but a time synced since boot.                            *)
(*   The link counts one request twice towards offline at most, and never    *)
(*   gives up a component that was heard once.                               *)
(*   An entity for which nothing is pending shows what the heater holds, and *)
(*   nothing is shown that the heater has not accepted.                      *)
(*   The card of the climate is a confirmed pair.                            *)
EXTENDS HubClock, HubLink, HubClimate, SequenceTheorems, FiniteSetTheorems, TLAPS

\* A write on the bus is an entity's, to its own register, or the scan console's.
BusOrigin ==
  bus.op = "write" =>
    \/ bus.from \in Writable /\ bus.reg = WriteReg[bus.from]
    \/ /\ bus.from = NoEntity
       /\ \E op \in RawOps : op.op = "write" /\ op.reg = bus.reg

\* An answer on its way to the hub is what the heater still holds, because nothing
\* else can reach the bus before it arrives.
AnswerIsCurrent ==
  bus.op = "read" /\ bus.served /\ bus.reg \notin PanelRegs => bus.block = dev[bus.reg]

\* A merged write the heater has not carried out yet is the one the pending
\* read-back check is about, if there is one, and its entity still waits for it.
VerifyTracksBus ==
  MergedWriteUnserved /\ rmwVerify.entity # NoEntity =>
    /\ rmwVerify = [entity |-> bus.from, block |-> bus.block]
    /\ inFlight = bus.from

IInv ==
  /\ TypeOK
  /\ LaneFlags
  /\ SlotMatchesBus /\ MergeExclusive /\ BusOrigin
  /\ MergeIsCurrent /\ AnswerIsCurrent
  /\ TransmitsNewest
  /\ ReadBackSound /\ VerifyTracksBus

\* The null entity pointer is no registered entity.
LEMMA NobodyIsNoEntity == NoEntity \notin Entities
BY DEF NoEntity, Entities

\* The writing entities, and those that merge, are registered ones.
LEMMA WritersAreEntities == Writable \subseteq Entities /\ Rmw \subseteq Writable
BY HubAssumption

-----------------------------------------------------------------------------
(* What Hub's operators on lanes return: the facts about sequences without   *)
(* repetition that the invariants of the lanes rest on.                      *)

\* A lane is a sequence of entities, no longer than their number, that names
\* none twice: the definition of Lanes, in both directions.
LEMMA LaneFacts ==
  ASSUME NEW q \in Lanes
  PROVE  /\ q \in Seq(Entities)
         /\ Len(q) \in 0..EntityCount
         /\ DOMAIN q = 1..Len(q)
         /\ \A i \in 1..Len(q) : q[i] \in Entities
         /\ \A i, j \in 1..Len(q) : q[i] = q[j] => i = j
<1>1. PICK n \in 0..EntityCount : q \in [1..n -> Entities]
  BY DEF Lanes
<1>2. n \in Nat
  BY <1>1, HubAssumption
<1>3. q \in Seq(Entities) /\ DOMAIN q = 1..n
  BY <1>1, <1>2, SeqDef
<1>4. Len(q) = n
  BY <1>2, <1>3, LenProperties
<1> QED
  BY <1>1, <1>3, <1>4 DEF Lanes

\* A sequence no longer than the lane's storage that repeats no entity is a lane.
LEMMA LaneIntro ==
  ASSUME NEW q \in Seq(Entities), Len(q) <= EntityCount,
         \A i, j \in 1..Len(q) : q[i] = q[j] => i = j
  PROVE  q \in Lanes
<1>1. Len(q) \in Nat /\ q \in [1..Len(q) -> Entities] /\ DOMAIN q = 1..Len(q)
  BY LenProperties
<1>2. Len(q) \in 0..EntityCount
  BY <1>1, HubAssumption
<1> QED
  BY <1>1, <1>2 DEF Lanes

\* The entities of a lane, by their places in it.
LEMMA ToSetOf ==
  ASSUME NEW q \in Seq(Entities)
  PROVE  ToSet(q) = {q[i] : i \in 1..Len(q)}
BY LenProperties DEF ToSet

\* Joining two lanes joins their entities.
LEMMA ToSetConcat ==
  ASSUME NEW p \in Seq(Entities), NEW q \in Seq(Entities)
  PROVE  ToSet(p \o q) = ToSet(p) \cup ToSet(q)
<1> DEFINE c == p \o q
<1>1. Len(p) \in Nat /\ Len(q) \in Nat
  BY LenProperties
<1>2. /\ c \in Seq(Entities) /\ Len(c) = Len(p) + Len(q)
      /\ \A i \in 1..(Len(p) + Len(q)) : c[i] = IF i <= Len(p) THEN p[i] ELSE q[i - Len(p)]
  BY ConcatProperties
<1> HIDE DEF c
<1>3. ASSUME NEW e \in ToSet(c) PROVE e \in ToSet(p) \cup ToSet(q)
  <2>1. PICK i \in 1..Len(c) : e = c[i]
    BY <1>2, <1>3, ToSetOf
  <2>2. CASE i <= Len(p)
    <3>1. i \in 1..Len(p) /\ e = p[i]
      BY <1>1, <1>2, <2>1, <2>2
    <3> QED
      BY <3>1, ToSetOf
  <2>3. CASE ~(i <= Len(p))
    <3>1. i - Len(p) \in 1..Len(q) /\ e = q[i - Len(p)]
      BY <1>1, <1>2, <2>1, <2>3
    <3> QED
      BY <3>1, ToSetOf
  <2> QED
    BY <2>2, <2>3
<1>4. ASSUME NEW e \in ToSet(p) PROVE e \in ToSet(c)
  <2>1. PICK i \in 1..Len(p) : e = p[i]
    BY <1>4, ToSetOf
  <2>2. i \in 1..Len(c) /\ e = c[i]
    BY <1>1, <1>2, <2>1
  <2> QED
    BY <1>2, <2>2, ToSetOf
<1>5. ASSUME NEW e \in ToSet(q) PROVE e \in ToSet(c)
  <2>1. PICK i \in 1..Len(q) : e = q[i]
    BY <1>5, ToSetOf
  <2>2. /\ Len(p) + i \in 1..(Len(p) + Len(q)) /\ Len(p) + i \in 1..Len(c)
        /\ ~(Len(p) + i <= Len(p)) /\ (Len(p) + i) - Len(p) = i
    BY <1>1, <1>2, <2>1
  <2>3. c[Len(p) + i] = q[i]
    BY <1>2, <2>2
  <2> QED
    BY <1>2, <2>1, <2>2, <2>3, ToSetOf
<1> QED
  BY <1>3, <1>4, <1>5 DEF c

\* The empty lane of the initial state.
LEMMA EmptyLane == <<>> \in Lanes /\ ToSet(<<>>) = {}
<1>1. <<>> \in Seq(Entities) /\ Len(<<>>) = 0
  BY EmptySeq
<1>2. 1..Len(<<>>) = {} /\ Len(<<>>) <= EntityCount
  BY <1>1, HubAssumption
<1>3. <<>> \in Lanes
  BY <1>1, <1>2, LaneIntro
<1> QED
  BY <1>1, <1>2, <1>3, ToSetOf

\* Dispatch from the head of a lane.
LEMMA TailLane ==
  ASSUME NEW q \in Lanes, q # <<>>
  PROVE  /\ Tail(q) \in Lanes
         /\ Head(q) \in ToSet(q) /\ Head(q) \in Entities
         /\ ToSet(Tail(q)) = ToSet(q) \ {Head(q)}
<1>1. q \in Seq(Entities) /\ Len(q) \in 0..EntityCount
  BY LaneFacts
<1>2. Len(q) \in Nat \ {0}
  BY <1>1, EmptySeq
<1>3. /\ Tail(q) \in Seq(Entities)
      /\ Len(Tail(q)) = Len(q) - 1
      /\ \A i \in 1..Len(Tail(q)) : Tail(q)[i] = q[i + 1]
  BY <1>1, HeadTailProperties
<1>4. Head(q) = q[1]
  BY <1>1
<1>5. Tail(q) \in Lanes
  <2>1. \A i, j \in 1..Len(Tail(q)) : Tail(q)[i] = Tail(q)[j] => i = j
    <3> SUFFICES ASSUME NEW i \in 1..Len(Tail(q)), NEW j \in 1..Len(Tail(q)),
                        Tail(q)[i] = Tail(q)[j]
                 PROVE  i = j
      OBVIOUS
    <3>1. i + 1 \in 1..Len(q) /\ j + 1 \in 1..Len(q)
      BY <1>2, <1>3
    <3>2. q[i + 1] = q[j + 1]
      BY <1>3
    <3> QED
      BY <3>1, <3>2, LaneFacts
  <2>2. Len(Tail(q)) <= EntityCount
    BY <1>1, <1>2, <1>3, HubAssumption
  <2> QED
    BY <1>3, <2>1, <2>2, LaneIntro
<1>6. ToSet(Tail(q)) = ToSet(q) \ {Head(q)}
  <2>1. ASSUME NEW e \in ToSet(Tail(q)) PROVE e \in ToSet(q) \ {Head(q)}
    <3>1. PICK i \in 1..Len(Tail(q)) : e = Tail(q)[i]
      BY <1>3, ToSetOf
    <3>2. i + 1 \in 1..Len(q) /\ e = q[i + 1] /\ 1 \in 1..Len(q) /\ i + 1 # 1
      BY <1>2, <1>3, <3>1
    <3> QED
      BY <1>1, <1>4, <3>2, ToSetOf, LaneFacts
  <2>2. ASSUME NEW e \in ToSet(q) \ {Head(q)} PROVE e \in ToSet(Tail(q))
    <3>1. PICK i \in 1..Len(q) : e = q[i]
      BY <1>1, ToSetOf
    <3>2. i # 1
      BY <1>4, <3>1
    <3>3. i - 1 \in 1..Len(Tail(q)) /\ i = (i - 1) + 1
      BY <1>2, <1>3, <3>2
    <3>4. Tail(q)[i - 1] = q[(i - 1) + 1]
      BY <1>3, <3>3
    <3>5. e = Tail(q)[i - 1]
      BY <3>1, <3>3, <3>4
    <3> QED
      BY <1>3, <3>3, <3>5, ToSetOf
  <2> QED
    BY <2>1, <2>2
<1> QED
  BY <1>1, <1>2, <1>4, <1>5, <1>6, ToSetOf, LaneFacts

\* A request joins the tail of a lane with room for it.
LEMMA AppendLane ==
  ASSUME NEW q \in Lanes, NEW e \in Entities \ ToSet(q), Room(q) > 0
  PROVE  /\ Append(q, e) \in Lanes
         /\ ToSet(Append(q, e)) = ToSet(q) \cup {e}
<1>1. q \in Seq(Entities) /\ Len(q) \in 0..EntityCount
  BY LaneFacts
<1>2. Len(q) \in Nat /\ Len(q) + 1 <= EntityCount
  BY <1>1, HubAssumption DEF Room
<1>3. /\ Append(q, e) \in Seq(Entities)
      /\ Len(Append(q, e)) = Len(q) + 1
      /\ \A i \in 1..Len(q) : Append(q, e)[i] = q[i]
      /\ Append(q, e)[Len(q) + 1] = e
  BY <1>1, AppendProperties
<1>4. \A i \in 1..Len(q) : q[i] # e
  BY <1>1, ToSetOf
<1>5. Append(q, e) \in Lanes
  <2>1. \A i, j \in 1..(Len(q) + 1) : Append(q, e)[i] = Append(q, e)[j] => i = j
    <3> SUFFICES ASSUME NEW i \in 1..(Len(q) + 1), NEW j \in 1..(Len(q) + 1),
                        Append(q, e)[i] = Append(q, e)[j]
                 PROVE  i = j
      OBVIOUS
    <3>1. CASE i \in 1..Len(q) /\ j \in 1..Len(q)
      BY <1>3, <3>1, LaneFacts
    <3>2. CASE ~(i \in 1..Len(q) /\ j \in 1..Len(q))
      BY <1>2, <1>3, <1>4, <3>2
    <3> QED
      BY <3>1, <3>2
  <2> QED
    BY <1>2, <1>3, <2>1, LaneIntro
<1>6. ToSet(Append(q, e)) = ToSet(q) \cup {e}
  <2>1. 1..(Len(q) + 1) = 1..Len(q) \cup {Len(q) + 1}
    BY <1>2
  <2>2. {Append(q, e)[i] : i \in 1..(Len(q) + 1)} = {q[i] : i \in 1..Len(q)} \cup {e}
    BY <1>3, <2>1
  <2> QED
    BY <1>1, <1>3, <2>2, ToSetOf
<1> QED
  BY <1>5, <1>6

\* The poll scheduler appends as many due entities as the lane has room for.
LEMMA ConcatLane ==
  ASSUME NEW q \in Lanes, NEW d \in Lanes, ToSet(q) \cap ToSet(d) = {},
         NEW k \in 0..Len(d), k <= Room(q)
  PROVE  /\ q \o SubSeq(d, 1, k) \in Lanes
         /\ ToSet(q \o SubSeq(d, 1, k)) = ToSet(q) \cup ToSet(SubSeq(d, 1, k))
         /\ ToSet(SubSeq(d, 1, k)) \subseteq ToSet(d)
<1> DEFINE s == SubSeq(d, 1, k)
<1>1. /\ q \in Seq(Entities) /\ Len(q) \in 0..EntityCount
      /\ d \in Seq(Entities) /\ Len(d) \in 0..EntityCount
  BY LaneFacts
<1>2. EntityCount \in Nat /\ k \in Int /\ 0 <= k /\ k <= Len(d)
  BY <1>1, HubAssumption
<1>3. s \in Seq(Entities) /\ Len(s) = k /\ \A i \in 1..k : s[i] = d[i]
  <2>1. \A i \in 1..k : d[i] \in Entities
    BY <1>1, <1>2, LaneFacts
  <2> QED
    BY <1>2, <2>1, SubSeqProperties
<1> HIDE DEF s
<1>4. /\ q \o s \in Seq(Entities)
      /\ Len(q \o s) = Len(q) + k
      /\ \A i \in 1..(Len(q) + k) : (q \o s)[i] = IF i <= Len(q) THEN q[i] ELSE s[i - Len(q)]
  BY <1>1, <1>3, ConcatProperties
<1>5. ToSet(s) \subseteq ToSet(d)
  <2>1. \A i \in 1..k : i \in 1..Len(d) /\ s[i] = d[i]
    BY <1>1, <1>2, <1>3
  <2> QED
    BY <1>1, <1>3, <2>1, ToSetOf
<1>6. \A i \in 1..Len(q), j \in 1..k : q[i] # s[j]
  <2>1. \A i \in 1..Len(q) : q[i] \in ToSet(q)
    BY <1>1, ToSetOf
  <2>2. \A j \in 1..k : s[j] \in ToSet(d)
    BY <1>3, <1>5, ToSetOf
  <2> QED
    BY <2>1, <2>2
<1>7. \A i, j \in 1..(Len(q) + k) : (q \o s)[i] = (q \o s)[j] => i = j
  <2> SUFFICES ASSUME NEW i \in 1..(Len(q) + k), NEW j \in 1..(Len(q) + k),
                      (q \o s)[i] = (q \o s)[j]
               PROVE  i = j
    OBVIOUS
  <2> DEFINE High(x) == x > Len(q)
  <2>1. \A x \in 1..(Len(q) + k) : High(x) => /\ x - Len(q) \in 1..k
                                            /\ x - Len(q) \in 1..Len(d)
                                            /\ (q \o s)[x] = s[x - Len(q)]
                                            /\ (q \o s)[x] = d[x - Len(q)]
    BY <1>1, <1>2, <1>3, <1>4
  <2>2. \A x \in 1..(Len(q) + k) : ~High(x) => x \in 1..Len(q) /\ (q \o s)[x] = q[x]
    BY <1>1, <1>2, <1>4
  <2>3. CASE High(i) /\ High(j)
    <3>1. d[i - Len(q)] = d[j - Len(q)]
      BY <2>1, <2>3
    <3>2. i - Len(q) = j - Len(q)
      BY <2>1, <2>3, <3>1, LaneFacts
    <3> QED
      BY <1>1, <3>2
  <2>4. CASE ~High(i) /\ ~High(j)
    BY <2>2, <2>4, LaneFacts
  <2>5. CASE High(i) /\ ~High(j)
    BY <1>6, <2>1, <2>2, <2>5
  <2>6. CASE ~High(i) /\ High(j)
    BY <1>6, <2>1, <2>2, <2>6
  <2> QED
    BY <2>3, <2>4, <2>5, <2>6
<1>8. q \o s \in Lanes
  <2>1. Len(q \o s) <= EntityCount
    BY <1>1, <1>2, <1>4 DEF Room
  <2>2. \A i, j \in 1..Len(q \o s) : (q \o s)[i] = (q \o s)[j] => i = j
    BY <1>4, <1>7
  <2> QED
    BY <1>4, <2>1, <2>2, LaneIntro
<1>9. ToSet(q \o s) = ToSet(q) \cup ToSet(s)
  BY <1>1, <1>3, ToSetConcat
<1> QED
  BY <1>5, <1>8, <1>9 DEF s

\* A read leaves its place in the lane, which the affinity chose.
LEMMA WithoutLane ==
  ASSUME NEW q \in Lanes, NEW i \in DOMAIN q
  PROVE  /\ Without(q, i) \in Lanes
         /\ Len(Without(q, i)) = Len(q) - 1
         /\ ToSet(Without(q, i)) = ToSet(q) \ {q[i]}
         /\ q[i] \in ToSet(q)
<1> DEFINE w == Without(q, i)
           old(j) == IF j < i THEN j ELSE j + 1
<1>1. /\ q \in Seq(Entities) /\ Len(q) \in 0..EntityCount
      /\ i \in 1..Len(q)
  BY LaneFacts
<1>2. Len(q) \in Nat /\ Len(q) - 1 \in Nat /\ EntityCount \in Nat /\ Len(q) <= EntityCount
  BY <1>1, HubAssumption
<1>3. \A j \in 1..(Len(q) - 1) : old(j) \in 1..Len(q) /\ old(j) # i
  BY <1>1, <1>2
<1>4. \A j \in 1..(Len(q) - 1) : (IF j < i THEN q[j] ELSE q[j + 1]) = q[old(j)]
  BY <1>1, <1>2
<1>5. w \in [1..(Len(q) - 1) -> Entities] /\ \A j \in 1..(Len(q) - 1) : w[j] = q[old(j)]
  BY <1>3, <1>4, LaneFacts DEF Without
<1> HIDE DEF w
<1>6. w \in Seq(Entities) /\ Len(w) = Len(q) - 1
  <2>1. w \in Seq(Entities)
    BY <1>2, <1>5, SeqDef
  <2> QED
    BY <1>2, <1>5, <2>1, LenProperties
<1>7. w \in Lanes
  <2>1. \A j, k \in 1..Len(w) : w[j] = w[k] => j = k
    <3> SUFFICES ASSUME NEW j \in 1..Len(w), NEW k \in 1..Len(w), w[j] = w[k]
                 PROVE  j = k
      OBVIOUS
    <3>1. old(j) = old(k)
      BY <1>3, <1>5, <1>6, LaneFacts
    <3> QED
      BY <1>1, <1>2, <1>6, <3>1
  <2>2. Len(w) <= EntityCount
    BY <1>2, <1>6
  <2> QED
    BY <1>6, <2>1, <2>2, LaneIntro
<1>8. ToSet(w) = ToSet(q) \ {q[i]}
  <2>1. ASSUME NEW e \in ToSet(w) PROVE e \in ToSet(q) \ {q[i]}
    <3>1. PICK j \in 1..Len(w) : e = w[j]
      BY <1>6, ToSetOf
    <3>2. old(j) \in 1..Len(q) /\ old(j) # i /\ e = q[old(j)]
      BY <1>3, <1>5, <1>6, <3>1
    <3>3. q[old(j)] # q[i]
      BY <1>1, <3>2, LaneFacts
    <3> QED
      BY <1>1, <3>2, <3>3, ToSetOf
  <2>2. ASSUME NEW e \in ToSet(q) \ {q[i]} PROVE e \in ToSet(w)
    <3>1. PICK k \in 1..Len(q) : e = q[k]
      BY <1>1, ToSetOf
    <3> DEFINE j == IF k < i THEN k ELSE k - 1
    <3>2. k # i
      BY <3>1
    <3>3. j \in 1..Len(w) /\ old(j) = k
      BY <1>1, <1>2, <1>6, <3>2
    <3>4. e = w[j]
      BY <1>5, <1>6, <3>1, <3>3
    <3> QED
      BY <1>6, <3>3, <3>4, ToSetOf
  <2> QED
    BY <2>1, <2>2
<1>9. q[i] \in ToSet(q)
  BY <1>1, ToSetOf
<1> QED
  BY <1>6, <1>7, <1>8, <1>9 DEF w

\* A read that cannot be sent yet keeps the place at the head the affinity gave it.
LEMMA MovedLane ==
  ASSUME NEW q \in Lanes, NEW i \in DOMAIN q
  PROVE  /\ MovedToFront(q, i) \in Lanes
         /\ ToSet(MovedToFront(q, i)) = ToSet(q)
<1> DEFINE w == Without(q, i)
           m == <<q[i]>> \o w
<1>1. /\ q \in Seq(Entities) /\ Len(q) \in 0..EntityCount
      /\ i \in 1..Len(q) /\ q[i] \in Entities
  BY LaneFacts
<1>2. Len(q) \in Nat /\ EntityCount \in Nat
  BY <1>1, HubAssumption
<1>3. /\ w \in Lanes /\ Len(w) = Len(q) - 1
      /\ ToSet(w) = ToSet(q) \ {q[i]} /\ q[i] \in ToSet(q)
  BY WithoutLane
<1>4. w \in Seq(Entities) /\ \A j, k \in 1..Len(w) : w[j] = w[k] => j = k
  BY <1>3, LaneFacts
<1> HIDE DEF w
<1>5. <<q[i]>> \in Seq(Entities) /\ Len(<<q[i]>>) = 1 /\ <<q[i]>>[1] = q[i]
  BY <1>1
<1>6. /\ m \in Seq(Entities) /\ Len(m) = Len(q)
      /\ \A j \in 1..Len(m) : m[j] = IF j = 1 THEN q[i] ELSE w[j - 1]
  <2>1. /\ m \in Seq(Entities) /\ Len(m) = 1 + Len(w)
        /\ \A j \in 1..(1 + Len(w)) : m[j] = IF j <= 1 THEN <<q[i]>>[j] ELSE w[j - 1]
    BY <1>4, <1>5, ConcatProperties
  <2> QED
    BY <1>2, <1>3, <1>5, <2>1
<1> HIDE DEF m
<1>7. \A j \in 1..Len(w) : w[j] # q[i]
  BY <1>3, <1>4, ToSetOf
<1>8. m \in Lanes
  <2>1. \A j, k \in 1..Len(m) : m[j] = m[k] => j = k
    <3> SUFFICES ASSUME NEW j \in 1..Len(m), NEW k \in 1..Len(m), m[j] = m[k]
                 PROVE  j = k
      OBVIOUS
    <3>1. \A x \in 1..Len(m) : x # 1 => x - 1 \in 1..Len(w) /\ m[x] = w[x - 1]
      BY <1>2, <1>3, <1>6
    <3>2. CASE j # 1 /\ k # 1
      <4>1. j - 1 = k - 1
        BY <1>4, <3>1, <3>2
      <4> QED
        BY <1>2, <1>6, <4>1
    <3>3. CASE j = 1 \/ k = 1
      BY <1>6, <1>7, <3>1, <3>3
    <3> QED
      BY <3>2, <3>3
  <2>2. Len(m) <= EntityCount
    BY <1>1, <1>2, <1>6
  <2> QED
    BY <1>6, <2>1, <2>2, LaneIntro
<1>9. ToSet(m) = ToSet(q)
  <2>1. ASSUME NEW e \in ToSet(m) PROVE e \in ToSet(q)
    <3>1. PICK j \in 1..Len(m) : e = m[j]
      BY <1>6, ToSetOf
    <3>2. CASE j = 1
      BY <1>3, <1>6, <3>1, <3>2
    <3>3. CASE j # 1
      <4>1. j - 1 \in 1..Len(w) /\ e = w[j - 1]
        BY <1>2, <1>3, <1>6, <3>1, <3>3
      <4>2. e \in ToSet(w)
        BY <1>4, <4>1, ToSetOf
      <4> QED
        BY <1>3, <4>2
    <3> QED
      BY <3>2, <3>3
  <2>2. q[i] \in ToSet(m)
    <3>1. 1 \in 1..Len(m) /\ m[1] = q[i]
      BY <1>1, <1>2, <1>6
    <3> QED
      BY <1>6, <3>1, ToSetOf
  <2>3. ASSUME NEW e \in ToSet(w) PROVE e \in ToSet(m)
    <3>1. PICK j \in 1..Len(w) : e = w[j]
      BY <1>4, ToSetOf
    <3>2. j + 1 \in 1..Len(m) /\ j + 1 # 1 /\ (j + 1) - 1 = j
      BY <1>2, <1>3, <1>6, <3>1
    <3>3. e = m[j + 1]
      BY <1>6, <3>1, <3>2
    <3> QED
      BY <1>6, <3>2, <3>3, ToSetOf
  <2> QED
    BY <1>3, <2>1, <2>2, <2>3
<1> QED
  BY <1>8, <1>9 DEF m, w, MovedToFront

\* One slot per entity is enough: an entity that is not in a lane finds room in it,
\* and all those that are not find room together.
LEMMA LaneRoom ==
  ASSUME NEW q \in Lanes
  PROVE  /\ Cardinality(Entities \ ToSet(q)) = Room(q)
         /\ \A e \in Entities \ ToSet(q) : Room(q) > 0
<1>1. /\ q \in Seq(Entities) /\ Len(q) \in 0..EntityCount /\ Len(q) \in Nat
      /\ EntityCount \in Nat
  BY LaneFacts, HubAssumption
<1>2. /\ IsFiniteSet(Entities) /\ Cardinality(Entities) = EntityCount
      /\ IsFiniteSet(1..Len(q)) /\ Cardinality(1..Len(q)) = Len(q)
  <2>1. \A n \in Nat : IsFiniteSet(1..n) /\ Cardinality(1..n) = n
    <3> TAKE n \in Nat
    <3>1. IsFiniteSet(1..n) /\ Cardinality(1..n) = IF 1 > n THEN 0 ELSE n - 1 + 1
      BY FS_Interval
    <3> QED
      BY <3>1
  <2> QED
    BY <1>1, <2>1 DEF Entities
<1>3. q \in [1..Len(q) -> ToSet(q)] /\ ToSet(q) \subseteq Entities
  BY <1>1, ToSetOf, LenProperties
<1>4. q \in Injection(1..Len(q), ToSet(q)) /\ q \in Surjection(1..Len(q), ToSet(q))
  <2>1. \A i, j \in 1..Len(q) : q[i] = q[j] => i = j
    BY LaneFacts
  <2>2. \A e \in ToSet(q) : \E i \in 1..Len(q) : q[i] = e
    BY <1>1, ToSetOf
  <2> QED
    BY <1>1, <1>3, <2>1, <2>2, LenProperties DEF Injection, Surjection, IsInjective
<1>5. IsFiniteSet(ToSet(q)) /\ Cardinality(ToSet(q)) = Len(q)
  BY <1>2, <1>4, FS_Surjection
<1>6. Cardinality(Entities \ ToSet(q)) = EntityCount - Len(q)
  <2>1. Entities \cap ToSet(q) = ToSet(q)
    BY <1>3
  <2>2. Cardinality(Entities \ ToSet(q)) =
          Cardinality(Entities) - Cardinality(Entities \cap ToSet(q))
    BY <1>2, FS_Difference
  <2> QED
    BY <1>2, <1>5, <2>1, <2>2
<1>7. ASSUME NEW e \in Entities \ ToSet(q) PROVE Room(q) > 0
  <2>1. IsFiniteSet(Entities \ ToSet(q)) /\ Entities \ ToSet(q) # {}
    BY <1>2, FS_Difference
  <2>2. EntityCount - Len(q) # 0
    BY <1>6, <2>1, FS_EmptySet
  <2> QED
    BY <1>1, <2>2 DEF Room
<1> QED
  BY <1>6, <1>7 DEF Room

-----------------------------------------------------------------------------
(* The slot: whatever is in flight at the hub is what the engine is busy     *)
(* with, and nothing is while a merged write waits to go out.                *)

\* The part of the state the slot's invariants speak of.
slotVars == <<inFlight, inFlightOp, identInFlight, rawInFlight, identState,
              rmwPending, bus>>

\* Dispatch occupies a free slot and hands the very same request to an idle engine.
LEMMA DispatchKeepsSlot ==
  ASSUME IInv, Dispatch
  PROVE  SlotMatchesBus' /\ MergeExclusive' /\ BusOrigin'
<1> USE DEF IInv, lanes, slot, merge
<1>1. ASSUME NEW e \in Entities, SendMerged(e)
      PROVE  SlotMatchesBus' /\ MergeExclusive' /\ BusOrigin'
  <2>1. e \in Rmw /\ e \in Writable /\ e # NoEntity
    BY <1>1, NobodyIsNoEntity, WritersAreEntities DEF SendMerged, MergeTurn, MergeExclusive
  <2> QED
    BY <1>1, <2>1, NobodyIsNoEntity
    DEF SendMerged, MergeTurn, SlotFree, Send, Occupy, NoMerge, Armed, BusIdle,
        SlotMatchesBus, MergeExclusive, BusOrigin
<1>2. ASSUME NEW e \in Entities, RefuseMerged(e)
      PROVE  SlotMatchesBus' /\ MergeExclusive' /\ BusOrigin'
  BY <1>2 DEF RefuseMerged, NoMerge, Armed, BusIdle, Identifying,
     SlotMatchesBus, MergeExclusive, BusOrigin
<1>3. ASSUME NEW e \in Entities, SendWrite(e)
      PROVE  SlotMatchesBus' /\ MergeExclusive' /\ BusOrigin'
  <2>1. e \in Writable /\ e # NoEntity
    <3>1. e \in ToSet(writeQueue)
      BY <1>3, TailLane DEF SendWrite, WriteTurn, LaneFlags
    <3> QED
      BY <3>1, NobodyIsNoEntity DEF LaneFlags, TypeOK
  <2> QED
    BY <1>3, <2>1, NobodyIsNoEntity
    DEF SendWrite, WriteTurn, SlotFree, Send, Occupy, Armed, BusIdle,
        SlotMatchesBus, MergeExclusive, BusOrigin
<1>4. ASSUME NEW e \in Entities, SendRmwRead(e)
      PROVE  SlotMatchesBus' /\ MergeExclusive' /\ BusOrigin'
  BY <1>4, NobodyIsNoEntity
  DEF SendRmwRead, WriteTurn, SlotFree, Send, Occupy, Armed, BusIdle,
      SlotMatchesBus, MergeExclusive, BusOrigin
<1>5. ASSUME NEW e \in Entities, SendRead(e)
      PROVE  SlotMatchesBus' /\ MergeExclusive' /\ BusOrigin'
  BY <1>5, NobodyIsNoEntity
  DEF SendRead, ReadTurn, SlotFree, Send, Occupy, Armed, BusIdle,
      SlotMatchesBus, MergeExclusive, BusOrigin
<1>6. CASE SendIdent
  BY <1>6 DEF SendIdent, IdentTurn, SlotFree, Send, Armed, Identifying, BusIdle,
     SlotMatchesBus, MergeExclusive, BusOrigin
<1>7. CASE RefuseIdent
  BY <1>7 DEF RefuseIdent, IdentTurn, SlotFree, Armed, BusIdle,
     SlotMatchesBus, MergeExclusive, BusOrigin
<1>8. CASE SendRaw
  <2>1. Head(rawQueue) \in RawOps
    BY <1>8, HeadTailProperties DEF SendRaw, RawTurn, TypeOK
  <2>2. bus'.op = Head(rawQueue).op /\ bus'.reg = Head(rawQueue).reg /\ bus'.from = NoEntity
    BY <1>8 DEF SendRaw, Send
  <2>3. bus'.op # "idle"
    BY <2>1, <2>2, HubAssumption
  <2>4. SlotMatchesBus' /\ MergeExclusive'
    BY <1>8, <2>2, <2>3
    DEF SendRaw, RawTurn, SlotFree, Armed, BusIdle, SlotMatchesBus, MergeExclusive
  <2> QED
    BY <2>1, <2>2, <2>4 DEF BusOrigin
<1>9. ASSUME UNCHANGED slotVars
      PROVE  SlotMatchesBus' /\ MergeExclusive' /\ BusOrigin'
  BY <1>9 DEF slotVars, SlotFree, Armed, Identifying, BusIdle,
     SlotMatchesBus, MergeExclusive, BusOrigin
<1>10. ASSUME NEW e \in Entities, RefuseWrite(e) \/ RefuseRead(e)
       PROVE  UNCHANGED slotVars
  BY <1>10 DEF RefuseWrite, RefuseRead, slotVars
<1>11. RefuseRaw \/ RetainRead => UNCHANGED slotVars
  BY DEF RefuseRaw, RetainRead, slotVars
<1> QED
  BY <1>1, <1>2, <1>3, <1>4, <1>5, <1>6, <1>7, <1>8, <1>9, <1>10, <1>11 DEF Dispatch

\* A completion frees the slot and, unless the watchdog gave the request up, the
\* engine; only the answer to a read-before-write arms a merge.
LEMMA CompleteKeepsSlot ==
  ASSUME IInv, Complete
  PROVE  SlotMatchesBus' /\ MergeExclusive' /\ BusOrigin'
<1> USE DEF IInv, lanes, slot, merge
<1> DEFINE Freed == /\ inFlight' = NoEntity /\ inFlightOp' = "NONE"
                    /\ ~identInFlight' /\ ~rawInFlight'
           Idled == bus' = IdleBus \/ UNCHANGED bus
<1>1. IdleBus.op = "idle"
  BY DEF IdleBus
<1>2. ASSUME NEW e \in Entities, inFlight = e
      PROVE  ~identInFlight /\ ~rawInFlight /\ ~Armed
  BY <1>2, NobodyIsNoEntity DEF SlotMatchesBus, MergeExclusive, SlotFree
<1>3. identInFlight \/ rawInFlight => /\ inFlight = NoEntity /\ inFlightOp = "NONE" /\ ~Armed
                                      /\ ~(identInFlight /\ rawInFlight)
  BY DEF SlotMatchesBus, MergeExclusive, SlotFree
<1>4. ASSUME Freed, Idled, ~Armed' \/ (rmwPending'.entity \in Rmw /\ bus' = IdleBus)
      PROVE  SlotMatchesBus' /\ MergeExclusive' /\ BusOrigin'
  BY <1>1, <1>4, NobodyIsNoEntity DEF SlotMatchesBus, MergeExclusive, BusOrigin, SlotFree, BusIdle
<1>5. Answered \/ EngineError \/ Failed => Idled
  BY DEF Answered, EngineError, Failed, WatchdogExpired
<1>6. ASSUME NEW e \in Entities, ReadAnswered(e) \/ ReadFailed(e)
      PROVE  SlotMatchesBus' /\ MergeExclusive' /\ BusOrigin'
  <2>1. Freed /\ Idled /\ ~Armed'
    BY <1>2, <1>5, <1>6 DEF ReadAnswered, ReadFailed, EndRead, Release, Armed
  <2> QED
    BY <1>4, <2>1
<1>7. ASSUME NEW e \in Entities, WriteAcked(e) \/ SupersededAcked(e) \/ WriteFailed(e)
      PROVE  SlotMatchesBus' /\ MergeExclusive' /\ BusOrigin'
  <2>1. Freed /\ Idled /\ ~Armed'
    BY <1>2, <1>5, <1>7
    DEF WriteAcked, SupersededAcked, WriteFailed, EndWrite, Release, Armed
  <2> QED
    BY <1>4, <2>1
<1>8. ASSUME NEW e \in Entities, RmwReadAnswered(e)
      PROVE  SlotMatchesBus' /\ MergeExclusive' /\ BusOrigin'
  <2>1. Freed /\ Idled
    BY <1>2, <1>5, <1>8 DEF RmwReadAnswered, Release
  <2>2. rmwPending'.entity \in Rmw /\ bus' = IdleBus
    BY <1>8, NobodyIsNoEntity DEF RmwReadAnswered, Answered, SlotMatchesBus
  <2> QED
    BY <1>4, <2>1, <2>2
<1>9. ASSUME NEW e \in Entities, RmwReadFailed(e)
      PROVE  SlotMatchesBus' /\ MergeExclusive' /\ BusOrigin'
  <2>1. Freed /\ Idled /\ ~Armed'
    BY <1>2, <1>5, <1>9 DEF RmwReadFailed, Release, Armed
  <2> QED
    BY <1>4, <2>1
<1>10. ASSUME IdentAnswered \/ IdentFailed \/ RawDone
       PROVE  SlotMatchesBus' /\ MergeExclusive' /\ BusOrigin'
  <2>1. Freed /\ Idled /\ ~Armed'
    BY <1>3, <1>5, <1>10 DEF IdentAnswered, IdentFailed, RawDone, Armed
  <2> QED
    BY <1>4, <2>1
<1>11. ASSUME LateCallback
       PROVE  SlotMatchesBus' /\ MergeExclusive' /\ BusOrigin'
  <2>1. Freed /\ bus' = IdleBus /\ ~BusIdle
    BY <1>11 DEF LateCallback, SlotFree, SlotMatchesBus, Answered, EngineError
  <2>2. ~Armed'
    BY <1>11, <2>1 DEF LateCallback, MergeExclusive, Armed
  <2> QED
    BY <1>4, <2>1, <2>2
<1> QED
  BY <1>6, <1>7, <1>8, <1>9, <1>10, <1>11 DEF Complete

\* Nothing outside the hub touches the slot; the heater only fills in an answer.
LEMMA EnvironmentKeepsSlot ==
  ASSUME IInv, Environment
  PROVE  SlotMatchesBus' /\ MergeExclusive' /\ BusOrigin'
<1> USE DEF IInv, lanes, slot, merge
<1>1. CASE Serve
  <2>1. /\ ~BusIdle /\ bus \in Telegrams
        /\ bus'.op = bus.op /\ bus'.reg = bus.reg /\ bus'.from = bus.from
    BY <1>1 DEF Serve, TypeOK, Telegrams
  <2> QED
    BY <1>1, <2>1
    DEF Serve, SlotFree, Armed, Identifying, BusIdle, SlotMatchesBus, MergeExclusive, BusOrigin
<1>2. ASSUME UNCHANGED slotVars
      PROVE  SlotMatchesBus' /\ MergeExclusive' /\ BusOrigin'
  BY <1>2 DEF slotVars, SlotFree, Armed, Identifying, BusIdle,
     SlotMatchesBus, MergeExclusive, BusOrigin
<1>3. ASSUME NEW e \in Entities, NEW v \in Values, RequestWrite(e, v)
      PROVE  UNCHANGED slotVars
  BY <1>3 DEF RequestWrite, slotVars
<1>4. ASSUME NEW due \in Ascending, Poll(due)
      PROVE  UNCHANGED slotVars
  BY <1>4 DEF Poll, slotVars
<1>5. ASSUME NEW e \in Entities, PriorityRead(e)
      PROVE  UNCHANGED slotVars
  BY <1>5 DEF PriorityRead, slotVars
<1>6. ASSUME NEW op \in RawOps, QueueRaw(op)
      PROVE  UNCHANGED slotVars
  BY <1>6 DEF QueueRaw, slotVars
<1>7. ASSUME NEW r \in PanelRegs, NEW f \in Fields, NEW v \in Values, PanelWrite(r, f, v)
      PROVE  UNCHANGED slotVars
  BY <1>7 DEF PanelWrite, slotVars
<1> QED
  BY <1>1, <1>2, <1>3, <1>4, <1>5, <1>6, <1>7 DEF Environment

\* No step separates what is in flight at the hub from what the engine carries.
LEMMA SlotStep ==
  ASSUME IInv, [Next]_vars
  PROVE  SlotMatchesBus' /\ MergeExclusive' /\ BusOrigin'
<1>1. CASE Next
  BY <1>1, DispatchKeepsSlot, CompleteKeepsSlot, EnvironmentKeepsSlot DEF Next
<1>2. CASE UNCHANGED vars
  BY <1>2 DEF IInv, vars, slot, merge, SlotFree, Armed, Identifying, BusIdle,
     SlotMatchesBus, MergeExclusive, BusOrigin
<1> QED
  BY <1>1, <1>2

-----------------------------------------------------------------------------
(* The lanes and their companion flags.                                      *)

\* The part of the state the lane flags speak of.
laneVars == <<readQueue, writeQueue, readQueued, writeQueued, writeInFlight,
              inFlight, inFlightOp, rmwPending>>

\* A free slot flags nobody, nor does the absence of an armed merge.
LEMMA FreeSlotFlagsNobody ==
  ASSUME IInv, SlotFree
  PROVE  /\ inFlightOp = "NONE"
         /\ \A ops \in SUBSET {"READ", "WRITE", "RMW_READ"} : InFlightAs(ops) = {}
BY DEF IInv, SlotFree, SlotMatchesBus, InFlightAs

\* dispatch_next_() moves an entity between lane and slot with its flag.
LEMMA DispatchKeepsLaneFlags ==
  ASSUME IInv, Dispatch
  PROVE  LaneFlags'
<1> USE DEF IInv, lanes, slot, merge
<1>1. /\ readQueue \in Lanes /\ writeQueue \in Lanes
      /\ Dispatch => SlotFree
  BY DEF LaneFlags, Dispatch, SendMerged, RefuseMerged, SendWrite, SendRmwRead, RefuseWrite,
     SendRead, RefuseRead, RetainRead, SendIdent, RefuseIdent, SendRaw, RefuseRaw,
     MergeTurn, IdentTurn, RawTurn, WriteTurn, ReadTurn
<1>2. inFlightOp = "NONE"
  BY <1>1, FreeSlotFlagsNobody
<1>3. ASSUME NEW e \in Entities, SendMerged(e)
      PROVE  LaneFlags'
  BY <1>2, <1>3, NobodyIsNoEntity
  DEF SendMerged, Occupy, MergeTurn, Armed, NoMerge, LaneFlags, InFlightAs, ArmedFor, ToSet
<1>4. ASSUME NEW e \in Entities, RefuseMerged(e)
      PROVE  LaneFlags'
  BY <1>2, <1>4, NobodyIsNoEntity
  DEF RefuseMerged, MergeTurn, Armed, NoMerge, LaneFlags, InFlightAs, ArmedFor, ToSet
<1>5. ASSUME NEW e \in Entities, SendWrite(e) \/ SendRmwRead(e)
      PROVE  LaneFlags'
  <2>1. /\ writeQueue # <<>> /\ e = Head(writeQueue) /\ ~Armed
        /\ writeQueue' = Tail(writeQueue) /\ writeQueued' = writeQueued \ {e}
        /\ writeInFlight' = writeInFlight \cup {e}
        /\ inFlight' = e /\ inFlightOp' \in {"WRITE", "RMW_READ"}
        /\ UNCHANGED <<readQueue, readQueued, rmwPending>>
    BY <1>5 DEF SendWrite, SendRmwRead, WriteTurn, Occupy
  <2>2. Tail(writeQueue) \in Lanes /\ ToSet(Tail(writeQueue)) = ToSet(writeQueue) \ {e}
    BY <1>1, <2>1, TailLane
  <2>3. writeQueue' \in Lanes /\ writeQueued' = ToSet(writeQueue')
    BY <2>1, <2>2 DEF LaneFlags
  <2>4. /\ readQueue' \in Lanes /\ readQueued' = ToSet(readQueue')
        /\ InFlightAs({"READ"})' = {}
    BY <1>2, <2>1 DEF LaneFlags, InFlightAs
  <2>5. writeInFlight' = InFlightAs({"WRITE", "RMW_READ"})' \cup ArmedFor'
    BY <1>2, <2>1 DEF LaneFlags, InFlightAs, ArmedFor, Armed
  <2> QED
    BY <2>3, <2>4, <2>5 DEF LaneFlags
<1>6. ASSUME NEW e \in Entities, RefuseWrite(e)
      PROVE  LaneFlags'
  <2>1. /\ writeQueue # <<>> /\ e = Head(writeQueue)
        /\ writeQueue' = Tail(writeQueue) /\ writeQueued' = writeQueued \ {e}
        /\ UNCHANGED <<readQueue, readQueued, writeInFlight, inFlight, inFlightOp, rmwPending>>
    BY <1>6 DEF RefuseWrite, WriteTurn
  <2>2. Tail(writeQueue) \in Lanes /\ ToSet(Tail(writeQueue)) = ToSet(writeQueue) \ {e}
    BY <1>1, <2>1, TailLane
  <2>3. writeQueue' \in Lanes /\ writeQueued' = ToSet(writeQueue')
    BY <2>1, <2>2 DEF LaneFlags
  <2> QED
    BY <2>1, <2>3 DEF LaneFlags, InFlightAs, ArmedFor, Armed
<1>7. ASSUME NEW e \in Entities, TakesRead(e)
      PROVE  /\ readQueue' \in Lanes
             /\ ToSet(readQueue)' = ToSet(readQueue) \ {e}
             /\ e \in ToSet(readQueue)
  BY <1>1, <1>7, WithoutLane DEF TakesRead
<1>8. ASSUME NEW e \in Entities, SendRead(e)
      PROVE  LaneFlags'
  <2>1. /\ TakesRead(e) /\ inFlight' = e /\ inFlightOp' = "READ"
        /\ UNCHANGED <<writeQueue, readQueued, writeQueued, writeInFlight, rmwPending>>
    BY <1>8 DEF SendRead, Occupy
  <2> QED
    BY <1>2, <1>7, <2>1 DEF LaneFlags, InFlightAs, ArmedFor, Armed
<1>9. ASSUME NEW e \in Entities, RefuseRead(e)
      PROVE  LaneFlags'
  <2>1. /\ TakesRead(e) /\ readQueued' = readQueued \ {e}
        /\ UNCHANGED <<writeQueue, writeQueued, writeInFlight, inFlight, inFlightOp, rmwPending>>
    BY <1>9 DEF RefuseRead
  <2> QED
    BY <1>2, <1>7, <2>1 DEF LaneFlags, InFlightAs, ArmedFor, Armed
<1>10. CASE RetainRead
  <2>1. readQueue' \in Lanes /\ ToSet(readQueue)' = ToSet(readQueue)
    BY <1>1, <1>10, MovedLane DEF RetainRead
  <2> QED
    BY <1>10, <2>1 DEF RetainRead, LaneFlags, InFlightAs, ArmedFor, Armed
<1>11. SendIdent \/ RefuseIdent \/ SendRaw \/ RefuseRaw => UNCHANGED laneVars
  BY DEF SendIdent, RefuseIdent, SendRaw, RefuseRaw, laneVars
<1>12. ASSUME UNCHANGED laneVars
       PROVE  LaneFlags'
  BY <1>12 DEF laneVars, LaneFlags, InFlightAs, ArmedFor, Armed
<1> QED
  BY <1>3, <1>4, <1>5, <1>6, <1>8, <1>9, <1>10, <1>11, <1>12 DEF Dispatch

\* Staging a value queues its entity once, and only where there is room.
LEMMA StageKeepsWriteLane ==
  ASSUME IInv, NEW e \in Entities, NEW v, Stage(e, v)
  PROVE  writeQueue' \in Lanes /\ writeQueued' = ToSet(writeQueue')
<1> USE DEF IInv
<1>1. writeQueue \in Lanes /\ writeQueued = ToSet(writeQueue)
  BY DEF LaneFlags
<1>2. CASE e \in writeQueued \/ Room(writeQueue) = 0
  BY <1>1, <1>2 DEF Stage
<1>3. CASE ~(e \in writeQueued \/ Room(writeQueue) = 0)
  <2>1. writeQueue' = Append(writeQueue, e) /\ writeQueued' = writeQueued \cup {e}
    BY <1>3 DEF Stage
  <2>2. e \in Entities \ ToSet(writeQueue) /\ Room(writeQueue) > 0
    BY <1>1, <1>3, LaneRoom
  <2> QED
    BY <1>1, <2>1, <2>2, AppendLane
<1> QED
  BY <1>2, <1>3

\* Every completion clears the flag of what it ends and sets those of what it queues.
LEMMA CompleteKeepsLaneFlags ==
  ASSUME IInv, Complete
  PROVE  LaneFlags'
<1> USE DEF IInv, lanes, slot, merge
<1>1. /\ readQueue \in Lanes /\ writeQueue \in Lanes
      /\ writeQueued = ToSet(writeQueue)
  BY DEF LaneFlags
<1>2. ASSUME NEW e \in Entities, inFlight = e
      PROVE  ~Armed
  BY <1>2, NobodyIsNoEntity DEF MergeExclusive, SlotFree
<1>3. ASSUME NEW e \in Entities, EndRead(e), writeQueue' \in Lanes,
             writeQueued' = ToSet(writeQueue')
      PROVE  LaneFlags'
  BY <1>2, <1>3 DEF EndRead, Release, LaneFlags, InFlightAs, ArmedFor, Armed
<1>4. ASSUME NEW e \in Entities, ReadAnswered(e)
      PROVE  LaneFlags'
  <2>1. CASE NoRequest
    BY <1>1, <1>3, <1>4, <2>1 DEF ReadAnswered, NoRequest
  <2>2. CASE \E w \in Writable, v \in Values : Stage(w, v)
    BY <1>3, <1>4, <2>2, StageKeepsWriteLane, WritersAreEntities DEF ReadAnswered
  <2> QED
    BY <1>4, <2>1, <2>2 DEF ReadAnswered
<1>5. ASSUME NEW e \in Entities, ReadFailed(e)
      PROVE  LaneFlags'
  BY <1>1, <1>3, <1>5 DEF ReadFailed, NoRequest
<1>6. ASSUME NEW e \in Entities, WriteAcked(e)
      PROVE  LaneFlags'
  <2>1. /\ inFlightOp = "WRITE" /\ readQueued = ToSet(readQueue)
        /\ inFlight' = NoEntity /\ inFlightOp' = "NONE"
        /\ InFlightAs({"READ"}) = {} /\ InFlightAs({"READ"})' = {}
        /\ InFlightAs({"WRITE", "RMW_READ"})' = {}
    BY <1>6 DEF WriteAcked, Release, LaneFlags, InFlightAs
  <2>2. PICK own \in Ascending, sib \in Descending :
          /\ ToSet(own) = Movable({e} \cap ReadBack)
          /\ ToSet(sib) = Movable(Siblings(e))
          /\ \E q \in Lanes : Promoted(q, readQueue, own \o sib) /\ readQueue' = q
    BY <1>6 DEF WriteAcked
  <2>3. ToSet(own \o sib) = ToSet(own) \cup ToSet(sib)
    <3>1. own \in Seq(Entities) /\ sib \in Seq(Entities)
      BY LaneFacts DEF Ascending, Descending
    <3> QED
      BY <3>1, ToSetConcat
  <2>4. Movable({e} \cap ReadBack) = {e} \cap ReadBack /\ Movable(Siblings(e)) = Siblings(e)
    BY <2>1 DEF Movable
  <2>5. /\ readQueue' \in Lanes
        /\ ToSet(readQueue') = ToSet(readQueue) \cup Siblings(e) \cup ({e} \cap ReadBack)
    BY <2>2, <2>3, <2>4 DEF Promoted
  <2>6. readQueued' = ToSet(readQueue')
    BY <1>6, <2>1, <2>5 DEF WriteAcked
  <2>7. writeInFlight' = {} /\ ArmedFor' = {}
    BY <1>2, <1>6, <2>1 DEF WriteAcked, LaneFlags, InFlightAs, ArmedFor, Armed
  <2> QED
    BY <1>1, <1>6, <2>1, <2>5, <2>6, <2>7 DEF WriteAcked, LaneFlags
<1>7. ASSUME NEW e \in Entities, SupersededAcked(e) \/ WriteFailed(e)
      PROVE  LaneFlags'
  BY <1>2, <1>7
  DEF SupersededAcked, WriteFailed, EndWrite, Release, LaneFlags, InFlightAs, ArmedFor, Armed
<1>8. ASSUME NEW e \in Entities, RmwReadAnswered(e)
      PROVE  LaneFlags'
  BY <1>2, <1>8, NobodyIsNoEntity
  DEF RmwReadAnswered, Release, LaneFlags, InFlightAs, ArmedFor, Armed
<1>9. ASSUME NEW e \in Entities, RmwReadFailed(e)
      PROVE  LaneFlags'
  BY <1>2, <1>9 DEF RmwReadFailed, Release, LaneFlags, InFlightAs, ArmedFor, Armed
<1>10. ASSUME UNCHANGED laneVars
       PROVE  LaneFlags'
  BY <1>10 DEF laneVars, LaneFlags, InFlightAs, ArmedFor, Armed
<1>11. IdentAnswered \/ IdentFailed \/ RawDone \/ LateCallback => UNCHANGED laneVars
  BY DEF IdentAnswered, IdentFailed, RawDone, LateCallback, laneVars
<1> QED
  BY <1>4, <1>5, <1>6, <1>7, <1>8, <1>9, <1>10, <1>11 DEF Complete

\* The poll timer and the callers of request_*() queue an entity with its flag.
LEMMA EnvironmentKeepsLaneFlags ==
  ASSUME IInv, Environment
  PROVE  LaneFlags'
<1> USE DEF IInv, lanes, slot, merge
<1>1. readQueue \in Lanes /\ writeQueue \in Lanes
  BY DEF LaneFlags
<1>2. ASSUME NEW e \in Entities, NEW v \in Values, RequestWrite(e, v)
      PROVE  LaneFlags'
  <2>1. writeQueue' \in Lanes /\ writeQueued' = ToSet(writeQueue')
    BY <1>2, StageKeepsWriteLane DEF RequestWrite
  <2> QED
    BY <1>2, <2>1 DEF RequestWrite, LaneFlags, InFlightAs, ArmedFor, Armed
<1>3. ASSUME NEW due \in Ascending, Poll(due)
      PROVE  LaneFlags'
  <2> DEFINE k == IF Room(readQueue) < Len(due) THEN Room(readQueue) ELSE Len(due)
  <2>1. due \in Lanes /\ Len(due) \in Nat /\ Len(readQueue) \in 0..EntityCount /\ EntityCount \in Nat
    BY <1>1, LaneFacts, HubAssumption DEF Ascending
  <2>2. k \in 0..Len(due) /\ k <= Room(readQueue)
    BY <2>1 DEF Room
  <2>3. ToSet(due) \cap readQueued = {}
    BY <1>3 DEF Poll
  <2>4. ToSet(readQueue) \cap ToSet(due) = {}
    BY <2>3 DEF LaneFlags
  <2>5. /\ readQueue' = readQueue \o SubSeq(due, 1, k)
        /\ readQueued' = readQueued \cup ToSet(SubSeq(due, 1, k))
    BY <1>3 DEF Poll
  <2> HIDE DEF k
  <2>6. /\ readQueue' \in Lanes
        /\ ToSet(readQueue') = ToSet(readQueue) \cup ToSet(SubSeq(due, 1, k))
        /\ ToSet(SubSeq(due, 1, k)) \subseteq ToSet(due)
    BY <1>1, <2>1, <2>2, <2>4, <2>5, ConcatLane
  <2>7. InFlightAs({"READ"})' = InFlightAs({"READ"})
    BY <1>3 DEF Poll, InFlightAs
  <2>8. readQueued' = ToSet(readQueue') \cup InFlightAs({"READ"})'
    BY <2>5, <2>6, <2>7 DEF LaneFlags
  <2>9. ToSet(readQueue') \cap InFlightAs({"READ"})' = {}
    BY <2>3, <2>6, <2>7 DEF LaneFlags
  <2> QED
    BY <1>1, <1>3, <2>6, <2>8, <2>9 DEF Poll, LaneFlags, InFlightAs, ArmedFor, Armed
<1>4. ASSUME NEW e \in Entities, PriorityRead(e)
      PROVE  LaneFlags'
  <2>1. PICK first \in Ascending :
          /\ ToSet(first) = Movable({e})
          /\ \E q \in Lanes : Promoted(q, readQueue, first) /\ readQueue' = q
    BY <1>4 DEF PriorityRead
  <2>2. readQueue' \in Lanes /\ ToSet(readQueue') = ToSet(readQueue) \cup Movable({e})
    BY <2>1 DEF Promoted
  <2>3. /\ readQueued' = readQueued \cup {e}
        /\ InFlightAs({"READ"})' = InFlightAs({"READ"})
    BY <1>4 DEF PriorityRead, InFlightAs
  <2>4. readQueued' = ToSet(readQueue') \cup InFlightAs({"READ"})'
    BY <2>2, <2>3 DEF LaneFlags, Movable
  <2>5. ToSet(readQueue') \cap InFlightAs({"READ"})' = {}
    BY <2>2, <2>3 DEF LaneFlags, Movable
  <2> QED
    BY <1>1, <1>4, <2>2, <2>4, <2>5 DEF PriorityRead, LaneFlags, InFlightAs, ArmedFor, Armed
<1>5. ASSUME UNCHANGED laneVars
      PROVE  LaneFlags'
  BY <1>5 DEF laneVars, LaneFlags, InFlightAs, ArmedFor, Armed
<1>6. ASSUME NEW op \in RawOps, QueueRaw(op)
      PROVE  UNCHANGED laneVars
  BY <1>6 DEF QueueRaw, laneVars
<1>7. Serve => UNCHANGED laneVars
  BY DEF Serve, laneVars
<1>8. ASSUME NEW r \in PanelRegs, NEW f \in Fields, NEW v \in Values, PanelWrite(r, f, v)
      PROVE  UNCHANGED laneVars
  BY <1>8 DEF PanelWrite, laneVars
<1> QED
  BY <1>2, <1>3, <1>4, <1>5, <1>6, <1>7, <1>8 DEF Environment

\* No step lets the flags and the lanes disagree.
LEMMA LaneStep ==
  ASSUME IInv, [Next]_vars
  PROVE  LaneFlags'
<1>1. CASE Next
  BY <1>1, DispatchKeepsLaneFlags, CompleteKeepsLaneFlags, EnvironmentKeepsLaneFlags DEF Next
<1>2. CASE UNCHANGED vars
  BY <1>2 DEF IInv, vars, lanes, slot, merge, LaneFlags, InFlightAs, ArmedFor, Armed
<1> QED
  BY <1>1, <1>2

-----------------------------------------------------------------------------
(* Types.                                                                    *)

\* The initial values and the registers built from a staged value are of their types.
LEMMA BlocksFacts ==
  /\ Blank \in Blocks
  /\ NoMerge \in Merges /\ NoMerge.entity = NoEntity
  /\ IdleBus \in Telegrams
  /\ \A e \in Entities, block \in Blocks :
       staged \in [Entities -> Values] =>
         /\ Merged(e, block) \in Blocks
         /\ [f \in Fields |-> staged[e]] \in Blocks
<1>1. Blank \in Blocks
  BY HubAssumption DEF Blank, Blocks
<1>2. NoMerge \in Merges /\ NoMerge.entity = NoEntity
  BY <1>1 DEF NoMerge, Merges
<1>3. IdleBus \in Telegrams
  <2>1. IdentReg["IDLE"] \in Regs
    BY HubAssumption DEF IdentStates
  <2> QED
    BY <1>1, <2>1 DEF IdleBus, Telegrams
<1>4. ASSUME NEW e \in Entities, NEW block \in Blocks, staged \in [Entities -> Values]
      PROVE  Merged(e, block) \in Blocks /\ [f \in Fields |-> staged[e]] \in Blocks
  BY <1>4 DEF Merged, Blocks
<1> QED
  BY <1>1, <1>2, <1>3, <1>4

\* What is handed to the engine is a telegram.
LEMMA SendType ==
  ASSUME NEW op \in {"read", "write"}, NEW reg \in Regs, NEW block \in Blocks,
         NEW from \in Entities \cup {NoEntity}, Send(op, reg, block, from)
  PROVE  bus' \in Telegrams
BY DEF Send, Telegrams

\* What the lanes and the identification chain hand on is of the right type.
LEMMA LaneTypes ==
  ASSUME NEW q \in Lanes
  PROVE  q \in Seq(Entities)
BY LaneFacts

\* The identification chain goes from one of its states to another.
LEMMA AfterErrorType ==
  ASSUME identState \in IdentStates, Identifying
  PROVE  AfterError[identState] \in IdentStates /\ AfterAnswer[identState] \in IdentStates
BY DEF IdentStates, Identifying, AfterError, AfterAnswer, AfterSw

\* dispatch_next_() keeps every variable in its type.
LEMMA DispatchKeepsTypes ==
  ASSUME IInv, Dispatch
  PROVE  TypeOK'
<1> USE DEF IInv, lanes, slot, merge
<1>1. readQueue' \in Seq(Entities) /\ writeQueue' \in Seq(Entities)
  BY DispatchKeepsLaneFlags, LaneTypes DEF LaneFlags
<1>2. /\ Regs # {} /\ ReadReg \in [Entities -> Regs] /\ WriteReg \in [Entities -> Regs]
      /\ Space \in [Regs -> Spaces] /\ IdentReg \in [IdentStates -> Regs]
  <2>1. IdentReg["IDLE"] \in Regs
    BY HubAssumption DEF IdentStates
  <2> QED
    BY <2>1, HubAssumption
<1>3. ASSUME NEW e \in Entities, SendMerged(e)
      PROVE  TypeOK'
  <2>1. bus' \in Telegrams
    BY <1>2, <1>3, SendType DEF SendMerged, TypeOK, Merges
  <2>2. rmwPending' \in Merges /\ rmwVerify' \in Merges
    BY <1>3, BlocksFacts DEF SendMerged, TypeOK
  <2> QED
    BY <1>1, <1>3, <2>1, <2>2 DEF SendMerged, Occupy, TypeOK
<1>4. ASSUME NEW e \in Entities, RefuseMerged(e)
      PROVE  TypeOK'
  BY <1>1, <1>4, BlocksFacts DEF RefuseMerged, TypeOK
<1>5. ASSUME NEW e \in Entities, SendWrite(e)
      PROVE  TypeOK'
  <2>1. bus' \in Telegrams
    BY <1>2, <1>5, SendType, BlocksFacts DEF SendWrite, TypeOK
  <2> QED
    BY <1>1, <1>2, <1>5, <2>1 DEF SendWrite, Occupy, TypeOK
<1>6. ASSUME NEW e \in Entities, SendRmwRead(e)
      PROVE  TypeOK'
  <2>1. bus' \in Telegrams
    BY <1>2, <1>6, SendType, BlocksFacts DEF SendRmwRead, TypeOK
  <2> QED
    BY <1>1, <1>6, <2>1 DEF SendRmwRead, Occupy, TypeOK
<1>7. ASSUME NEW e \in Entities, SendRead(e)
      PROVE  TypeOK'
  <2>1. bus' \in Telegrams
    BY <1>2, <1>7, SendType, BlocksFacts DEF SendRead, TypeOK
  <2> QED
    BY <1>1, <1>2, <1>7, <2>1 DEF SendRead, Occupy, TypeOK
<1>8. CASE SendIdent
  <2>1. bus' \in Telegrams
    BY <1>2, <1>8, SendType, BlocksFacts DEF SendIdent, TypeOK
  <2> QED
    BY <1>1, <1>8, <2>1 DEF SendIdent, TypeOK
<1>9. CASE RefuseIdent
  BY <1>1, <1>9, AfterErrorType DEF RefuseIdent, IdentTurn, TypeOK
<1>10. CASE SendRaw
  <2>1. Head(rawQueue) \in RawOps /\ Tail(rawQueue) \in Seq(RawOps)
    BY <1>10, HeadTailProperties DEF SendRaw, RawTurn, TypeOK
  <2>2. Head(rawQueue) \in [op : {"read", "write"}, reg : Regs, block : Blocks]
    BY <2>1, HubAssumption
  <2>3. bus' \in Telegrams
    BY <1>10, <2>2, SendType DEF SendRaw
  <2> QED
    BY <1>1, <1>2, <1>10, <2>1, <2>2, <2>3 DEF SendRaw, TypeOK
<1>11. CASE RefuseRaw
  <2>1. Tail(rawQueue) \in Seq(RawOps)
    BY <1>11, HeadTailProperties DEF RefuseRaw, RawTurn, TypeOK
  <2> QED
    BY <1>1, <1>11, <2>1 DEF RefuseRaw, TypeOK
<1>12. ASSUME NEW e \in Entities, RefuseWrite(e) \/ RefuseRead(e)
       PROVE  TypeOK'
  BY <1>1, <1>12 DEF RefuseWrite, RefuseRead, TypeOK
<1>13. CASE RetainRead
  BY <1>1, <1>13 DEF RetainRead, TypeOK
<1> QED
  BY <1>3, <1>4, <1>5, <1>6, <1>7, <1>8, <1>9, <1>10, <1>11, <1>12, <1>13 DEF Dispatch

\* The completions keep every variable in its type.
LEMMA CompleteKeepsTypes ==
  ASSUME IInv, Complete
  PROVE  TypeOK'
<1> USE DEF IInv, lanes, slot, merge
<1>1. readQueue' \in Seq(Entities) /\ writeQueue' \in Seq(Entities)
  BY CompleteKeepsLaneFlags, LaneTypes DEF LaneFlags
<1>2. Answered \/ EngineError \/ Failed => bus' \in Telegrams
  BY BlocksFacts DEF Answered, EngineError, Failed, WatchdogExpired, TypeOK
<1>3. \A e \in Entities : EndVerify(e) => rmwVerify' \in Merges
  BY BlocksFacts DEF EndVerify, TypeOK
<1>4. ASSUME NEW e \in Entities, ReadAnswered(e)
      PROVE  TypeOK'
  <2>1. writeQueued' \subseteq Writable /\ staged' \in [Entities -> Values]
    BY <1>4 DEF ReadAnswered, NoRequest, Stage, TypeOK
  <2> QED
    BY <1>1, <1>2, <1>3, <1>4, <2>1 DEF ReadAnswered, EndRead, Release, TypeOK
<1>5. ASSUME NEW e \in Entities, ReadFailed(e)
      PROVE  TypeOK'
  BY <1>1, <1>2, <1>3, <1>5 DEF ReadFailed, NoRequest, EndRead, Release, TypeOK
<1>6. ASSUME NEW e \in Entities, WriteAcked(e)
      PROVE  TypeOK'
  <2>1. readQueued' \subseteq Entities
    BY <1>6, HubAssumption DEF WriteAcked, Siblings, TypeOK
  <2>2. rmwVerify' \in Merges
    BY <1>3, <1>6 DEF WriteAcked, TypeOK
  <2> QED
    BY <1>1, <1>2, <1>6, <2>1, <2>2 DEF WriteAcked, Release, TypeOK
<1>7. ASSUME NEW e \in Entities, SupersededAcked(e) \/ WriteFailed(e)
      PROVE  TypeOK'
  BY <1>1, <1>2, <1>3, <1>7 DEF SupersededAcked, WriteFailed, EndWrite, Release, TypeOK
<1>8. ASSUME NEW e \in Entities, RmwReadAnswered(e)
      PROVE  TypeOK'
  <2>1. rmwPending' \in Merges
    BY <1>8, BlocksFacts DEF RmwReadAnswered, TypeOK, Telegrams, Merges
  <2> QED
    BY <1>1, <1>2, <1>8, <2>1 DEF RmwReadAnswered, Release, TypeOK
<1>9. ASSUME NEW e \in Entities, RmwReadFailed(e)
      PROVE  TypeOK'
  BY <1>1, <1>2, <1>9 DEF RmwReadFailed, Release, TypeOK
<1>10. ASSUME IdentAnswered \/ IdentFailed
       PROVE  TypeOK'
  <2>1. identState' \in IdentStates
    BY <1>10, AfterErrorType DEF IdentAnswered, IdentFailed, SlotMatchesBus, TypeOK
  <2> QED
    BY <1>1, <1>2, <1>10, <2>1 DEF IdentAnswered, IdentFailed, TypeOK
<1>11. ASSUME RawDone \/ LateCallback
       PROVE  TypeOK'
  BY <1>1, <1>2, <1>11 DEF RawDone, LateCallback, TypeOK
<1> QED
  BY <1>4, <1>5, <1>6, <1>7, <1>8, <1>9, <1>10, <1>11 DEF Complete

\* Requests, the poll timer and the heater keep every variable in its type.
LEMMA EnvironmentKeepsTypes ==
  ASSUME IInv, Environment
  PROVE  TypeOK'
<1> USE DEF IInv, lanes, slot, merge
<1>1. readQueue' \in Seq(Entities) /\ writeQueue' \in Seq(Entities)
  BY EnvironmentKeepsLaneFlags, LaneTypes DEF LaneFlags
<1>2. ASSUME NEW e \in Entities, NEW v \in Values, RequestWrite(e, v)
      PROVE  TypeOK'
  BY <1>1, <1>2 DEF RequestWrite, Stage, TypeOK
<1>3. ASSUME NEW due \in Ascending, Poll(due)
      PROVE  TypeOK'
  <2>1. readQueue' \in Lanes /\ readQueued' = ToSet(readQueue') \cup InFlightAs({"READ"})'
    BY EnvironmentKeepsLaneFlags DEF LaneFlags
  <2>2. ToSet(readQueue') \subseteq Entities
    BY <2>1, LaneFacts, ToSetOf
  <2>3. InFlightAs({"READ"})' \subseteq Entities
    BY <1>3 DEF Poll, InFlightAs, SlotMatchesBus, TypeOK
  <2>4. readQueued' \subseteq Entities
    BY <2>1, <2>2, <2>3
  <2> QED
    BY <1>1, <1>3, <2>4 DEF Poll, TypeOK
<1>4. ASSUME NEW e \in Entities, PriorityRead(e)
      PROVE  TypeOK'
  BY <1>1, <1>4 DEF PriorityRead, TypeOK
<1>5. ASSUME NEW op \in RawOps, QueueRaw(op)
      PROVE  TypeOK'
  <2>1. rawQueue' \in Seq(RawOps)
    BY <1>5, AppendProperties DEF QueueRaw, TypeOK
  <2> QED
    BY <1>1, <1>5, <2>1 DEF QueueRaw, TypeOK
<1>6. CASE Serve
  <2>1. bus \in Telegrams /\ bus.reg \in Regs /\ dev \in [Regs -> Blocks]
    BY DEF TypeOK, Telegrams
  <2>2. bus' \in Telegrams
    BY <1>6, <2>1 DEF Serve, Telegrams
  <2>3. dev' \in [Regs -> Blocks]
    BY <1>6, <2>1 DEF Serve, Telegrams
  <2> QED
    BY <1>1, <1>6, <2>2, <2>3 DEF Serve, TypeOK
<1>7. ASSUME NEW r \in PanelRegs, NEW f \in Fields, NEW v \in Values, PanelWrite(r, f, v)
      PROVE  TypeOK'
  <2>1. dev' \in [Regs -> Blocks]
    BY <1>7 DEF PanelWrite, TypeOK, Blocks
  <2> QED
    BY <1>1, <1>7, <2>1 DEF PanelWrite, TypeOK
<1> QED
  BY <1>2, <1>3, <1>4, <1>5, <1>6, <1>7 DEF Environment

\* No step takes a variable out of its type.
LEMMA TypeStep ==
  ASSUME IInv, [Next]_vars
  PROVE  TypeOK'
<1>1. CASE Next
  BY <1>1, DispatchKeepsTypes, CompleteKeepsTypes, EnvironmentKeepsTypes DEF Next
<1>2. CASE UNCHANGED vars
  BY <1>2 DEF IInv, vars, lanes, slot, merge, TypeOK
<1> QED
  BY <1>1, <1>2

-----------------------------------------------------------------------------
(* The atomicity of read-modify-write.                                       *)

\* What of the state the merge invariants speak of, the registers apart.
mergeVars == <<rmwPending, rmwVerify, bus, inFlight, inFlightOp, staged, writeQueued>>

MergeInv == MergeIsCurrent /\ AnswerIsCurrent /\ TransmitsNewest /\ ReadBackSound /\ VerifyTracksBus

\* The first half of MergeIsCurrent.
MergeOfNow ==
  LET e == rmwPending.entity
  IN  WriteReg[e] \notin PanelRegs =>
        \A f \in Fields \ {Field[e]} : rmwPending.block[f] = dev[WriteReg[e]][f]

\* A step that changes neither the requests nor the registers keeps them all.
LEMMA MergeFrame ==
  ASSUME MergeInv, UNCHANGED <<mergeVars, dev>>
  PROVE  MergeInv'
BY DEF MergeInv, mergeVars, MergeIsCurrent, AnswerIsCurrent, TransmitsNewest, ReadBackSound,
   VerifyTracksBus, MergedWriteUnserved, Armed, Superseded

\* An idle engine holds no merged write and no answer.
LEMMA IdleMerge ==
  ASSUME TransmitsNewest', UNCHANGED dev, bus'.op = "idle",
         ~Armed' \/ MergeOfNow',
         rmwVerify'.entity # NoEntity /\ MergeOnly(WriteReg[rmwVerify'.entity]) =>
           dev[WriteReg[rmwVerify'.entity]] = rmwVerify'.block
  PROVE  MergeInv'
<1>1. ~MergedWriteUnserved'
  BY DEF MergedWriteUnserved
<1>2. MergeIsCurrent'
  BY <1>1 DEF MergeIsCurrent, MergeOfNow
<1>3. ReadBackSound'
  BY DEF ReadBackSound, MergeOnly
<1>4. AnswerIsCurrent' /\ VerifyTracksBus'
  BY <1>1 DEF AnswerIsCurrent, VerifyTracksBus
<1> QED
  BY <1>2, <1>3, <1>4 DEF MergeInv

\* Before a request goes out the engine is idle, so a pending read-back check is about
\* what its register holds.
LEMMA VerifiedWhenIdle ==
  ASSUME IInv, BusIdle, rmwVerify.entity # NoEntity, MergeOnly(WriteReg[rmwVerify.entity])
  PROVE  dev[WriteReg[rmwVerify.entity]] = rmwVerify.block
BY DEF IInv, ReadBackSound, MergedWriteUnserved, BusIdle

\* Sending or dropping a request keeps merged images current and staged values newest.
LEMMA DispatchKeepsMerges ==
  ASSUME IInv, Dispatch
  PROVE  MergeInv'
<1> USE DEF IInv, lanes, slot, merge
<1>1. ASSUME NEW e \in Entities, SendMerged(e)
      PROVE  MergeInv'
  <2>1. /\ bus' = [op |-> "write", reg |-> WriteReg[e], block |-> rmwPending.block,
                   from |-> e, served |-> FALSE]
        /\ rmwPending.entity = e /\ rmwVerify' = rmwPending /\ rmwPending' = NoMerge
        /\ inFlight' = e /\ inFlightOp' = "WRITE" /\ Armed
        /\ UNCHANGED <<staged, writeQueued, dev>>
    BY <1>1 DEF SendMerged, Send, Occupy, MergeTurn
  <2>2. e # NoEntity /\ ~Armed'
    BY <2>1, NobodyIsNoEntity, BlocksFacts DEF Armed
  <2>3. rmwPending = [entity |-> e, block |-> rmwPending.block]
    BY <2>1 DEF TypeOK, Merges
  <2>4. MergeIsCurrent'
    BY <2>1, <2>2 DEF MergeIsCurrent
  <2>5. AnswerIsCurrent'
    BY <2>1 DEF AnswerIsCurrent
  <2>6. TransmitsNewest'
    BY <2>1, <2>2, NobodyIsNoEntity, BlocksFacts DEF TransmitsNewest, Superseded
  <2>7. ReadBackSound' /\ VerifyTracksBus'
    BY <2>1, <2>2, <2>3 DEF ReadBackSound, VerifyTracksBus, MergedWriteUnserved, MergeExclusive
  <2> QED
    BY <2>4, <2>5, <2>6, <2>7 DEF MergeInv
<1>2. ASSUME NEW e \in Entities, RefuseMerged(e)
      PROVE  MergeInv'
  <2>1. /\ BusIdle /\ rmwPending' = NoMerge
        /\ UNCHANGED <<rmwVerify, bus, inFlight, inFlightOp, staged, writeQueued, dev>>
    BY <1>2 DEF RefuseMerged, Refuses
  <2>2. ~Armed' /\ TransmitsNewest'
    BY <2>1, NobodyIsNoEntity, BlocksFacts DEF Armed, TransmitsNewest, Superseded
  <2> QED
    BY <2>1, <2>2, IdleMerge, VerifiedWhenIdle DEF BusIdle
<1>3. ASSUME NEW e \in Entities, SendWrite(e)
      PROVE  MergeInv'
  <2>1. /\ bus' = [op |-> "write", reg |-> WriteReg[e], block |-> [f \in Fields |-> staged[e]],
                   from |-> e, served |-> FALSE]
        /\ e \notin Rmw /\ ~Armed /\ BusIdle
        /\ inFlight' = e /\ inFlightOp' = "WRITE"
        /\ UNCHANGED <<rmwPending, rmwVerify, staged, dev>>
    BY <1>3 DEF SendWrite, WriteTurn, Accepts, Send, Occupy
  <2>2. ~Armed' /\ ~MergedWriteUnserved'
    BY <2>1 DEF Armed, MergedWriteUnserved
  <2>3. TransmitsNewest'
    BY <2>1, <2>2, NobodyIsNoEntity, HubAssumption DEF TransmitsNewest, Armed
  <2>4. ReadBackSound'
    BY <2>1, VerifiedWhenIdle DEF ReadBackSound
  <2> QED
    BY <2>1, <2>2, <2>3, <2>4
    DEF MergeInv, MergeIsCurrent, AnswerIsCurrent, VerifyTracksBus
\* A request that is no merged write, sent by an idle engine with no merge armed.
<1>4. ASSUME BusIdle, ~Armed, ~MergedWriteUnserved', ~bus'.served, inFlightOp' # "WRITE",
             UNCHANGED <<rmwPending, rmwVerify, staged, dev>>
      PROVE  MergeInv'
  <2>1. ~Armed'
    BY <1>4 DEF Armed
  <2>2. TransmitsNewest'
    BY <1>4, <2>1, NobodyIsNoEntity DEF TransmitsNewest, Armed
  <2>3. ReadBackSound'
    BY <1>4, VerifiedWhenIdle DEF ReadBackSound
  <2> QED
    BY <1>4, <2>1, <2>2, <2>3 DEF MergeInv, MergeIsCurrent, AnswerIsCurrent, VerifyTracksBus
<1>5. ASSUME NEW e \in Entities, SendRmwRead(e) \/ SendRead(e)
      PROVE  MergeInv'
  <2>1. /\ BusIdle /\ ~Armed /\ bus'.op = "read" /\ ~bus'.served /\ inFlightOp' # "WRITE"
        /\ UNCHANGED <<rmwPending, rmwVerify, staged, dev>>
    BY <1>5 DEF SendRmwRead, SendRead, WriteTurn, ReadTurn, Accepts, Send, Occupy
  <2> QED
    BY <1>4, <2>1 DEF MergedWriteUnserved
<1>6. ASSUME SendIdent \/ SendRaw
      PROVE  MergeInv'
  <2>1. /\ BusIdle /\ ~Armed /\ bus'.from = NoEntity /\ ~bus'.served
        /\ SlotFree /\ UNCHANGED inFlightOp
        /\ UNCHANGED <<rmwPending, rmwVerify, staged, dev>>
    BY <1>6 DEF SendIdent, SendRaw, IdentTurn, RawTurn, Accepts, Send
  <2>2. ~MergedWriteUnserved' /\ inFlightOp' # "WRITE"
    BY <2>1, NobodyIsNoEntity, WritersAreEntities, FreeSlotFlagsNobody DEF MergedWriteUnserved
  <2> QED
    BY <1>4, <2>1, <2>2
<1>7. ASSUME NEW e \in Entities, RefuseWrite(e)
      PROVE  MergeInv'
  <2>1. /\ SlotFree /\ ~Armed /\ BusIdle
        /\ UNCHANGED <<rmwPending, rmwVerify, bus, inFlight, inFlightOp, staged, dev>>
    BY <1>7 DEF RefuseWrite, WriteTurn, Refuses
  <2>2. ~Armed' /\ TransmitsNewest'
    BY <2>1, NobodyIsNoEntity DEF Armed, TransmitsNewest, SlotFree
  <2> QED
    BY <2>1, <2>2, IdleMerge, VerifiedWhenIdle DEF BusIdle
<1>8. ASSUME NEW e \in Entities, RefuseRead(e)
      PROVE  MergeInv'
  BY <1>8, MergeFrame DEF RefuseRead, MergeInv, mergeVars
<1>9. ASSUME RetainRead \/ RefuseIdent \/ RefuseRaw
      PROVE  MergeInv'
  BY <1>9, MergeFrame DEF RetainRead, RefuseIdent, RefuseRaw, MergeInv, mergeVars
<1> QED
  BY <1>1, <1>2, <1>3, <1>5, <1>6, <1>7, <1>8, <1>9 DEF Dispatch

\* While its writer does not wait for the write to be carried out, a pending read-back
\* check is about what its register holds.
LEMMA VerifiedUnlessWriting ==
  ASSUME IInv, rmwVerify.entity # NoEntity, MergeOnly(WriteReg[rmwVerify.entity]),
         ~MergedWriteUnserved
  PROVE  dev[WriteReg[rmwVerify.entity]] = rmwVerify.block
BY DEF IInv, ReadBackSound

\* What a completion leaves that arms no merge.
LEMMA CompletionMerge ==
  ASSUME IInv, ~Armed', inFlight' = NoEntity, bus' = IdleBus \/ UNCHANGED bus, UNCHANGED dev,
         rmwVerify'.entity # NoEntity => UNCHANGED rmwVerify /\ ~MergedWriteUnserved
  PROVE  MergeInv'
<1> USE DEF IInv
<1>1. TransmitsNewest'
  BY NobodyIsNoEntity DEF TransmitsNewest, Armed
<1>2. ReadBackSound'
  BY VerifiedUnlessWriting DEF ReadBackSound, MergeOnly
<1>3. CASE bus' = IdleBus
  BY <1>1, <1>2, <1>3 DEF IdleBus, MergeInv, MergeIsCurrent, AnswerIsCurrent, VerifyTracksBus,
     MergedWriteUnserved
<1>4. CASE UNCHANGED bus
  <2>1. MergedWriteUnserved' = MergedWriteUnserved
    BY <1>4 DEF MergedWriteUnserved
  <2> QED
    BY <1>1, <1>2, <1>4, <2>1 DEF MergeInv, MergeIsCurrent, AnswerIsCurrent, VerifyTracksBus
<1> QED
  BY <1>3, <1>4

\* A completion, a merge among them, keeps merged images current and staged values newest.
LEMMA CompleteKeepsMerges ==
  ASSUME IInv, Complete
  PROVE  MergeInv'
<1> USE DEF IInv, lanes, slot, merge
<1>1. Answered \/ EngineError \/ Failed => bus' = IdleBus \/ UNCHANGED bus
  BY DEF Answered, EngineError, Failed, WatchdogExpired
<1>2. ASSUME NEW e \in Entities, inFlight = e
      PROVE  ~Armed
  BY <1>2, NobodyIsNoEntity DEF MergeExclusive, SlotFree
<1>3. ASSUME NEW e \in Entities, EndVerify(e), rmwVerify'.entity # NoEntity
      PROVE  UNCHANGED rmwVerify /\ rmwVerify.entity # e
  BY <1>3, BlocksFacts DEF EndVerify
<1>4. ASSUME NEW e \in Entities, ReadAnswered(e) \/ ReadFailed(e)
      PROVE  MergeInv'
  <2>1. /\ ~Armed' /\ inFlight' = NoEntity /\ UNCHANGED dev
        /\ bus' = IdleBus \/ UNCHANGED bus
    BY <1>1, <1>2, <1>4 DEF ReadAnswered, ReadFailed, EndRead, Release, Armed
  <2>2. ~MergedWriteUnserved
    BY <1>4, NobodyIsNoEntity
    DEF ReadAnswered, ReadFailed, EndRead, SlotMatchesBus, MergedWriteUnserved
  <2>3. rmwVerify'.entity # NoEntity => UNCHANGED rmwVerify
    BY <1>3, <1>4 DEF ReadAnswered, ReadFailed, EndRead
  <2> QED
    BY <2>1, <2>2, <2>3, CompletionMerge
<1>5. ASSUME NEW e \in Entities, WriteAcked(e)
      PROVE  MergeInv'
  <2>1. /\ ~Armed' /\ inFlight' = NoEntity /\ bus' = IdleBus /\ UNCHANGED dev
    BY <1>2, <1>5 DEF WriteAcked, Answered, Release, Armed
  <2>2. ~MergedWriteUnserved
    BY <1>5 DEF WriteAcked, Answered, MergedWriteUnserved
  <2>3. rmwVerify'.entity # NoEntity => UNCHANGED rmwVerify
    BY <1>3, <1>5 DEF WriteAcked
  <2> QED
    BY <2>1, <2>2, <2>3, CompletionMerge
<1>6. ASSUME NEW e \in Entities, SupersededAcked(e) \/ WriteFailed(e)
      PROVE  MergeInv'
  <2>1. /\ ~Armed' /\ inFlight' = NoEntity /\ UNCHANGED dev
        /\ bus' = IdleBus \/ UNCHANGED bus
        /\ inFlight = e /\ EndVerify(e)
    BY <1>1, <1>2, <1>6 DEF SupersededAcked, WriteFailed, EndWrite, Release, Armed
  <2>2. rmwVerify'.entity # NoEntity => UNCHANGED rmwVerify /\ rmwVerify.entity # e
    BY <1>3, <2>1
  <2>3. MergedWriteUnserved /\ rmwVerify.entity # NoEntity => rmwVerify.entity = e
    BY <2>1 DEF VerifyTracksBus
  <2> QED
    BY <2>1, <2>2, <2>3, CompletionMerge
<1>7. ASSUME NEW e \in Entities, RmwReadAnswered(e)
      PROVE  MergeInv'
  <2>1. /\ bus' = IdleBus /\ inFlight' = NoEntity /\ UNCHANGED <<rmwVerify, staged, dev>>
        /\ rmwPending' = [entity |-> e, block |-> Merged(e, bus.block)]
        /\ bus.served /\ inFlight = e /\ inFlightOp = "RMW_READ"
    BY <1>7 DEF RmwReadAnswered, Answered, Release
  <2>2. bus.op = "read" /\ bus.reg = WriteReg[e] /\ bus.from = e
    BY <2>1, NobodyIsNoEntity DEF SlotMatchesBus
  <2>3. /\ Field[e] \in Fields /\ bus.block \in Blocks
        /\ Merged(e, bus.block)[Field[e]] = staged[e]
        /\ \A f \in Fields \ {Field[e]} : Merged(e, bus.block)[f] = bus.block[f]
    BY HubAssumption DEF TypeOK, Telegrams, Blocks, Merged
  <2>4. TransmitsNewest'
    BY <2>1, <2>3, NobodyIsNoEntity DEF TransmitsNewest
  <2>5. WriteReg[e] \notin PanelRegs => bus.block = dev[WriteReg[e]]
    BY <2>1, <2>2 DEF AnswerIsCurrent
  <2>6. MergeOfNow'
    BY <2>1, <2>3, <2>5 DEF MergeOfNow
  <2>7. ~MergedWriteUnserved
    BY <2>2 DEF MergedWriteUnserved
  <2>8. rmwVerify'.entity # NoEntity /\ MergeOnly(WriteReg[rmwVerify'.entity]) =>
          dev[WriteReg[rmwVerify'.entity]] = rmwVerify'.block
    BY <2>1, <2>7, VerifiedUnlessWriting
  <2>9. bus'.op = "idle"
    BY <2>1 DEF IdleBus
  <2> QED
    BY <2>1, <2>4, <2>6, <2>8, <2>9, IdleMerge
<1>8. ASSUME NEW e \in Entities, RmwReadFailed(e)
      PROVE  MergeInv'
  <2>1. /\ ~Armed' /\ inFlight' = NoEntity /\ UNCHANGED <<rmwVerify, dev>>
        /\ bus' = IdleBus \/ UNCHANGED bus
    BY <1>1, <1>2, <1>8 DEF RmwReadFailed, Release, Armed
  <2>2. ~MergedWriteUnserved
    BY <1>8, NobodyIsNoEntity DEF RmwReadFailed, SlotMatchesBus, MergedWriteUnserved
  <2> QED
    BY <2>1, <2>2, CompletionMerge
<1>9. ASSUME IdentAnswered \/ IdentFailed \/ RawDone \/ LateCallback
      PROVE  MergeInv'
  <2>1. /\ inFlight = NoEntity /\ UNCHANGED <<inFlight, rmwPending, rmwVerify, dev>>
        /\ bus' = IdleBus \/ UNCHANGED bus
    BY <1>1, <1>9
    DEF IdentAnswered, IdentFailed, RawDone, LateCallback, SlotFree, SlotMatchesBus
  <2>2. ~BusIdle
    BY <1>9 DEF IdentAnswered, IdentFailed, RawDone, LateCallback, Answered, EngineError,
       SlotMatchesBus
  <2>3. ~Armed'
    BY <2>1, <2>2 DEF MergeExclusive, Armed
  <2>4. MergedWriteUnserved => rmwVerify.entity = NoEntity
    BY <2>1, NobodyIsNoEntity, WritersAreEntities DEF VerifyTracksBus, MergedWriteUnserved
  <2> QED
    BY <2>1, <2>3, <2>4, CompletionMerge
<1> QED
  BY <1>4, <1>5, <1>6, <1>7, <1>8, <1>9 DEF Complete

\* New values, and the heater acting on its telegram, keep merged images current.
LEMMA EnvironmentKeepsMerges ==
  ASSUME IInv, Environment
  PROVE  MergeInv'
<1> USE DEF IInv, lanes, slot, merge
<1>1. ASSUME NEW e \in Entities, NEW v \in Values, RequestWrite(e, v)
      PROVE  MergeInv'
  <2>1. /\ UNCHANGED <<rmwPending, rmwVerify, bus, inFlight, inFlightOp, dev>>
        /\ staged' = [staged EXCEPT ![e] = v]
        /\ writeQueued \subseteq writeQueued'
    BY <1>1 DEF RequestWrite, Stage
  <2>2. e \in writeQueued'
    <3>1. e \notin writeQueued => Room(writeQueue) > 0
      BY LaneRoom DEF LaneFlags
    <3> QED
      BY <1>1, <3>1 DEF RequestWrite, Stage
  <2>3. TransmitsNewest'
    BY <2>1, <2>2 DEF TransmitsNewest, Superseded, TypeOK
  <2> QED
    BY <2>1, <2>3
    DEF MergeInv, MergeIsCurrent, AnswerIsCurrent, ReadBackSound, VerifyTracksBus,
        MergedWriteUnserved, Armed
<1>2. ASSUME NEW due \in Ascending, Poll(due)
      PROVE  MergeInv'
  BY <1>2, MergeFrame DEF Poll, MergeInv, mergeVars
<1>3. ASSUME NEW e \in Entities, PriorityRead(e)
      PROVE  MergeInv'
  BY <1>3, MergeFrame DEF PriorityRead, MergeInv, mergeVars
<1>4. ASSUME NEW op \in RawOps, QueueRaw(op)
      PROVE  MergeInv'
  BY <1>4, MergeFrame DEF QueueRaw, MergeInv, mergeVars
<1>5. CASE Serve
  <2>1. /\ ~BusIdle /\ ~bus.served /\ bus \in Telegrams /\ bus.reg \in Regs
        /\ dev \in [Regs -> Blocks]
        /\ UNCHANGED <<rmwPending, rmwVerify, inFlight, inFlightOp, staged, writeQueued>>
    BY <1>5 DEF Serve, TypeOK, Telegrams
  <2>2. ~Armed'
    BY <2>1 DEF MergeExclusive, Armed
  <2>3. /\ bus'.op = bus.op /\ bus'.reg = bus.reg /\ bus'.from = bus.from /\ bus'.served
        /\ bus'.block = IF bus.op = "read" THEN dev[bus.reg] ELSE bus.block
    BY <1>5, <2>1 DEF Serve, Telegrams
  <2>4. ~MergedWriteUnserved'
    BY <2>3 DEF MergedWriteUnserved
  <2>5. TransmitsNewest'
    <3>1. ASSUME NEW e \in Entities, inFlight = e, inFlightOp = "WRITE"
          PROVE  UNCHANGED bus.block
      BY <2>3, <3>1, NobodyIsNoEntity DEF SlotMatchesBus
    <3> QED
      BY <2>1, <2>2, <3>1, NobodyIsNoEntity DEF TransmitsNewest, Superseded, Armed
  <2>6. CASE bus.op = "read"
    <3>1. UNCHANGED dev /\ ~MergedWriteUnserved
      BY <1>5, <2>6 DEF Serve, MergedWriteUnserved
    <3>2. AnswerIsCurrent'
      BY <2>3, <2>6, <3>1 DEF AnswerIsCurrent
    <3>3. ReadBackSound'
      BY <2>1, <3>1 DEF ReadBackSound
    <3> QED
      BY <2>2, <2>4, <2>5, <3>2, <3>3 DEF MergeInv, MergeIsCurrent, VerifyTracksBus
  <2>7. CASE bus.op = "write"
    <3>1. dev' = [dev EXCEPT ![bus.reg] = bus.block]
      BY <1>5, <2>7 DEF Serve
    <3>2. ReadBackSound'
      <4> SUFFICES ASSUME rmwVerify.entity # NoEntity, MergeOnly(WriteReg[rmwVerify.entity])
                   PROVE  dev'[WriteReg[rmwVerify.entity]] = rmwVerify.block
        BY <2>1 DEF ReadBackSound
      <4>1. WriteReg[rmwVerify.entity] \in Regs
        BY HubAssumption DEF TypeOK, Merges
      <4>2. CASE bus.from \in Rmw
        <5>1. rmwVerify.block = bus.block /\ rmwVerify.entity = bus.from
          BY <2>1, <2>7, <4>2 DEF VerifyTracksBus, MergedWriteUnserved
        <5>2. bus.reg = WriteReg[bus.from]
          BY <2>7, <4>2, NobodyIsNoEntity, WritersAreEntities DEF BusOrigin
        <5> QED
          BY <2>1, <3>1, <5>1, <5>2
      <4>3. CASE bus.from \notin Rmw
        <5>1. bus.reg # WriteReg[rmwVerify.entity]
          BY <2>7, <4>3 DEF BusOrigin, MergeOnly
        <5>2. dev[WriteReg[rmwVerify.entity]] = rmwVerify.block
          BY <4>3, VerifiedUnlessWriting DEF MergedWriteUnserved
        <5> QED
          BY <2>1, <3>1, <4>1, <5>1, <5>2
      <4> QED
        BY <4>2, <4>3
    <3> QED
      BY <2>2, <2>3, <2>4, <2>5, <2>7, <3>2
      DEF MergeInv, MergeIsCurrent, AnswerIsCurrent, VerifyTracksBus
  <2> QED
    BY <2>1, <2>6, <2>7 DEF Telegrams, BusIdle
<1>6. ASSUME NEW r \in PanelRegs, NEW f \in Fields, NEW v \in Values, PanelWrite(r, f, v)
      PROVE  MergeInv'
  <2>1. /\ UNCHANGED mergeVars
        /\ \A s \in Regs \ PanelRegs : dev'[s] = dev[s]
    BY <1>6 DEF PanelWrite, mergeVars, TypeOK
  <2>2. \A e \in Entities : WriteReg[e] \in Regs
    BY HubAssumption
  <2>3. MergeIsCurrent'
    <3>1. Armed => rmwPending.entity \in Entities
      BY DEF Armed, TypeOK, Merges
    <3> QED
      BY <2>1, <2>2, <3>1 DEF MergeIsCurrent, mergeVars, Armed, MergedWriteUnserved, TypeOK, Telegrams
  <2>4. AnswerIsCurrent'
    BY <2>1 DEF AnswerIsCurrent, mergeVars, TypeOK, Telegrams
  <2>5. TransmitsNewest'
    BY <2>1 DEF TransmitsNewest, mergeVars, Superseded
  <2>6. ReadBackSound'
    <3>1. rmwVerify.entity # NoEntity => rmwVerify.entity \in Entities
      BY DEF TypeOK, Merges
    <3> QED
      BY <2>1, <2>2, <3>1 DEF ReadBackSound, MergeOnly, mergeVars, MergedWriteUnserved
  <2>7. VerifyTracksBus'
    BY <2>1 DEF VerifyTracksBus, mergeVars, MergedWriteUnserved
  <2> QED
    BY <2>3, <2>4, <2>5, <2>6, <2>7 DEF MergeInv
<1> QED
  BY <1>1, <1>2, <1>3, <1>4, <1>5, <1>6 DEF Environment

\* No step makes a merged image stale or overtakes a staged value.
LEMMA MergeStep ==
  ASSUME IInv, [Next]_vars
  PROVE  MergeInv'
<1>1. CASE Next
  BY <1>1, DispatchKeepsMerges, CompleteKeepsMerges, EnvironmentKeepsMerges DEF Next
<1>2. CASE UNCHANGED vars
  BY <1>2, MergeFrame DEF IInv, MergeInv, vars, lanes, slot, merge, mergeVars
<1> QED
  BY <1>1, <1>2

-----------------------------------------------------------------------------
(* The theorems.                                                             *)

\* The state after construction and setup() satisfies the inductive invariant.
LEMMA InitIInv ==
  ASSUME Init
  PROVE  IInv
<1> USE DEF Init
<1>1. <<>> \in Lanes /\ ToSet(<<>>) = {}
  BY EmptyLane
<1>2. rmwPending.entity = NoEntity /\ rmwVerify.entity = NoEntity /\ bus.op = "idle"
  BY BlocksFacts DEF IdleBus
<1>3. TypeOK
  <2>1. <<>> \in Seq(Entities) /\ <<>> \in Seq(RawOps)
    BY EmptySeq
  <2>2. staged \in [Entities -> Values] /\ dev \in [Regs -> Blocks]
    BY HubAssumption, BlocksFacts
  <2>3. identState \in IdentStates
    BY DEF IdentStates
  <2>4. lastSpace \in Spaces
    BY DEF Spaces
  <2> QED
    BY <2>1, <2>2, <2>3, <2>4, BlocksFacts DEF TypeOK
<1>4. LaneFlags
  BY <1>1, <1>2 DEF LaneFlags, InFlightAs, ArmedFor, Armed
<1>5. SlotMatchesBus /\ MergeExclusive /\ BusOrigin /\ MergeIsCurrent /\ AnswerIsCurrent
  BY <1>2 DEF SlotMatchesBus, MergeExclusive, BusOrigin, MergeIsCurrent, AnswerIsCurrent,
     Armed, MergedWriteUnserved
<1>6. TransmitsNewest /\ ReadBackSound /\ VerifyTracksBus
  BY <1>2, NobodyIsNoEntity DEF TransmitsNewest, ReadBackSound, VerifyTracksBus, MergedWriteUnserved
<1> QED
  BY <1>3, <1>4, <1>5, <1>6 DEF IInv

\* The inductive invariant holds in every reachable state of the hub.
THEOREM Invariance == Spec => []IInv
<1>1. Init => IInv
  BY InitIInv
<1>2. IInv /\ [Next]_vars => IInv'
  BY TypeStep, LaneStep, SlotStep, MergeStep DEF IInv, MergeInv
<1> QED
  BY <1>1, <1>2, PTL DEF Spec

\* Every variable keeps its type, however many entities and registers there are.
THEOREM TypeCorrect == Spec => []TypeOK
BY Invariance, PTL DEF IInv

\* read_queued_, write_queued_ and write_in_flight_ always say where an entity is:
\* no flag is left set with nothing queued and none is cleared too early.
THEOREM FlagsTellTheTruth == Spec => []LaneFlags
BY Invariance, PTL DEF IInv

\* A lane with one slot per entity never rejects an entity that may be queued.
THEOREM RoomForEveryEntity == Spec => []NeverRejected
<1>1. ASSUME IInv PROVE NeverRejected
  <2>1. /\ readQueue \in Lanes /\ writeQueue \in Lanes
        /\ ToSet(readQueue) \subseteq readQueued /\ writeQueued = ToSet(writeQueue)
    BY <1>1 DEF IInv, LaneFlags
  <2>2. \A e \in Entities \ writeQueued : Room(writeQueue) > 0
    BY <2>1, LaneRoom
  <2>3. Cardinality(Entities \ readQueued) <= Room(readQueue)
    <3>1. IsFiniteSet(Entities) /\ IsFiniteSet(Entities \ ToSet(readQueue))
      <4>1. IsFiniteSet(Entities)
        BY HubAssumption, FS_Interval DEF Entities
      <4> QED
        BY <4>1, FS_Difference
    <3>2. (Entities \ readQueued) \in SUBSET (Entities \ ToSet(readQueue))
      BY <2>1
    <3>3. Cardinality(Entities \ readQueued) <= Cardinality(Entities \ ToSet(readQueue))
      BY <3>1, <3>2, FS_Subset
    <3>4. Cardinality(Entities \ ToSet(readQueue)) = Room(readQueue)
      BY <2>1, LaneRoom
    <3> QED
      BY <3>3, <3>4
  <2> QED
    BY <2>2, <2>3 DEF NeverRejected
<1> QED
  BY <1>1, Invariance, PTL

\* A callback always belongs to the operation that occupies the bus slot.
THEOREM OneRequestAtATime == Spec => []SlotMatchesBus
BY Invariance, PTL DEF IInv

\* Nothing comes between the answer to a read-before-write and its merged write.
THEOREM ReadModifyWriteIsAtomic == Spec => []MergeExclusive
BY Invariance, PTL DEF IInv

\* A merged write puts back what the heater holds in the fields of its siblings.
THEOREM MergesWhatTheHeaterHolds == Spec => []MergeIsCurrent
BY Invariance, PTL DEF IInv

\* The write on the bus carries the newest value, unless a newer one is queued.
THEOREM NoStagedValueIsLost == Spec => []TransmitsNewest
BY Invariance, PTL DEF IInv

\* On a register only merged writes can change, the read-back never complains of
\* the hub's own doing.
THEOREM ReadBackRaisesNoFalseAlarm == Spec => []ReadBackSound
BY Invariance, PTL DEF IInv

\* At the heater, a field of a shared register changes only by a write of its own
\* entity, or of one that owns the whole register.
THEOREM SiblingsAreKept == Spec => SiblingFieldsKept
<1> DEFINE Kept == \A r \in Regs \ PanelRegs, f \in Fields :
                     dev'[r][f] # dev[r][f] =>
                       /\ bus.op = "write" /\ bus.reg = r
                       /\ bus.from \in Rmw => f = Field[bus.from]
<1>1. ASSUME IInv, Next PROVE UNCHANGED dev \/ Kept
  <2> USE DEF lanes, slot, merge
  <2>1. ASSUME Serve PROVE UNCHANGED dev \/ Kept
    <3>1. CASE bus.op # "write"
      BY <2>1, <3>1 DEF Serve
    <3>2. CASE bus.op = "write"
      <4>1. dev' = [dev EXCEPT ![bus.reg] = bus.block] /\ ~bus.served
        BY <2>1, <3>2 DEF Serve
      <4>2. dev \in [Regs -> Blocks] /\ bus.reg \in Regs
        BY <1>1 DEF IInv, TypeOK, Telegrams
      <4>3. ASSUME NEW r \in Regs \ PanelRegs, NEW f \in Fields, dev'[r][f] # dev[r][f]
            PROVE  bus.reg = r /\ (bus.from \in Rmw => f = Field[bus.from])
        <5>1. bus.reg = r /\ bus.block[f] # dev[r][f]
          BY <4>1, <4>2, <4>3
        <5> QED
          BY <1>1, <3>2, <4>1, <5>1, <4>3 DEF IInv, MergeIsCurrent, MergedWriteUnserved
      <4> QED
        BY <3>2, <4>3
    <3> QED
      BY <3>1, <3>2
  <2>2. ASSUME NEW q \in PanelRegs, NEW g \in Fields, NEW v \in Values, PanelWrite(q, g, v)
        PROVE  Kept
    BY <1>1, <2>2 DEF PanelWrite, IInv, TypeOK
  <2>3. Dispatch => UNCHANGED dev
    BY DEF Dispatch, SendMerged, RefuseMerged, SendWrite, SendRmwRead, RefuseWrite, SendRead,
       RefuseRead, RetainRead, SendIdent, RefuseIdent, SendRaw, RefuseRaw
  <2>4. Complete => UNCHANGED dev
    BY DEF Complete, ReadAnswered, ReadFailed, EndRead, WriteAcked, SupersededAcked,
       WriteFailed, EndWrite, RmwReadAnswered, RmwReadFailed, IdentAnswered, IdentFailed,
       RawDone, LateCallback
  <2>5. ASSUME NEW e \in Entities, NEW v \in Values, RequestWrite(e, v) PROVE UNCHANGED dev
    BY <2>5 DEF RequestWrite
  <2>6. ASSUME NEW due \in Ascending, Poll(due) PROVE UNCHANGED dev
    BY <2>6 DEF Poll
  <2>7. ASSUME NEW e \in Entities, PriorityRead(e) PROVE UNCHANGED dev
    BY <2>7 DEF PriorityRead
  <2>8. ASSUME NEW op \in RawOps, QueueRaw(op) PROVE UNCHANGED dev
    BY <2>8 DEF QueueRaw
  <2>9. Environment => UNCHANGED dev \/ Kept
    BY <2>1, <2>2, <2>5, <2>6, <2>7, <2>8 DEF Environment
  <2> QED
    BY <1>1, <2>3, <2>4, <2>9 DEF Next
<1>2. IInv /\ [Next]_vars => [Kept]_vars
  <2>1. ASSUME UNCHANGED dev PROVE Kept
    BY <2>1
  <2> QED
    BY <1>1, <2>1
<1> QED
  BY <1>2, Invariance, PTL DEF Spec, SiblingFieldsKept

-----------------------------------------------------------------------------
(* The clock.                                                                *)

\* Nothing is written before the time source has synced, and the clock's write is
\* in the lane or in flight, not both.
SyncedFirst == phase # "IDLE" \/ didBoot => synced
OneWrite == Clock \notin writeQueued \cap writeInFlight

ClockIInv == ClockTypeOK /\ PhaseMatchesHub /\ NoStaleTime /\ SyncedFirst /\ OneWrite

\* Every step of the clock on the hub is a step of the hub.
LEMMA ClockStepIsHubStep == [ClockNext]_clockVars => [Next]_vars
<1> SUFFICES ASSUME [ClockNext]_clockVars PROVE [Next]_vars
  OBVIOUS
<1>1. Clock \in Entities \ Polled /\ Clock \in Writable
  BY ClockAssumption, WritersAreEntities
<1>2. CASE OfOthers(Next)
  BY <1>2 DEF OfOthers
<1>3. CASE TimeSync \/ SkipBoot \/ UNCHANGED clockVars
  BY <1>3 DEF TimeSync, SkipBoot, clockVars
<1>4. CASE StartChain
  BY <1>1, <1>4 DEF StartChain, Next, Environment
<1>5. CASE ClockDrifted
  <2>1. SourceTime \in Values
    BY ClockAssumption DEF SourceTime
  <2>2. ReadAnswered(Clock)
    BY <1>1, <1>5, <2>1 DEF ClockDrifted, ReadAnswered
  <2> QED
    BY <1>1, <2>2 DEF Next, Complete
<1>6. CASE ClockAnswered
  BY <1>1, <1>6 DEF ClockAnswered, ReadAnswered, Next, Complete
<1>7. CASE ClockReadFailed \/ ClockWritten \/ ClockWriteFailed
  BY <1>1, <1>7 DEF ClockReadFailed, ClockWritten, ClockWriteFailed, Next, Complete
<1> QED
  BY <1>2, <1>3, <1>4, <1>5, <1>6, <1>7 DEF ClockNext, ClockCallback

\* The clock is an entity like any other: whatever holds of the hub holds of the
\* hub with the clock (vito_clock.h, "rides the ordinary lanes").
THEOREM ClockIsAnEntity == ClockSpec => Spec
<1>1. ClockInit => Init
  BY DEF ClockInit
<1> QED
  BY <1>1, ClockStepIsHubStep, PTL DEF ClockSpec, Spec

\* A write gets in flight only by leaving the lane.
LEMMA InFlightLeavesLane ==
  ASSUME Next, NEW e \in Entities, e \in writeInFlight'
  PROVE  e \in writeInFlight \/ e \notin writeQueued'
<1> USE DEF lanes, slot, merge
<1>1. ASSUME NEW d \in Entities, SendWrite(d) \/ SendRmwRead(d)
      PROVE  e \in writeInFlight \/ e \notin writeQueued'
  BY <1>1 DEF SendWrite, SendRmwRead
<1>2. Dispatch => \/ \E d \in Entities : SendWrite(d) \/ SendRmwRead(d)
                  \/ e \in writeInFlight
  BY DEF Dispatch, SendMerged, RefuseMerged, RefuseWrite, SendRead, RefuseRead, RetainRead,
     SendIdent, RefuseIdent, SendRaw, RefuseRaw
<1>3. Complete => e \in writeInFlight
  BY DEF Complete, ReadAnswered, ReadFailed, EndRead, WriteAcked, SupersededAcked,
     WriteFailed, EndWrite, RmwReadAnswered, RmwReadFailed, IdentAnswered, IdentFailed,
     RawDone, LateCallback
<1>4. Environment => e \in writeInFlight
  BY DEF Environment, RequestWrite, Poll, PriorityRead, QueueRaw, Serve, PanelWrite
<1> QED
  BY <1>1, <1>2, <1>3, <1>4 DEF Next

\* What the bus carries for the clock is what the clock had staged.
LEMMA ClockOnBus ==
  ASSUME IInv, Next, bus'.from = Clock, bus'.op = "write"
  PROVE  \/ bus.from = Clock /\ bus.op = "write" /\ bus'.block = bus.block
         \/ Clock \in writeQueued /\ bus'.block = [f \in Fields |-> staged[Clock]]
<1> USE DEF lanes, slot, merge
<1>1. Clock \in Entities /\ Clock \notin Rmw /\ Clock # NoEntity
  BY ClockAssumption, WritersAreEntities, NobodyIsNoEntity
<1>2. ASSUME NEW e \in Entities, SendMerged(e) PROVE FALSE
  BY <1>1, <1>2 DEF SendMerged, MergeTurn, Send, IInv, MergeExclusive
<1>3. ASSUME NEW e \in Entities, SendWrite(e)
      PROVE  Clock \in writeQueued /\ bus'.block = [f \in Fields |-> staged[Clock]]
  <2>1. e = Clock /\ bus'.block = [f \in Fields |-> staged[e]]
    BY <1>3 DEF SendWrite, Send
  <2>2. e \in ToSet(writeQueue)
    BY <1>3, TailLane DEF SendWrite, WriteTurn, IInv, LaneFlags
  <2> QED
    BY <2>1, <2>2 DEF IInv, LaneFlags
<1>4. ASSUME NEW e \in Entities, SendRmwRead(e) \/ SendRead(e) PROVE FALSE
  BY <1>4 DEF SendRmwRead, SendRead, Send
<1>5. SendIdent \/ SendRaw => FALSE
  BY <1>1 DEF SendIdent, SendRaw, Send
<1>6. ASSUME NEW e \in Entities, RefuseMerged(e) \/ RefuseWrite(e) \/ RefuseRead(e)
      PROVE  bus' = bus
  BY <1>6 DEF RefuseMerged, RefuseWrite, RefuseRead
<1>7. RetainRead \/ RefuseIdent \/ RefuseRaw => bus' = bus
  BY DEF RetainRead, RefuseIdent, RefuseRaw
<1>8. Complete => bus' = bus \/ bus' = IdleBus
  BY DEF Complete, ReadAnswered, ReadFailed, EndRead, WriteAcked, SupersededAcked,
     WriteFailed, EndWrite, RmwReadAnswered, RmwReadFailed, IdentAnswered, IdentFailed,
     RawDone, LateCallback, Answered, Failed, EngineError, WatchdogExpired
<1>9. Environment => \/ bus' = bus
                     \/ bus' = [bus EXCEPT !.served = TRUE,
                                  !.block = IF bus.op = "read" THEN dev[bus.reg] ELSE bus.block]
  BY DEF Environment, RequestWrite, Poll, PriorityRead, QueueRaw, Serve, PanelWrite
<1>10. ASSUME bus' = [bus EXCEPT !.served = TRUE,
                        !.block = IF bus.op = "read" THEN dev[bus.reg] ELSE bus.block]
       PROVE  bus.from = Clock /\ bus.op = "write" /\ bus'.block = bus.block
  BY <1>10 DEF IInv, TypeOK, Telegrams
<1>11. bus' # IdleBus
  BY <1>1 DEF IdleBus
<1> QED
  BY <1>2, <1>3, <1>4, <1>5, <1>6, <1>7, <1>8, <1>9, <1>10, <1>11 DEF Next, Dispatch

\* At boot nothing is pending and the chain is idle.
LEMMA ClockInitIInv == ClockInit => ClockIInv
<1> SUFFICES ASSUME ClockInit PROVE ClockIInv
  OBVIOUS
<1>1. /\ phase = "IDLE" /\ synced = FALSE /\ didBoot = FALSE
      /\ readQueued = {} /\ writeQueued = {} /\ writeInFlight = {} /\ bus.op = "idle"
  BY DEF ClockInit, Init, IdleBus
<1>2. ~WritePending
  BY <1>1 DEF WritePending
<1>3. NoStaleTime
  BY <1>1, <1>2 DEF NoStaleTime
<1>5. PhaseMatchesHub
  <2>1. (Clock \in readQueued) = (phase \in {"READING", "VERIFYING"})
    BY <1>1
  <2>2. (Clock \in writeQueued \cup writeInFlight) = (phase = "WRITING")
    BY <1>1
  <2> QED
    BY <2>1, <2>2 DEF PhaseMatchesHub, ReadPending, WritePending
<1>4. ClockTypeOK /\ SyncedFirst /\ OneWrite
  BY <1>1 DEF ClockTypeOK, SyncedFirst, OneWrite
<1> QED
  BY <1>3, <1>4, <1>5 DEF ClockIInv

\* Each step keeps the clock's phase in line with what the hub holds for it.
LEMMA ClockStep ==
  ASSUME IInv, ClockIInv, [ClockNext]_clockVars
  PROVE  ClockIInv'
<1> USE DEF ClockIInv, lanes, slot, merge, clock
<1>1. Clock \in Entities /\ Clock \in Writable /\ Clock \in ReadBack /\ Clock \notin Rmw
  BY ClockAssumption, WritersAreEntities
<1>2. ASSUME [Next]_vars, WritePending => staged'[Clock] = staged[Clock]
      PROVE  bus'.from = Clock /\ bus'.op = "write" => \A f \in Fields : bus'.block[f] = TrueTime
  <2>1. CASE Next
    BY <1>2, <2>1, ClockOnBus DEF NoStaleTime, WritePending
  <2>2. CASE UNCHANGED vars
    BY <2>2 DEF vars, NoStaleTime
  <2> QED
    BY <1>2, <2>1, <2>2
<1>3. CASE OfOthers(Next)
  <2>1. OneWrite'
    BY <1>1, <1>3, InFlightLeavesLane DEF OfOthers, OneWrite
  <2>2. NoStaleTime'
    BY <1>2, <1>3 DEF OfOthers, NoStaleTime
  <2> QED
    BY <1>3, <2>1, <2>2 DEF OfOthers, ClockTypeOK, PhaseMatchesHub, SyncedFirst
<1>4. CASE TimeSync \/ SkipBoot \/ UNCHANGED clockVars
  BY <1>4 DEF TimeSync, SkipBoot, BootTick, clockVars, vars, ClockTypeOK, PhaseMatchesHub,
     NoStaleTime, SyncedFirst, OneWrite, ReadPending, WritePending
<1>5. CASE StartChain
  BY <1>5 DEF StartChain, BootTick, PriorityRead, ClockTypeOK, PhaseMatchesHub, NoStaleTime,
     SyncedFirst, OneWrite, ReadPending, WritePending
<1>6. ASSUME inFlight = Clock, inFlightOp = "READ" PROVE ReadPending /\ ~WritePending
  BY <1>6 DEF IInv, LaneFlags, InFlightAs, PhaseMatchesHub, ReadPending
<1>7. ASSUME inFlight = Clock, inFlightOp = "WRITE" PROVE WritePending /\ Clock \in writeInFlight
  BY <1>7 DEF IInv, LaneFlags, InFlightAs, WritePending
<1>8. ClockCallback => [Next]_vars
  BY ClockStepIsHubStep DEF ClockNext
<1>9. CASE ClockDrifted
  <2>1. phase = "READING" /\ ~WritePending /\ synced
    BY <1>9 DEF ClockDrifted, Compares, PhaseMatchesHub, SyncedFirst
  <2>2. Room(writeQueue) > 0
    <3>1. writeQueue \in Lanes /\ Clock \in Entities \ ToSet(writeQueue)
      BY <1>1, <2>1 DEF IInv, LaneFlags, WritePending
    <3> QED
      BY <3>1, LaneRoom
  <2>3. /\ writeQueued' = writeQueued \cup {Clock}
        /\ staged' = [staged EXCEPT ![Clock] = TrueTime]
    BY <1>9, <2>1, <2>2 DEF ClockDrifted, Stage, WritePending, SourceTime
  <2>4. staged'[Clock] = TrueTime
    BY <1>1, <2>3 DEF IInv, TypeOK
  <2>5. /\ readQueued' = readQueued \ {Clock} /\ writeInFlight' = writeInFlight
        /\ phase' = "WRITING" /\ synced' = synced /\ didBoot' = didBoot
        /\ bus' = IdleBus
    BY <1>9 DEF ClockDrifted, EndRead, Answered
  <2>6. IdleBus.op = "idle"
    BY DEF IdleBus
  <2> QED
    BY <2>1, <2>3, <2>4, <2>5, <2>6 DEF ClockTypeOK, PhaseMatchesHub, NoStaleTime, SyncedFirst,
       OneWrite, ReadPending, WritePending
<1>10. CASE ClockAnswered
  <2>1. ReadPending /\ ~WritePending /\ phase \in {"READING", "VERIFYING"}
    BY <1>6, <1>10 DEF ClockAnswered, EndRead, PhaseMatchesHub
  <2>2. /\ readQueued' = readQueued \ {Clock} /\ writeInFlight' = writeInFlight
        /\ writeQueued' = writeQueued /\ staged' = staged
        /\ phase' = "IDLE" /\ synced' = synced /\ didBoot' = didBoot
    BY <1>10, <2>1 DEF ClockAnswered, EndRead, NoRequest
  <2>3. NoStaleTime'
    BY <1>2, <1>8, <1>10, <2>1, <2>2 DEF ClockCallback, NoStaleTime, WritePending
  <2> QED
    BY <2>1, <2>2, <2>3 DEF ClockTypeOK, PhaseMatchesHub, SyncedFirst, OneWrite, ReadPending,
       WritePending
<1>11. CASE ClockReadFailed
  <2>1. ReadPending /\ ~WritePending /\ phase \in {"READING", "VERIFYING"}
    BY <1>6, <1>11 DEF ClockReadFailed, ReadFailed, EndRead, PhaseMatchesHub
  <2>2. /\ readQueued' = readQueued \ {Clock} /\ writeInFlight' = writeInFlight
        /\ writeQueued' = writeQueued /\ staged' = staged
        /\ phase' = "IDLE" /\ synced' = synced /\ didBoot' = didBoot
    BY <1>11 DEF ClockReadFailed, ReadFailed, EndRead, NoRequest, Aborted
  <2>3. NoStaleTime'
    BY <1>2, <1>8, <1>11, <2>1, <2>2 DEF ClockCallback, NoStaleTime, WritePending
  <2> QED
    BY <2>1, <2>2, <2>3 DEF ClockTypeOK, PhaseMatchesHub, SyncedFirst, OneWrite, ReadPending,
       WritePending
<1>12. CASE ClockWritten
  <2>1. WritePending /\ Clock \in writeInFlight /\ Clock \notin writeQueued /\ ~ReadPending
    BY <1>7, <1>12 DEF ClockWritten, WriteAcked, Superseded, PhaseMatchesHub
  <2>2. /\ Clock \in readQueued' /\ writeInFlight' = writeInFlight \ {Clock}
        /\ writeQueued' = writeQueued /\ staged' = staged
        /\ phase' = "VERIFYING" /\ synced' = synced /\ didBoot' = didBoot
    BY <1>1, <1>12 DEF ClockWritten, WriteAcked
  <2>3. synced
    BY <2>1 DEF PhaseMatchesHub, SyncedFirst
  <2>4. NoStaleTime'
    BY <1>2, <1>8, <1>12, <2>1, <2>2 DEF ClockCallback, NoStaleTime, WritePending
  <2> QED
    BY <2>1, <2>2, <2>3, <2>4 DEF ClockTypeOK, PhaseMatchesHub, SyncedFirst, OneWrite,
       ReadPending, WritePending
<1>13. CASE ClockWriteFailed
  <2>1. WritePending /\ Clock \in writeInFlight /\ Clock \notin writeQueued /\ ~ReadPending
    BY <1>7, <1>13 DEF ClockWriteFailed, WriteFailed, EndWrite, PhaseMatchesHub, OneWrite
  <2>2. /\ readQueued' = readQueued /\ writeInFlight' = writeInFlight \ {Clock}
        /\ writeQueued' = writeQueued /\ staged' = staged
        /\ phase' = "IDLE" /\ synced' = synced /\ didBoot' = didBoot
    BY <1>13 DEF ClockWriteFailed, WriteFailed, EndWrite, Aborted
  <2>3. NoStaleTime'
    BY <1>2, <1>8, <1>13, <2>1, <2>2 DEF ClockCallback, NoStaleTime, WritePending
  <2> QED
    BY <2>1, <2>2, <2>3 DEF ClockTypeOK, PhaseMatchesHub, SyncedFirst, OneWrite, ReadPending,
       WritePending
<1> QED
  BY <1>3, <1>4, <1>5, <1>9, <1>10, <1>11, <1>12, <1>13 DEF ClockNext, ClockCallback

\* The invariant behind the two theorems below.
THEOREM ClockInvariance == ClockSpec => []ClockIInv
<1>1. ClockSpec => []IInv
  BY ClockIsAnEntity, Invariance, PTL
<1>2. IInv /\ ClockIInv /\ [ClockNext]_clockVars => ClockIInv'
  BY ClockStep
<1> QED
  BY <1>1, <1>2, ClockInitIInv, PTL DEF ClockSpec

\* VitoClock never waits for a callback that is not coming, nor runs two chains.
THEOREM ClockIsNeverWedged == ClockSpec => []PhaseMatchesHub
<1>1. ClockIInv => PhaseMatchesHub
  BY DEF ClockIInv
<1> QED
  BY <1>1, ClockInvariance, PTL

\* VitoClock sets the controller's clock only from a source synced since boot.
THEOREM OnlySyncedTimeIsWritten == ClockSpec => []NoStaleTime
<1>1. ClockIInv => NoStaleTime
  BY DEF ClockIInv
<1> QED
  BY <1>1, ClockInvariance, PTL

-----------------------------------------------------------------------------
(* The link.                                                                 *)

\* A request whose loss was counted is no longer the hub's, and the engine still is
\* busy with it: until the engine calls back nothing else can be given up.
CountedIsLate == counted => SlotFree /\ ~BusIdle

\* The streak is ahead of the requests by the second observation of each, which the
\* request given up last may still make.
StreakIsEarned == linkErrorStreak + (IF counted THEN 1 ELSE 0) <= 2 * unanswered
OfflineHasStreak == linkState = "OFFLINE" /\ ~failed => linkErrorStreak = OfflineAfter

LinkIInv ==
  /\ LinkTypeOK
  /\ CountedIsLate /\ StreakIsEarned /\ OfflineHasStreak
  /\ OnlyUnheardFails

\* What calls an entity, identification or the scan console back is a completion.
LEMMA CallbacksComplete == Answers \/ Failures \/ Either => Complete
BY DEF Answers, Failures, Either, Complete

\* Every step of the link on the hub is a step of the hub.
LEMMA LinkStepIsHubStep == [LinkNext]_linkVars => [Next]_vars
<1> SUFFICES ASSUME [LinkNext]_linkVars PROVE [Next]_vars
  OBVIOUS
<1>1. CASE Heard \/ TimedOut \/ Garbled
  BY <1>1, CallbacksComplete DEF Heard, TimedOut, Garbled, Next
<1>2. CASE GivenUp
  BY <1>2, CallbacksComplete DEF GivenUp, Either, Next
<1>3. CASE LinkUp \/ VerifyFails \/ UNCHANGED linkVars
  BY <1>3 DEF LinkUp, VerifyFails, linkVars
<1>4. CASE Runs
  BY <1>4 DEF Runs, Next, Environment
<1>5. CASE GoesOn
  BY <1>5 DEF GoesOn, Next, Environment
<1> QED
  BY <1>1, <1>2, <1>3, <1>4, <1>5 DEF LinkNext

\* The hub with its link is the hub: whatever holds of one holds of the other.
THEOREM LinkIsWatchedOnly == LinkSpec => Spec
<1>1. LinkInit => Init
  BY DEF LinkInit
<1> QED
  BY <1>1, LinkStepIsHubStep, PTL DEF LinkSpec, Spec

\* A request the watchdog gives up leaves the slot free.
LEMMA GivenUpFreesSlot ==
  ASSUME IInv, GivenUp
  PROVE  SlotFree' /\ ~BusIdle' /\ ~SlotFree
<1> USE DEF SlotFree
<1>1. SlotMatchesBus /\ ~BusIdle /\ bus' = bus
  BY DEF IInv, GivenUp
<1>2. /\ identInFlight \/ rawInFlight => inFlight = NoEntity
      /\ ~(identInFlight /\ rawInFlight)
  BY <1>1 DEF SlotMatchesBus
<1>3. ~BusIdle'
  BY <1>1 DEF BusIdle
<1>4. ASSUME NEW e \in Entities, ReadFailed(e) \/ WriteFailed(e) \/ RmwReadFailed(e)
      PROVE  SlotFree' /\ ~SlotFree
  <2>1. inFlight = e /\ Release
    BY <1>4 DEF ReadFailed, EndRead, WriteFailed, EndWrite, RmwReadFailed
  <2> QED
    BY <1>1, <2>1, NobodyIsNoEntity DEF Release, SlotMatchesBus
<1>5. CASE IdentFailed
  <2>1. identInFlight /\ ~identInFlight'
    BY <1>5 DEF IdentFailed
  <2>2. inFlight' = inFlight /\ rawInFlight' = rawInFlight
    BY <1>5 DEF IdentFailed
  <2> QED
    BY <1>2, <1>3, <2>1, <2>2
<1>6. CASE RawDone
  <2>1. rawInFlight /\ ~rawInFlight'
    BY <1>6 DEF RawDone
  <2>2. inFlight' = inFlight /\ identInFlight' = identInFlight
    BY <1>6 DEF RawDone
  <2> QED
    BY <1>2, <1>3, <2>1, <2>2
<1> QED
  BY <1>3, <1>4, <1>5, <1>6 DEF GivenUp, Failures

\* While the engine is busy and the slot is free, nothing but a callback changes that.
LEMMA LateStaysLate ==
  ASSUME bus \in Telegrams, SlotFree, ~BusIdle, Runs \/ GoesOn
  PROVE  SlotFree' /\ ~BusIdle'
<1>1. \A op, r : ~Accepts(op, r) /\ ~Refuses(op, r)
  BY DEF Accepts, Refuses
<1>2. ASSUME Dispatch PROVE RetainRead
  <2>1. ASSUME NEW e \in Entities
        PROVE  /\ ~SendMerged(e) /\ ~RefuseMerged(e)
               /\ ~SendWrite(e) /\ ~SendRmwRead(e) /\ ~RefuseWrite(e)
               /\ ~SendRead(e) /\ ~RefuseRead(e)
    BY <1>1 DEF SendMerged, RefuseMerged, SendWrite, SendRmwRead, RefuseWrite, SendRead,
       RefuseRead
  <2>2. ~SendIdent /\ ~RefuseIdent /\ ~SendRaw /\ ~RefuseRaw
    BY <1>1 DEF SendIdent, RefuseIdent, SendRaw, RefuseRaw
  <2> QED
    BY <1>2, <2>1, <2>2 DEF Dispatch
<1>3. UNCHANGED slot /\ (UNCHANGED bus \/ Serve)
  <2>1. CASE Dispatch
    BY <1>2, <2>1 DEF RetainRead
  <2>2. ASSUME NEW e \in Entities, PriorityRead(e) \/ \E v \in Values : RequestWrite(e, v)
        PROVE  UNCHANGED <<slot, bus>>
    BY <2>2 DEF PriorityRead, RequestWrite
  <2>3. ASSUME NEW due \in Ascending, Poll(due) PROVE UNCHANGED <<slot, bus>>
    BY <2>3 DEF Poll
  <2>4. ASSUME NEW op \in RawOps, QueueRaw(op) PROVE UNCHANGED <<slot, bus>>
    BY <2>4 DEF QueueRaw
  <2>5. ASSUME NEW r, NEW f, NEW v, PanelWrite(r, f, v) PROVE UNCHANGED <<slot, bus>>
    BY <2>5 DEF PanelWrite
  <2>6. CASE Serve
    BY <2>6 DEF Serve
  <2> QED
    BY <2>1, <2>2, <2>3, <2>4, <2>5, <2>6 DEF Runs, GoesOn
<1>4. bus'.op = bus.op
  BY <1>3 DEF Serve, Telegrams
<1> QED
  BY <1>3, <1>4 DEF slot, SlotFree, BusIdle

\* Nothing was heard, counted or given up at the start.
LEMMA LinkInitIInv == LinkInit => LinkIInv
<1> SUFFICES ASSUME LinkInit PROVE LinkIInv
  OBVIOUS
<1>1. linkErrorStreak = 0 /\ unanswered = 0 /\ ~counted /\ ~failed
  BY DEF LinkInit
<1>2. LinkTypeOK
  <2>1. linkErrorStreak \in 0..OfflineAfter /\ unanswered \in 0..OfflineAfter
    BY <1>1, LinkAssumption
  <2> QED
    BY <2>1 DEF LinkInit, LinkTypeOK
<1>3. StreakIsEarned
  BY <1>1 DEF StreakIsEarned
<1> QED
  BY <1>1, <1>2, <1>3 DEF LinkInit, LinkIInv, CountedIsLate, OfflineHasStreak, OnlyUnheardFails

\* The invariant of the link is kept by every step.
LEMMA LinkStep ==
  ASSUME IInv, LinkIInv, [LinkNext]_linkVars
  PROVE  LinkIInv'
<1> USE DEF LinkIInv, link, unheard
<1>1. /\ LinkTypeOK /\ CountedIsLate /\ StreakIsEarned /\ OfflineHasStreak /\ OnlyUnheardFails
      /\ OfflineAfter \in Nat \ {0}
  BY LinkAssumption
<1>2. CASE Heard
  <2>1. linkErrorStreak' = 0 /\ unanswered' = 0 /\ ~counted' /\ linkState' = "ONLINE"
    BY <1>2 DEF Heard, NoteAlive
  <2>2. ~failed' /\ failed' \in BOOLEAN
    BY <1>1, <1>2 DEF Heard, CalledBack, LinkTypeOK
  <2>3. LinkTypeOK'
    <3>1. linkErrorStreak' \in 0..OfflineAfter /\ unanswered' \in 0..OfflineAfter
      BY <1>1, <2>1
    <3> QED
      BY <1>1, <1>2, <2>1, <3>1 DEF Heard, CalledBack, NoteAlive, LinkTypeOK
  <2>4. StreakIsEarned'
    BY <2>1 DEF StreakIsEarned
  <2> QED
    BY <2>1, <2>2, <2>3, <2>4 DEF CountedIsLate, OfflineHasStreak, OnlyUnheardFails
<1>3. CASE TimedOut
  <2>1. LinkTypeOK'
    <3>1. linkErrorStreak' \in 0..OfflineAfter /\ unanswered' \in 0..OfflineAfter
      BY <1>1, <1>3 DEF TimedOut, NoteError, Count, LinkTypeOK
    <3> QED
      BY <1>1, <1>3, <3>1 DEF TimedOut, CalledBack, NoteError, LinkTypeOK
  <2>2. StreakIsEarned'
    BY <1>1, <1>3 DEF TimedOut, NoteError, Count, LinkTypeOK, StreakIsEarned
  <2>3. CountedIsLate' /\ OfflineHasStreak' /\ OnlyUnheardFails'
    BY <1>1, <1>3 DEF TimedOut, CalledBack, NoteError, CountedIsLate, OfflineHasStreak,
       OnlyUnheardFails
  <2> QED
    BY <2>1, <2>2, <2>3
<1>4. CASE Garbled
  <2>1. ~counted' /\ counted' \in BOOLEAN /\ UNCHANGED <<link, unanswered, verifyPending, failed>>
    BY <1>4 DEF Garbled, CalledBack
  <2>2. StreakIsEarned'
    <3>1. linkErrorStreak <= 2 * unanswered
      BY <1>1 DEF StreakIsEarned, LinkTypeOK
    <3> QED
      BY <1>1, <2>1, <3>1 DEF StreakIsEarned, LinkTypeOK
  <2> QED
    BY <1>1, <2>1, <2>2 DEF LinkTypeOK, CountedIsLate, OfflineHasStreak, OnlyUnheardFails
<1>5. CASE GivenUp
  <2>1. SlotFree' /\ ~BusIdle' /\ ~counted
    BY <1>1, <1>5, GivenUpFreesSlot DEF CountedIsLate
  <2>2. LinkTypeOK'
    BY <1>1, <1>5 DEF GivenUp, NoteError, Count, LinkTypeOK
  <2>3. StreakIsEarned'
    BY <1>1, <1>5, <2>1 DEF GivenUp, NoteError, Count, LinkTypeOK, StreakIsEarned
  <2>4. CountedIsLate' /\ OfflineHasStreak' /\ OnlyUnheardFails'
    BY <1>1, <1>5, <2>1 DEF GivenUp, NoteError, CountedIsLate, OfflineHasStreak,
       OnlyUnheardFails
  <2> QED
    BY <2>2, <2>3, <2>4
<1>6. CASE LinkUp
  BY <1>1, <1>6 DEF LinkUp, vars, slot, LinkTypeOK, CountedIsLate, SlotFree, BusIdle,
     StreakIsEarned, OfflineHasStreak, OnlyUnheardFails
<1>7. CASE VerifyFails
  BY <1>1, <1>7 DEF VerifyFails, NotEstablished, vars, slot, LinkTypeOK, CountedIsLate,
     SlotFree, BusIdle, StreakIsEarned, OfflineHasStreak, OnlyUnheardFails
<1>8. CASE Runs \/ GoesOn
  <2>1. UNCHANGED <<link, verifyPending, failed, unheard>>
    BY <1>8 DEF Runs, GoesOn
  <2>2. CountedIsLate'
    BY <1>1, <1>8, <2>1, LateStaysLate DEF CountedIsLate, IInv, TypeOK
  <2> QED
    BY <1>1, <2>1, <2>2 DEF LinkTypeOK, StreakIsEarned, OfflineHasStreak, OnlyUnheardFails
<1>9. CASE UNCHANGED linkVars
  BY <1>1, <1>9 DEF linkVars, vars, slot, LinkTypeOK, CountedIsLate, SlotFree, BusIdle,
     StreakIsEarned, OfflineHasStreak, OnlyUnheardFails
<1> QED
  BY <1>2, <1>3, <1>4, <1>5, <1>6, <1>7, <1>8, <1>9 DEF LinkNext

\* The invariant behind the two theorems below.
THEOREM LinkInvariance == LinkSpec => []LinkIInv
<1>1. LinkSpec => []IInv
  BY LinkIsWatchedOnly, Invariance, PTL
<1>2. IInv /\ LinkIInv /\ [LinkNext]_linkVars => LinkIInv'
  BY LinkStep
<1> QED
  BY <1>1, <1>2, LinkInitIInv, PTL DEF LinkSpec

\* Whatever the threshold, the link is shown offline only after at least half as many
\* requests in a row went unanswered.
THEOREM OfflineMeansSilence == LinkSpec => []OfflineIsEarned
<1>1. LinkIInv => OfflineIsEarned
  BY LinkAssumption DEF LinkIInv, LinkTypeOK, StreakIsEarned, OfflineHasStreak, OfflineIsEarned
<1> QED
  BY <1>1, LinkInvariance, PTL

\* A component that heard the heater once is never given up.
THEOREM HeardOnceIsEnough == LinkSpec => []OnlyUnheardFails
BY LinkInvariance, PTL DEF LinkIInv

-----------------------------------------------------------------------------
(* The entities.                                                             *)

\* What the heater holds for e.
Held(e) == dev[ReadReg[e]][Field[e]]

\* The heater has carried out a write of register r, and the hub does not know yet.
Acking(r) == inFlight # NoEntity /\ inFlightOp = "WRITE" /\ bus.served /\ bus.reg = r

\* Quiet, without the writes still to be carried out: this is what every step keeps.
Settled(e) == e \notin readQueued /\ ~Acking(ReadReg[e])
ShownWhenSettled ==
  \A e \in Entities \ outdated :
    ReadReg[e] = WriteReg[e] /\ Settled(e) /\ Held(e) \in Shown[e] => published[e] = Held(e)

\* The answer to a read, or the image just written, is what the heater holds for
\* the entity that waits for it, until something happens the hub cannot know of.
AnswerStands ==
  \A e \in Entities \ outdated :
    inFlight = e /\ inFlightOp \in {"READ", "WRITE"} /\ bus.served /\ bus.reg = ReadReg[e] =>
      bus.block[Field[e]] = Held(e)

\* Whoever shows a register just written is refreshed with the acknowledgement, or
\* known not to be.
UnrefreshedAreOutdated ==
  Acking(bus.reg) => Readers(bus.reg) \ (Refreshed(bus.reg) \cup {inFlight}) \subseteq outdated

EntityIInv == EntityTypeOK /\ ShownWhenSettled /\ AnswerStands /\ UnrefreshedAreOutdated

\* Every step of the entities is a step of the hub.
LEMMA EntityStepIsHubStep == [EntityNext]_entityVars => [Next]_vars
<1> SUFFICES ASSUME [EntityNext]_entityVars PROVE [Next]_vars
  OBVIOUS
<1>1. ASSUME NEW e \in Entities,
             Answer(e) \/ ReadLost(e) \/ Acknowledge(e) \/ Overtake(e)
      PROVE  Next
  BY <1>1 DEF Answer, ReadLost, Acknowledge, Overtake, Next, Complete, Dispatch
<1>2. ASSUME NEW e \in Entities, ServeEntity(e)
      PROVE  Next
  BY <1>2 DEF ServeEntity, Next, Environment
<1>3. CASE ServeOther
  BY <1>3 DEF ServeOther, Next, Environment
<1>4. ASSUME NEW r \in PanelRegs, NEW f \in Fields, NEW v \in Values, PanelChange(r, f, v)
      PROVE  Next
  BY <1>4 DEF PanelChange, Next, Environment
<1>5. CASE NobodyIsTold
  <2>1. ASSUME NEW e \in Entities, NEW v \in Shown[e], RequestWrite(e, v)
        PROVE  Next
    <3>1. v \in Values
      BY EntityAssumption
    <3> QED
      BY <2>1, <3>1 DEF Next, Environment
  <2>2. ASSUME NEW due \in Ascending, Poll(due)
        PROVE  Next
    BY <2>2 DEF Next, Environment
  <2>3. ASSUME NEW op \in RawOps, QueueRaw(op)
        PROVE  Next
    BY <2>3 DEF Next, Environment
  <2> QED
    BY <1>5, <2>1, <2>2, <2>3 DEF NobodyIsTold, Next, Dispatch, Complete
<1>6. CASE UNCHANGED entityVars
  BY <1>6 DEF entityVars
<1> QED
  BY <1>1, <1>2, <1>3, <1>4, <1>5, <1>6 DEF EntityNext

\* The hub with what its entities show is the hub: whatever holds of one holds of the other.
THEOREM EntitiesWatchOnly == EntitySpec => Spec
<1>1. EntityInit => Init
  BY DEF EntityInit
<1> QED
  BY <1>1, EntityStepIsHubStep, PTL DEF EntitySpec, Spec

\* What a step that tells no entity anything may change: reads are queued, and a
\* request for nobody, or a read-before-write, is taken up or ended.
LEMMA QuietSteps ==
  ASSUME IInv, NobodyIsTold
  PROVE  /\ UNCHANGED <<dev, display, outdated>>
         /\ readQueued \subseteq readQueued'
         /\ \/ UNCHANGED <<inFlight, inFlightOp, bus>>
            \/ /\ inFlight = NoEntity \/ inFlightOp = "RMW_READ"
               /\ inFlight' = NoEntity \/ ~bus'.served
<1> DEFINE Frame == /\ UNCHANGED dev /\ readQueued \subseteq readQueued'
                    /\ \/ UNCHANGED <<inFlight, inFlightOp, bus>>
                       \/ /\ inFlight = NoEntity \/ inFlightOp = "RMW_READ"
                          /\ inFlight' = NoEntity \/ ~bus'.served
<1> USE DEF lanes, slot, merge
<1> SUFFICES Frame
  BY DEF NobodyIsTold
<1>1. /\ MergeTurn \/ WriteTurn \/ ReadTurn \/ IdentTurn \/ RawTurn => SlotFree
      /\ identInFlight \/ rawInFlight \/ SlotFree => inFlight = NoEntity
  BY DEF MergeTurn, WriteTurn, ReadTurn, IdentTurn, RawTurn, SlotFree, IInv, SlotMatchesBus
<1>2. \A op, reg, block, from : Send(op, reg, block, from) => ~bus'.served
  BY DEF Send
<1>3. CASE RetainRead \/ RefuseIdent \/ RefuseRaw
  BY <1>3 DEF RetainRead, RefuseIdent, RefuseRaw
<1>4. CASE SendIdent
  BY <1>1, <1>2, <1>4 DEF SendIdent
<1>5. CASE SendRaw
  BY <1>1, <1>2, <1>5 DEF SendRaw
<1>6. CASE IdentAnswered \/ IdentFailed \/ RawDone
  BY <1>1, <1>6 DEF IdentAnswered, IdentFailed, RawDone
<1>7. CASE LateCallback
  BY <1>1, <1>7 DEF LateCallback
<1>8. ASSUME NEW e \in Entities, SendMerged(e) \/ SendWrite(e) \/ SendRmwRead(e) \/ SendRead(e)
      PROVE  Frame
  <2>1. inFlight = NoEntity /\ ~bus'.served
    BY <1>1, <1>2, <1>8 DEF SendMerged, SendWrite, SendRmwRead, SendRead
  <2> QED
    BY <1>8, <2>1 DEF SendMerged, SendWrite, SendRmwRead, SendRead
<1>9. ASSUME NEW e \in Entities, RefuseMerged(e) \/ RefuseWrite(e)
      PROVE  Frame
  BY <1>9 DEF RefuseMerged, RefuseWrite
<1>10. ASSUME NEW e \in Entities, RmwReadAnswered(e) \/ RmwReadFailed(e)
       PROVE  Frame
  BY <1>10 DEF RmwReadAnswered, RmwReadFailed, Release
<1>11. ASSUME NEW e \in Entities, NEW v, RequestWrite(e, v)
       PROVE  Frame
  BY <1>11 DEF RequestWrite
<1>12. ASSUME NEW due, Poll(due)
       PROVE  Frame
  BY <1>12 DEF Poll
<1>13. ASSUME NEW op, QueueRaw(op)
       PROVE  Frame
  BY <1>13 DEF QueueRaw
<1> QED
  BY <1>3, <1>4, <1>5, <1>6, <1>7, <1>8, <1>9, <1>10, <1>11, <1>12, <1>13 DEF NobodyIsTold

\* A callback changes what the called entity shows, to a value or to unknown, and
\* what no other does.
LEMMA CallTouchesOne ==
  ASSUME EntityTypeOK, NEW x \in Entities,
         \/ HandleError(x)
         \/ \E v : HandleResponse(x, v)
         \/ staged \in [Entities -> Values] /\ HandleWriteResponse(x)
  PROVE  /\ published' \in [Entities -> Values \cup {Unknown}]
         /\ errors' \in [Entities -> 0..Streak]
         /\ \A e \in Entities \ {x} : published'[e] = published[e]
<1>1. Shown[x] \subseteq Values
  BY EntityAssumption
<1>2. errors[x] \in 0..Streak /\ Streak = 3
  BY DEF EntityTypeOK, Streak
<1>3. ASSUME HandleError(x)
      PROVE  /\ published' \in [Entities -> Values \cup {Unknown}]
             /\ errors' \in [Entities -> 0..Streak]
             /\ \A e \in Entities \ {x} : published'[e] = published[e]
  <2> DEFINE n == IF errors[x] < Streak THEN errors[x] + 1 ELSE errors[x]
  <2>1. n \in 0..Streak
    BY <1>2
  <2> HIDE DEF n
  <2>2. \/ UNCHANGED display
        \/ /\ errors' = [errors EXCEPT ![x] = n]
           /\ published' = [published EXCEPT ![x] = Unknown] \/ UNCHANGED published
    BY <1>3 DEF HandleError, n
  <2> QED
    BY <2>1, <2>2 DEF EntityTypeOK, display
<1>4. ASSUME NEW v, HandleResponse(x, v), ~HandleError(x)
      PROVE  /\ published' \in [Entities -> Values \cup {Unknown}]
             /\ errors' \in [Entities -> 0..Streak]
             /\ \A e \in Entities \ {x} : published'[e] = published[e]
  BY <1>1, <1>2, <1>4 DEF HandleResponse, EntityTypeOK
<1>5. ASSUME staged \in [Entities -> Values], HandleWriteResponse(x)
      PROVE  /\ published' \in [Entities -> Values \cup {Unknown}]
             /\ errors' \in [Entities -> 0..Streak]
             /\ \A e \in Entities \ {x} : published'[e] = published[e]
  BY <1>5 DEF HandleWriteResponse, EntityTypeOK
<1> QED
  BY <1>3, <1>4, <1>5

\* The steps that do not bring e a value of its own.
Elsewhere(e) ==
  \/ \E x \in Entities \ {e} : Answer(x) \/ Acknowledge(x)
  \/ e \in ReadBack /\ Acknowledge(e)
  \/ \E x \in Entities : ReadLost(x) \/ Overtake(x) \/ ServeEntity(x)
  \/ ServeOther
  \/ \E r \in PanelRegs, f \in Fields, v \in Values : PanelChange(r, f, v)
  \/ NobodyIsTold
  \/ UNCHANGED entityVars

LEMMA EntityCases ==
  ASSUME [EntityNext]_entityVars, NEW e \in Entities
  PROVE  Answer(e) \/ (Acknowledge(e) /\ e \notin ReadBack) \/ Elsewhere(e)
BY DEF EntityNext, Elsewhere

\* An entity that is settled after a step that brought it nothing was settled before,
\* and neither what it shows nor what the heater holds for it has changed.
LEMMA StaysSettled ==
  ASSUME IInv, EntityIInv, NEW e \in Entities \ outdated', Settled(e)', Elsewhere(e)
  PROVE  /\ e \notin outdated /\ Settled(e)
         /\ Held(e)' = Held(e) /\ published'[e] = published[e]
<1> DEFINE Kept == /\ e \notin outdated /\ Settled(e)
                   /\ Held(e)' = Held(e) /\ published'[e] = published[e]
<1> SUFFICES Kept
  OBVIOUS
<1> USE NobodyIsNoEntity DEF EntityIInv
<1>1. e \in Entities /\ staged \in [Entities -> Values]
  BY DEF IInv, TypeOK
<1>2. ASSUME NEW x \in Entities, inFlight = x, inFlightOp = "WRITE"
      PROVE  bus.op = "write" /\ bus.reg = WriteReg[x]
  BY <1>2 DEF IInv, SlotMatchesBus
<1>3. ASSUME NEW x \in Entities \ {e}, Answer(x)
      PROVE  Kept
  <2>1. /\ inFlightOp = "READ" /\ UNCHANGED <<dev, outdated>>
        /\ readQueued' = readQueued \ {x} /\ HandleResponse(x, bus.block[Field[x]])
    BY <1>3 DEF Answer, ReadAnswered, EndRead
  <2> QED
    BY <1>1, <2>1, CallTouchesOne DEF Settled, Acking, Held
<1>4. ASSUME NEW x \in Entities, Acknowledge(x), x # e \/ e \in ReadBack
      PROVE  Kept
  <2>1. /\ inFlight = x /\ inFlightOp = "WRITE" /\ bus.served /\ UNCHANGED <<dev, outdated>>
        /\ readQueued' = readQueued \cup Siblings(x) \cup ({x} \cap ReadBack)
        /\ HandleWriteResponse(x)
    BY <1>4 DEF Acknowledge, WriteAcked, Answered
  <2>2. e \notin readQueued /\ e \notin Siblings(x) /\ x # e
    BY <1>4, <2>1 DEF Settled
  <2>3. bus.reg = WriteReg[x]
    BY <1>2, <2>1
  <2>4. bus.reg # ReadReg[e]
    <3>1. SUFFICES ASSUME bus.reg = ReadReg[e] PROVE FALSE
      OBVIOUS
    <3>2. e \notin Refreshed(bus.reg)
      BY <2>2, <2>3, <3>1 DEF Refreshed, Readers, Siblings
    <3>3. e \in Readers(bus.reg)
      BY <1>1, <3>1 DEF Readers
    <3>4. Acking(bus.reg)
      BY <2>1 DEF Acking
    <3>5. e \in outdated
      BY <2>1, <2>2, <3>2, <3>3, <3>4 DEF UnrefreshedAreOutdated
    <3> QED
      BY <2>1, <3>5
  <2> QED
    BY <1>1, <2>1, <2>2, <2>4, CallTouchesOne DEF Settled, Acking, Held
<1>5. ASSUME NEW x \in Entities, ReadLost(x)
      PROVE  Kept
  <2>1. /\ outdated' = outdated \cup {x} /\ UNCHANGED dev /\ readQueued' = readQueued \ {x}
        /\ HandleError(x) \/ UNCHANGED display
        /\ inFlightOp # "WRITE"
    <3>1. CASE ReadFailed(x)
      BY <1>5, <3>1 DEF ReadLost, ReadFailed, EndRead, RefuseRead, display
    <3>2. CASE RefuseRead(x)
      <4>1. SlotFree
        BY <3>2 DEF RefuseRead, ReadTurn
      <4> QED
        BY <1>5, <3>2, <4>1, FreeSlotFlagsNobody
        DEF ReadLost, RefuseRead, ReadFailed, EndRead, display
    <3> QED
      BY <1>5, <3>1, <3>2 DEF ReadLost
  <2> QED
    BY <1>1, <2>1, CallTouchesOne DEF Settled, Acking, Held, display
<1>6. ASSUME NEW x \in Entities, Overtake(x)
      PROVE  Kept
  <2>1. /\ inFlight = x /\ inFlightOp = "WRITE" /\ UNCHANGED <<dev, readQueued, display>>
        /\ outdated' = outdated \cup Readers(WriteReg[x])
    BY <1>6 DEF Overtake, SupersededAcked, WriteFailed, EndWrite, lanes
  <2>2. bus.reg = WriteReg[x] /\ bus.reg # ReadReg[e]
    BY <1>1, <1>2, <2>1 DEF Readers
  <2> QED
    BY <1>1, <2>1, <2>2 DEF Settled, Acking, Held, display
<1>7. ASSUME Serve, UNCHANGED display, bus.op = "write" => bus.reg # ReadReg[e], e \notin outdated
      PROVE  Kept
  <2>1. /\ UNCHANGED <<readQueued, inFlight, inFlightOp>> /\ bus'.reg = bus.reg
        /\ Held(e)' = Held(e)
    BY <1>7 DEF Serve, lanes, slot, Held, IInv, TypeOK, Telegrams
  <2> QED
    BY <1>7, <2>1 DEF Settled, Acking, display, Serve
<1>8. ASSUME NEW x \in Entities, ServeEntity(x)
      PROVE  Kept
  <2>1. /\ inFlight = x /\ inFlightOp \in {"READ", "RMW_READ", "WRITE"}
        /\ inFlightOp \in {"READ", "RMW_READ"} => bus.op = "read"
        /\ Serve /\ UNCHANGED display
    BY <1>8 DEF ServeEntity, IInv, TypeOK, SlotMatchesBus
  <2>2. /\ UNCHANGED <<readQueued, inFlight, inFlightOp>>
        /\ bus'.reg = bus.reg /\ bus'.served
    BY <2>1 DEF Serve, lanes, slot, IInv, TypeOK, Telegrams
  <2>3. CASE inFlightOp = "READ"
    <3>1. e # x
      BY <2>1, <2>2, <2>3 DEF Settled, IInv, LaneFlags, InFlightAs
    <3> QED
      BY <1>7, <1>8, <2>1, <2>3, <3>1 DEF ServeEntity
  <2>4. CASE inFlightOp = "RMW_READ"
    BY <1>7, <1>8, <2>1, <2>4 DEF ServeEntity
  <2>5. CASE inFlightOp = "WRITE"
    <3>1. bus.reg # ReadReg[e]
      BY <2>1, <2>2, <2>5 DEF Settled, Acking
    <3>2. e \notin Readers(bus.reg)
      BY <3>1 DEF Readers
    <3>3. e \notin outdated
      BY <1>8, <2>5, <3>2 DEF ServeEntity
    <3> QED
      BY <1>7, <2>1, <3>1, <3>3
  <2> QED
    BY <2>1, <2>3, <2>4, <2>5
<1>9. CASE ServeOther
  <2>1. bus.op = "write" => e \notin Readers(bus.reg)
    BY <1>9 DEF ServeOther
  <2> QED
    BY <1>1, <1>7, <1>9, <2>1 DEF ServeOther, Readers
<1>10. ASSUME NEW r \in PanelRegs, NEW f \in Fields, NEW v \in Values, PanelChange(r, f, v)
       PROVE  Kept
  <2>1. /\ e \notin outdated /\ r # ReadReg[e]
        /\ UNCHANGED <<display, bus, readQueued, inFlight, inFlightOp>>
        /\ dev' = [dev EXCEPT ![r][f] = v]
    BY <1>1, <1>10 DEF PanelChange, PanelWrite, Readers, lanes, slot
  <2> QED
    BY <1>1, <2>1 DEF Settled, Acking, Held, display, IInv, TypeOK
<1>11. CASE NobodyIsTold
  <2>1. /\ UNCHANGED <<dev, display, outdated>> /\ readQueued \subseteq readQueued'
        /\ UNCHANGED <<inFlight, inFlightOp, bus>> \/ inFlight = NoEntity \/ inFlightOp = "RMW_READ"
    BY <1>11, QuietSteps
  <2> QED
    BY <1>1, <2>1 DEF Settled, Acking, Held, display
<1>12. CASE UNCHANGED entityVars
  BY <1>1, <1>12 DEF entityVars, vars, lanes, slot, display, Settled, Acking, Held
<1> QED
  BY <1>3, <1>4, <1>5, <1>6, <1>8, <1>9, <1>10, <1>11, <1>12 DEF Elsewhere

\* A read answered brings what the heater holds.
LEMMA AnswerIsHeld ==
  ASSUME IInv, EntityIInv, NEW e \in Entities \ outdated, Answer(e)
  PROVE  Held(e)' = bus.block[Field[e]]
<1>1. /\ inFlight = e /\ inFlightOp = "READ" /\ bus.served /\ UNCHANGED dev
  BY DEF Answer, ReadAnswered, EndRead, Answered
<1>2. bus.reg = ReadReg[e]
  BY <1>1, NobodyIsNoEntity DEF IInv, SlotMatchesBus
<1> QED
  BY <1>1, <1>2 DEF EntityIInv, AnswerStands, Held

\* A write acknowledged, unless a newer value overtook it, has put the newest value of
\* its entity into the register, and that is the value in the telegram.
LEMMA AcknowledgedIsSent ==
  ASSUME IInv, NEW e \in Entities, Acknowledge(e)
  PROVE  /\ inFlight = e /\ inFlightOp = "WRITE" /\ bus.served /\ UNCHANGED <<dev, outdated>>
         /\ bus.from = e /\ bus.reg = WriteReg[e] /\ bus.block[Field[e]] = staged[e]
<1>1. /\ inFlight = e /\ inFlightOp = "WRITE" /\ bus.served /\ UNCHANGED <<dev, outdated>>
      /\ ~Superseded(e)
  BY DEF Acknowledge, WriteAcked, Answered
<1> QED
  BY <1>1, NobodyIsNoEntity DEF IInv, SlotMatchesBus, TransmitsNewest

LEMMA AcknowledgedIsHeld ==
  ASSUME IInv, EntityIInv, NEW e \in Entities \ outdated, ReadReg[e] = WriteReg[e],
         Acknowledge(e)
  PROVE  Held(e)' = staged[e]
BY AcknowledgedIsSent DEF EntityIInv, AnswerStands, Held

\* What a step may do to the telegram an entity waits for.
LEMMA TelegramCases ==
  ASSUME IInv, [EntityNext]_entityVars
  PROVE  \/ inFlight' = NoEntity \/ ~bus'.served
         \/ UNCHANGED <<inFlight, inFlightOp, bus, dev>> /\ outdated \subseteq outdated'
         \/ \E r \in PanelRegs, f \in Fields, v \in Values : PanelChange(r, f, v)
         \/ \E x \in Entities : ServeEntity(x)
<1> DEFINE Case == \/ inFlight' = NoEntity \/ ~bus'.served
                   \/ UNCHANGED <<inFlight, inFlightOp, bus, dev>> /\ outdated \subseteq outdated'
<1>1. ASSUME NEW x \in Entities, Answer(x) \/ Acknowledge(x) \/ Overtake(x)
      PROVE  Case
  BY <1>1 DEF Answer, ReadAnswered, EndRead, Acknowledge, WriteAcked, Overtake,
     SupersededAcked, WriteFailed, EndWrite, Release
<1>2. ASSUME NEW x \in Entities, ReadLost(x)
      PROVE  Case
  BY <1>2 DEF ReadLost, ReadFailed, EndRead, Release, RefuseRead, slot
<1>3. CASE ServeOther
  BY <1>3 DEF ServeOther, Serve, slot
<1>4. CASE NobodyIsTold
  BY <1>4, QuietSteps
<1>5. CASE UNCHANGED entityVars
  BY <1>5 DEF entityVars, vars, slot
<1> QED
  BY <1>1, <1>2, <1>3, <1>4, <1>5 DEF EntityNext

\* The heater has just carried out a write: what it holds is what was written, and who
\* shows it is about to be refreshed or known to be outdated.
LEMMA ServedIsHeld ==
  ASSUME IInv, NEW x \in Entities, ServeEntity(x)
  PROVE  /\ inFlight' = x /\ x # NoEntity /\ inFlightOp' = inFlightOp
         /\ bus'.reg = bus.reg /\ bus.reg \in Regs
         /\ bus'.block = dev'[bus.reg]
         /\ inFlightOp = "WRITE" =>
              Readers(bus.reg) \ (Refreshed(bus.reg) \cup {x}) \subseteq outdated'
<1>1. /\ inFlight = x /\ x # NoEntity /\ Serve
      /\ dev \in [Regs -> Blocks] /\ bus \in Telegrams /\ bus.reg \in Regs
      /\ bus.op \in {"read", "write"}
  BY NobodyIsNoEntity DEF ServeEntity, IInv, TypeOK, Telegrams, Serve, BusIdle
<1>2. inFlight' = x /\ inFlightOp' = inFlightOp /\ bus'.reg = bus.reg
  BY <1>1 DEF Serve, slot, Telegrams
<1>3. bus'.block = dev'[bus.reg]
  BY <1>1 DEF Serve, Telegrams
<1>4. ASSUME inFlightOp = "WRITE"
      PROVE  Readers(bus.reg) \ (Refreshed(bus.reg) \cup {x}) \subseteq outdated'
  BY <1>4 DEF ServeEntity
<1> QED
  BY <1>1, <1>2, <1>3, <1>4

\* Types of what the entities show.
LEMMA EntityTypeStep ==
  ASSUME IInv, EntityTypeOK, [EntityNext]_entityVars
  PROVE  EntityTypeOK'
<1>1. \A r : Readers(r) \subseteq Entities
  BY DEF Readers
<1>2. staged \in [Entities -> Values]
  BY DEF IInv, TypeOK
<1>3. ASSUME NEW x \in Entities, Answer(x) \/ Acknowledge(x)
      PROVE  EntityTypeOK'
  BY <1>2, <1>3, CallTouchesOne DEF Answer, Acknowledge, EntityTypeOK
<1>4. ASSUME NEW x \in Entities, ReadLost(x)
      PROVE  EntityTypeOK'
  <2>1. HandleError(x) \/ UNCHANGED display
    BY <1>4 DEF ReadLost
  <2>2. outdated' \subseteq Entities
    BY <1>4 DEF ReadLost, EntityTypeOK
  <2> QED
    BY <2>1, <2>2, CallTouchesOne DEF EntityTypeOK, display
<1>5. ASSUME NEW x \in Entities, Overtake(x) \/ ServeEntity(x)
      PROVE  EntityTypeOK'
  <2>1. CASE Overtake(x)
    BY <1>1, <2>1 DEF Overtake, EntityTypeOK, display
  <2>2. CASE ServeEntity(x)
    <3>1. inFlightOp \in {"READ", "RMW_READ", "WRITE"}
      BY <2>2, NobodyIsNoEntity DEF ServeEntity, IInv, TypeOK, SlotMatchesBus
    <3> QED
      BY <1>1, <2>2, <3>1 DEF ServeEntity, EntityTypeOK, display
  <2> QED
    BY <1>5, <2>1, <2>2
<1>6. ASSUME ServeOther \/ \E r \in PanelRegs, f \in Fields, v \in Values : PanelChange(r, f, v)
      PROVE  EntityTypeOK'
  BY <1>1, <1>6 DEF ServeOther, PanelChange, EntityTypeOK, display
<1>7. CASE NobodyIsTold \/ UNCHANGED entityVars
  BY <1>7 DEF NobodyIsTold, entityVars, EntityTypeOK, display
<1> QED
  BY <1>3, <1>4, <1>5, <1>6, <1>7 DEF EntityNext

\* Every step keeps what is shown in step with the heater.
LEMMA EntityStep ==
  ASSUME IInv, EntityIInv, [EntityNext]_entityVars
  PROVE  EntityIInv'
<1> USE NobodyIsNoEntity
<1>1. EntityTypeOK'
  BY EntityTypeStep DEF EntityIInv
<1>2. ShownWhenSettled'
  <2> SUFFICES ASSUME NEW e \in Entities \ outdated', ReadReg[e] = WriteReg[e],
                      Settled(e)', (Held(e) \in Shown[e])'
               PROVE  published'[e] = Held(e)'
    BY DEF ShownWhenSettled
  <2>1. CASE Answer(e)
    <3>1. e \notin outdated /\ HandleResponse(e, bus.block[Field[e]])
      BY <2>1 DEF Answer
    <3>2. Held(e)' = bus.block[Field[e]]
      BY <2>1, <3>1, AnswerIsHeld
    <3> QED
      BY <3>1, <3>2 DEF HandleResponse, EntityIInv, EntityTypeOK
  <2>2. CASE Acknowledge(e) /\ e \notin ReadBack
    <3>1. e \notin outdated /\ published' = [published EXCEPT ![e] = staged[e]]
      BY <2>2 DEF Acknowledge, HandleWriteResponse
    <3>2. Held(e)' = staged[e]
      BY <2>2, <3>1, AcknowledgedIsHeld
    <3> QED
      BY <3>1, <3>2 DEF EntityIInv, EntityTypeOK
  <2>3. CASE Elsewhere(e)
    BY <2>3, StaysSettled DEF EntityIInv, ShownWhenSettled
  <2> QED
    BY <2>1, <2>2, <2>3, EntityCases
<1>3. ASSUME inFlight' = NoEntity \/ ~bus'.served
      PROVE  AnswerStands' /\ UnrefreshedAreOutdated'
  BY <1>3 DEF AnswerStands, UnrefreshedAreOutdated, Acking
<1>4. ASSUME UNCHANGED <<inFlight, inFlightOp, bus, dev>>, outdated \subseteq outdated'
      PROVE  AnswerStands' /\ UnrefreshedAreOutdated'
  BY <1>4 DEF EntityIInv, AnswerStands, UnrefreshedAreOutdated, Acking, Held
<1>5. ASSUME NEW r \in PanelRegs, NEW f \in Fields, NEW v \in Values, PanelChange(r, f, v)
      PROVE  AnswerStands' /\ UnrefreshedAreOutdated'
  <2>1. /\ UNCHANGED <<inFlight, inFlightOp, bus>> /\ outdated' = outdated \cup Readers(r)
        /\ dev' = [dev EXCEPT ![r][f] = v] /\ dev \in [Regs -> Blocks]
    BY <1>5 DEF PanelChange, PanelWrite, slot, IInv, TypeOK
  <2>2. \A e \in Entities \ outdated' : Held(e)' = Held(e)
    BY <2>1, HubAssumption DEF Held, Readers
  <2> QED
    BY <2>1, <2>2 DEF EntityIInv, AnswerStands, UnrefreshedAreOutdated, Acking
<1>6. ASSUME NEW x \in Entities, ServeEntity(x)
      PROVE  AnswerStands' /\ UnrefreshedAreOutdated'
  BY <1>6, ServedIsHeld DEF AnswerStands, UnrefreshedAreOutdated, Acking, Held
<1> QED
  BY <1>1, <1>2, <1>3, <1>4, <1>5, <1>6, TelegramCases DEF EntityIInv

LEMMA EntityInitIInv == EntityInit => EntityIInv
<1> SUFFICES ASSUME EntityInit PROVE EntityIInv
  OBVIOUS
<1>1. inFlight = NoEntity /\ outdated = Entities
  BY DEF EntityInit, Init
<1>2. EntityTypeOK
  BY DEF EntityInit, EntityTypeOK, Streak
<1> QED
  BY <1>1, <1>2 DEF EntityIInv, ShownWhenSettled, AnswerStands, UnrefreshedAreOutdated, Acking

\* The inductive invariant of what is shown, on top of that of the hub.
THEOREM EntityInvariance == EntitySpec => [](IInv /\ EntityIInv)
<1>1. EntityInit => IInv /\ EntityIInv
  BY InitIInv, EntityInitIInv DEF EntityInit
<1>2. IInv /\ [Next]_vars => IInv'
  BY TypeStep, LaneStep, SlotStep, MergeStep DEF IInv, MergeInv
<1>3. (IInv /\ EntityIInv) /\ [EntityNext]_entityVars => (IInv /\ EntityIInv)'
  BY <1>2, EntityStep, EntityStepIsHubStep
<1> QED
  BY <1>1, <1>3, PTL DEF EntitySpec

\* An entity for which nothing is pending is settled.
LEMMA QuietIsSettled ==
  ASSUME IInv, NEW e \in Entities, Quiet(e)
  PROVE  Settled(e)
<1>1. SUFFICES ASSUME Acking(ReadReg[e]) PROVE FALSE
  BY DEF Settled, Quiet
<1>2. inFlight \in writeInFlight
  BY <1>1 DEF Acking, IInv, LaneFlags, InFlightAs
<1>3. bus.reg = WriteReg[inFlight]
  BY <1>1 DEF Acking, IInv, SlotMatchesBus
<1> QED
  BY <1>1, <1>2, <1>3 DEF Acking, Quiet

\* Whatever reads, writes, read-backs and refreshes are interleaved, an entity for which
\* nothing is pending shows what the heater holds, unless something happened the hub
\* cannot know of.
THEOREM EntitiesShowTheHeater == EntitySpec => []ShowsTheHeater
<1>1. IInv /\ EntityIInv => ShowsTheHeater
  BY QuietIsSettled DEF EntityIInv, ShownWhenSettled, ShowsTheHeater, Held
<1> QED
  BY <1>1, EntityInvariance, PTL

\* A control never shows a value the heater has not accepted.
THEOREM NothingShownUnaccepted == EntitySpec => OnlyAccepted
<1> DEFINE Accepted == \A e \in Entities : published'[e] \notin {published[e], Unknown} =>
              bus.from = e /\ bus.served /\ bus.block[Field[e]] = published'[e]
<1>1. ASSUME IInv, EntityIInv, [EntityNext]_entityVars
      PROVE  Accepted
  <2> SUFFICES ASSUME NEW e \in Entities, published'[e] \notin {published[e], Unknown}
               PROVE  bus.from = e /\ bus.served /\ bus.block[Field[e]] = published'[e]
    OBVIOUS
  <2>1. EntityTypeOK /\ staged \in [Entities -> Values]
    BY <1>1 DEF EntityIInv, IInv, TypeOK
  <2>2. ASSUME NEW x \in Entities, HandleError(x)
        PROVE  FALSE
    BY <2>1, <2>2 DEF HandleError, EntityTypeOK, display
  <2>3. ASSUME NEW x \in Entities, Answer(x)
        PROVE  x = e /\ bus.block[Field[e]] = published'[e]
    BY <2>1, <2>2, <2>3 DEF Answer, HandleResponse, EntityTypeOK
  <2>4. ASSUME NEW x \in Entities, Answer(x)
        PROVE  bus.from = x /\ bus.served
    BY <1>1, <2>4, NobodyIsNoEntity
    DEF Answer, ReadAnswered, EndRead, Answered, IInv, SlotMatchesBus
  <2>5. ASSUME NEW x \in Entities, Acknowledge(x)
        PROVE  x = e /\ published'[e] = staged[e]
    BY <2>1, <2>5 DEF Acknowledge, HandleWriteResponse, EntityTypeOK
  <2>6. ASSUME NEW x \in Entities, ReadLost(x) \/ Overtake(x) \/ ServeEntity(x)
        PROVE  FALSE
    BY <2>2, <2>6 DEF ReadLost, Overtake, ServeEntity, display
  <2>7. ~ServeOther /\ ~NobodyIsTold /\ ~UNCHANGED entityVars
    BY DEF ServeOther, NobodyIsTold, entityVars, display
  <2>8. ASSUME NEW r \in PanelRegs, NEW f \in Fields, NEW v \in Values, PanelChange(r, f, v)
        PROVE  FALSE
    BY <2>8 DEF PanelChange, display
  <2>9. ASSUME NEW x \in Entities, Acknowledge(x)
        PROVE  bus.from = e /\ bus.served /\ bus.block[Field[e]] = published'[e]
    BY <1>1, <2>5, <2>9, AcknowledgedIsSent
  <2> QED
    BY <1>1, <2>3, <2>4, <2>6, <2>7, <2>8, <2>9 DEF EntityNext
<1>2. IInv /\ EntityIInv /\ [EntityNext]_entityVars => [Accepted]_entityVars
  BY <1>1
<1> QED
  BY <1>2, EntityInvariance, PTL DEF EntitySpec, OnlyAccepted

-----------------------------------------------------------------------------
(* The climate.                                                              *)

\* A card has been published only with every channel heard, and has followed the
\* climate since.
PairIsComplete == card # <<>> => Channels \subseteq known

\* What the climate holds is what the heater does, whenever a channel is settled; for
\* the mode, unless a command was acknowledged since the last answer.
TargetWhenSettled ==
  Setpoint \in known \ outdated /\ Settled(Setpoint) => climate.target = Held(Setpoint)
PresetWhenSettled ==
  Mode \in known \ outdated /\ Settled(Mode) /\ ~commanded =>
    climate.preset = PresetOf(Reading(Held(Mode)))

\* What the climate holds is what its channels were last told.
ShowsItsChannels ==
  /\ \A c \in known : published[c] \in Values
  /\ Setpoint \in known => climate.target = published[Setpoint]
  /\ Mode \in known =>
       climate.preset = PresetOf(IF commanded THEN Writing(published[Mode])
                                              ELSE Reading(published[Mode]))

\* What is queued or on its way for the mode is the byte of a preset.
CommandsAreStaged ==
  Mode \in writeQueued \cup writeInFlight => staged[Mode] \in Commands(Mode)

ClimateIInv ==
  /\ ClimateTypeOK
  /\ PairIsComplete /\ TargetWhenSettled /\ PresetWhenSettled
  /\ ShowsItsChannels /\ CommandsAreStaged

\* The channels are entities that write, and take any byte.
LEMMA ChannelsAreEntities ==
  /\ Setpoint \in Channels /\ Channels \subseteq Entities \cap Writable
  /\ Mode # NoEntity => Mode \in Channels /\ Mode # Setpoint
  /\ Channels \subseteq {Setpoint, Mode}
  /\ \A c \in Channels : Shown[c] = Values /\ c \notin Blanking
BY ClimateAssumption, NobodyIsNoEntity, WritersAreEntities DEF Channels

\* A row of the table of presets.
LEMMA RowsAreTyped ==
  ASSUME NEW i \in DOMAIN Presets
  PROVE  i \in Nat \ {NoPreset} /\ Presets[i].write \in Values /\ Presets[i].mode \in {"OFF", "HEAT", "AUTO"}
<1>1. i \in 1..Len(Presets) /\ Len(Presets) \in Nat
  BY ClimateAssumption, LenProperties
<1>2. Presets[i] \in [write : Values, reads : SUBSET Values, mode : {"OFF", "HEAT", "AUTO"}]
  BY <1>1, ClimateAssumption, ElementOfSeq
<1> QED
  BY <1>1, <1>2 DEF NoPreset

\* The first row that a byte names is one of those it names.
LEMMA FirstIsOne ==
  ASSUME NEW S \in SUBSET DOMAIN Presets, S # {}
  PROVE  FirstOf(S) \in S
<1> DEFINE R == OpToRel(<, Nat)
<1>1. S \subseteq Nat
  BY ClimateAssumption, LenProperties
<1>2. \A j, i \in Nat : j < i => <<j, i>> \in R
  BY Zenon DEF OpToRel
<1>3. IsWellFoundedOn(R, Nat)
  BY NatLessThanWellFounded
<1> HIDE DEF R
<1>4. PICK i \in S : \A j \in S : ~(<<j, i>> \in R)
  BY <1>1, <1>3, WFMin
<1>5. ASSUME NEW j \in S PROVE i <= j
  <2>1. i \in Nat /\ j \in Nat
    BY <1>1
  <2>2. ~(j < i)
    BY <1>2, <1>4, <2>1, Zenon
  <2> QED
    BY <2>1, <2>2
<1> QED
  BY <1>5 DEF FirstOf

\* The row bound for a byte is the one its space names.
LEMMA BoundRow ==
  ASSUME NEW S \in SUBSET DOMAIN Presets
  PROVE  /\ PresetOf(S) \in {NoPreset} \cup DOMAIN Presets
         /\ S # {} => PresetOf(S) = FirstOf(S) /\ FirstOf(S) \in DOMAIN Presets
BY FirstIsOne DEF PresetOf

\* publish_state() behind ready_() keeps a card that is out the pair it was.
LEMMA PublishKeepsPair ==
  ASSUME ClimateTypeOK, PairIsComplete, known \subseteq known',
         Publish \/ UNCHANGED <<climate, card>>
  PROVE  /\ card' = card \/ (card' = climate' /\ Channels \subseteq known')
         /\ card' # <<>> => card' = climate' /\ Channels \subseteq known'
BY DEF ClimateTypeOK, PairIsComplete, Publish

\* What the callbacks of the channels do to the climate.
LEMMA SetpointIsTaken ==
  ASSUME ClimateTypeOK, PairIsComplete, NEW v \in Values, OnSetpointRead(v)
  PROVE  /\ climate' = [climate EXCEPT !.target = v] /\ known' = known \cup {Setpoint}
         /\ known' \subseteq Channels
         /\ climate' \in [target : Values \cup {Unknown}, preset : {NoPreset} \cup DOMAIN Presets,
                          mode : {"OFF", "HEAT", "AUTO"}]
         /\ card' = card \/ (card' = climate' /\ Channels \subseteq known')
         /\ card' # <<>> => card' = climate' /\ Channels \subseteq known'
<1>1. /\ climate' = [climate EXCEPT !.target = v] /\ known' = known \cup {Setpoint} /\ Publish
  BY DEF OnSetpointRead
<1>2. known' \subseteq Channels
  BY <1>1, ChannelsAreEntities DEF ClimateTypeOK
<1>3. climate' \in [target : Values \cup {Unknown}, preset : {NoPreset} \cup DOMAIN Presets,
                    mode : {"OFF", "HEAT", "AUTO"}]
  BY <1>1 DEF ClimateTypeOK
<1> QED
  BY <1>1, <1>2, <1>3, PublishKeepsPair

LEMMA ModeIsTaken ==
  ASSUME ClimateTypeOK, PairIsComplete, Mode # NoEntity, NEW S \in SUBSET DOMAIN Presets,
         IF S = {} THEN Unbind ELSE Bind(FirstOf(S))
  PROVE  /\ climate'.preset = PresetOf(S) /\ climate'.target = climate.target
         /\ known' = known \cup {Mode} /\ known' \subseteq Channels
         /\ climate' \in [target : Values \cup {Unknown}, preset : {NoPreset} \cup DOMAIN Presets,
                          mode : {"OFF", "HEAT", "AUTO"}]
         /\ card' = card \/ (card' = climate' /\ Channels \subseteq known')
         /\ card' # <<>> => card' = climate' /\ Channels \subseteq known'
<1>1. known' = known \cup {Mode} /\ known' \subseteq Channels
  BY ChannelsAreEntities DEF ClimateTypeOK, Bind, Unbind
<1>2. CASE S = {}
  <2>1. Publish \/ UNCHANGED <<climate, card>>
    BY <1>2 DEF Unbind, ClimateTypeOK
  <2>2. climate' = [climate EXCEPT !.preset = NoPreset] /\ PresetOf(S) = NoPreset
    BY <1>2 DEF Unbind, PresetOf
  <2> QED
    BY <1>1, <2>1, <2>2, PublishKeepsPair DEF ClimateTypeOK
<1>3. CASE S # {}
  <2> DEFINE i == FirstOf(S)
  <2>1. PresetOf(S) = i /\ i \in DOMAIN Presets
    BY <1>3, BoundRow
  <2>2. Presets[i].mode \in {"OFF", "HEAT", "AUTO"}
    BY <2>1, RowsAreTyped
  <2>3. climate' = [climate EXCEPT !.preset = i, !.mode = Presets[i].mode] /\ Publish
    BY <1>3 DEF Bind
  <2> QED
    BY <1>1, <2>1, <2>2, <2>3, PublishKeepsPair DEF ClimateTypeOK
<1> QED
  BY <1>2, <1>3

\* Whatever the climate does but control() with both parts is a step of the entities.
LEMMA ClimateStepIsEntityStep ==
  ASSUME SetpointAnswer \/ ModeAnswer \/ ModeAcknowledged \/ ElseEntity \/ UNCHANGED climateVars
  PROVE  [EntityNext]_entityVars
<1>1. /\ Setpoint \in Entities
      /\ Mode # NoEntity => Mode \in Entities
      /\ \A c \in Channels : c \in Entities
  BY ChannelsAreEntities
<1>2. SetpointAnswer \/ ModeAnswer \/ ModeAcknowledged => EntityNext
  BY <1>1 DEF SetpointAnswer, ModeAnswer, ModeAcknowledged, EntityNext
<1>3. ElseEntity => EntityNext
  BY <1>1 DEF ElseEntity, EntityNext
<1>4. UNCHANGED climateVars => UNCHANGED entityVars
  BY DEF climateVars
<1> QED
  BY <1>2, <1>3, <1>4

\* control() with a target and a preset queues two writes at once, which is no step of
\* the hub, and breaks nothing.
LEMMA ControlKeepsIInv ==
  ASSUME IInv, EntityIInv, Mode # NoEntity, NEW target \in Setpoints, NEW byte \in Commands(Mode),
         Control(target, byte)
  PROVE  IInv' /\ EntityIInv'
<1> USE DEF lanes, slot, merge
<1>1. /\ Setpoint \in Entities \cap Writable /\ Mode \in Entities \cap Writable
      /\ Mode # Setpoint
      /\ target \in Values /\ byte \in Values
  BY ChannelsAreEntities, RowsAreTyped, ClimateAssumption DEF Commands
<1>2. /\ staged' = [staged EXCEPT ![Setpoint] = target, ![Mode] = byte]
      /\ writeQueued' = writeQueued \cup {Setpoint, Mode}
      /\ UNCHANGED <<readQueue, rawQueue, readQueued, slot, merge, identState, lastSpace, bus,
                     dev, display, outdated>>
  BY DEF Control
<1>3. staged' \in [Entities -> Values]
  BY <1>1, <1>2 DEF IInv, TypeOK
<1>4. writeQueue' \in Lanes /\ writeQueued' = ToSet(writeQueue')
  <2> DEFINE Queued(lane, c) == IF c \in writeQueued THEN lane ELSE Append(lane, c)
             first == Queued(writeQueue, Setpoint)
  <2>1. writeQueue \in Lanes /\ writeQueued = ToSet(writeQueue)
    BY DEF IInv, LaneFlags
  <2>2. first \in Lanes /\ ToSet(first) = writeQueued \cup {Setpoint}
    BY <1>1, <2>1, LaneRoom, AppendLane
  <2>3. writeQueue' = IF Mode \in writeQueued THEN first ELSE Append(first, Mode)
    BY DEF Control
  <2> HIDE DEF first
  <2>4. CASE Mode \in writeQueued
    BY <1>2, <2>2, <2>3, <2>4
  <2>5. CASE Mode \notin writeQueued
    <3>1. Mode \in Entities \ ToSet(first) /\ Room(first) > 0
      BY <1>1, <2>2, <2>5, LaneRoom
    <3>2. Append(first, Mode) \in Lanes /\ ToSet(Append(first, Mode)) = ToSet(first) \cup {Mode}
      BY <2>2, <3>1, AppendLane
    <3> QED
      BY <1>2, <2>2, <2>3, <2>5, <3>2
  <2> QED
    BY <2>4, <2>5
<1>5. TypeOK'
  <2>1. writeQueue' \in Seq(Entities)
    BY <1>4, LaneFacts
  <2> QED
    BY <1>1, <1>2, <1>3, <2>1 DEF IInv, TypeOK
<1>6. LaneFlags'
  BY <1>2, <1>4 DEF IInv, LaneFlags, InFlightAs, ArmedFor, Armed
<1>7. SlotMatchesBus' /\ MergeExclusive' /\ BusOrigin'
  BY <1>2 DEF IInv, SlotFree, Armed, Identifying, BusIdle, SlotMatchesBus, MergeExclusive,
     BusOrigin
<1>8. MergeIsCurrent' /\ AnswerIsCurrent' /\ ReadBackSound' /\ VerifyTracksBus'
  BY <1>2 DEF IInv, MergeIsCurrent, AnswerIsCurrent, ReadBackSound, VerifyTracksBus,
     MergedWriteUnserved, Armed
<1>9. TransmitsNewest'
  BY <1>1, <1>2 DEF IInv, TypeOK, TransmitsNewest, Superseded
<1>10. EntityIInv'
  BY <1>2 DEF EntityIInv, EntityTypeOK, ShownWhenSettled, AnswerStands, UnrefreshedAreOutdated,
     Settled, Acking, Held, display
<1> QED
  BY <1>5, <1>6, <1>7, <1>8, <1>9, <1>10 DEF IInv

\* A write is in flight from the lane only.
LEMMA WritesComeFromTheLane ==
  ASSUME IInv, [EntityNext]_entityVars
  PROVE  writeInFlight' \subseteq writeInFlight \cup writeQueued
<1> USE DEF lanes, slot, merge
<1>1. ASSUME writeQueue # <<>>
      PROVE  Head(writeQueue) \in writeQueued
  BY <1>1, TailLane DEF IInv, LaneFlags
<1>2. ASSUME NEW e \in Entities, SendWrite(e) \/ SendRmwRead(e)
      PROVE  writeInFlight' \subseteq writeInFlight \cup writeQueued
  BY <1>1, <1>2 DEF SendWrite, SendRmwRead, WriteTurn
<1>3. ASSUME NEW e \in Entities,
             \/ Answer(e) \/ ReadLost(e) \/ Acknowledge(e) \/ Overtake(e) \/ ServeEntity(e)
             \/ SendMerged(e) \/ RefuseMerged(e) \/ RefuseWrite(e) \/ SendRead(e)
             \/ RmwReadAnswered(e) \/ RmwReadFailed(e)
      PROVE  writeInFlight' \subseteq writeInFlight
  BY <1>3 DEF Answer, ReadAnswered, ReadLost, ReadFailed, EndRead, RefuseRead, Acknowledge, WriteAcked,
     Overtake, SupersededAcked, WriteFailed, EndWrite, ServeEntity, Serve, SendMerged,
     RefuseMerged, RefuseWrite, SendRead, RmwReadAnswered, RmwReadFailed
<1>4. ASSUME NEW e \in Entities, NEW v \in Values, RequestWrite(e, v)
      PROVE  UNCHANGED writeInFlight
  BY <1>4 DEF RequestWrite
<1>5. ASSUME NEW due, Poll(due)
      PROVE  UNCHANGED writeInFlight
  BY <1>5 DEF Poll
<1>6. ASSUME NEW op, QueueRaw(op)
      PROVE  UNCHANGED writeInFlight
  BY <1>6 DEF QueueRaw
<1>7. RetainRead \/ SendIdent \/ RefuseIdent \/ SendRaw \/ RefuseRaw \/ IdentAnswered
        \/ IdentFailed \/ RawDone \/ LateCallback => UNCHANGED writeInFlight
  BY DEF RetainRead, SendIdent, RefuseIdent, SendRaw, RefuseRaw, IdentAnswered, IdentFailed,
     RawDone, LateCallback
<1>8. ServeOther \/ UNCHANGED entityVars => UNCHANGED writeInFlight
  BY DEF ServeOther, Serve, entityVars, vars
<1>9. ASSUME NEW r \in PanelRegs, NEW f \in Fields, NEW v \in Values, PanelChange(r, f, v)
      PROVE  UNCHANGED writeInFlight
  BY <1>9 DEF PanelChange, PanelWrite
<1>10. CASE NobodyIsTold
  <2>1. \A e \in Entities : Shown[e] \subseteq Values
    BY EntityAssumption
  <2> QED
    BY <1>2, <1>3, <1>4, <1>5, <1>6, <1>7, <1>10, <2>1 DEF NobodyIsTold
<1> QED
  BY <1>3, <1>8, <1>9, <1>10 DEF EntityNext

\* What a channel is answered is a byte, and its entity keeps it.
LEMMA ChannelTakesAnswer ==
  ASSUME IInv, EntityTypeOK, NEW c \in Channels, Answer(c)
  PROVE  /\ bus.block[Field[c]] \in Values
         /\ published' = [published EXCEPT ![c] = bus.block[Field[c]]]
         /\ UNCHANGED outdated
<1>1. c \in Entities /\ Shown[c] = Values
  BY ChannelsAreEntities
<1>2. bus.block[Field[c]] \in Values
  BY <1>1, HubAssumption DEF IInv, TypeOK, Telegrams, Blocks
<1> QED
  BY <1>1, <1>2 DEF Answer, HandleResponse

\* A step that calls no channel back with a value leaves what the channels were told.
LEMMA ElseLeavesChannels ==
  ASSUME IInv, EntityTypeOK, ElseEntity, NEW c \in Channels
  PROVE  published'[c] = published[c] /\ Elsewhere(c)
<1>1. c \in Entities /\ Channels \subseteq Entities /\ c \notin Blanking
  BY ChannelsAreEntities
<1>2. staged \in [Entities -> Values]
  BY DEF IInv, TypeOK
<1>3. Elsewhere(c)
  BY <1>1 DEF ElseEntity, Elsewhere
<1>4. ASSUME NEW e \in Entities \ {c}, Answer(e) \/ Acknowledge(e) \/ ReadLost(e)
      PROVE  published'[c] = published[c]
  BY <1>1, <1>2, <1>4, CallTouchesOne DEF Answer, Acknowledge, ReadLost, display
<1>5. ASSUME c \in ReadBack, Acknowledge(c)
      PROVE  published'[c] = published[c]
  BY <1>5 DEF Acknowledge, HandleWriteResponse
<1>6. ASSUME ReadLost(c)
      PROVE  published'[c] = published[c]
  BY <1>1, <1>6 DEF ReadLost, HandleError, display
<1>7. ASSUME NEW e \in Entities, Overtake(e) \/ ServeEntity(e)
      PROVE  published'[c] = published[c]
  BY <1>7 DEF Overtake, ServeEntity, display
<1>8. ServeOther \/ NobodyIsTold => published'[c] = published[c]
  BY DEF ServeOther, NobodyIsTold, display
<1>9. ASSUME NEW r \in PanelRegs, NEW f \in Fields, NEW v \in Values, PanelChange(r, f, v)
      PROVE  published'[c] = published[c]
  BY <1>9 DEF PanelChange, display
<1> QED
  BY <1>1, <1>3, <1>4, <1>5, <1>6, <1>7, <1>8, <1>9 DEF ElseEntity

\* What the climate holds for the setpoint stays in step when the setpoint is not answered, and
\* for the mode when that is neither answered nor acknowledged.
LEMMA TargetStays ==
  ASSUME IInv, EntityIInv, ClimateIInv, Elsewhere(Setpoint), climate'.target = climate.target,
         Setpoint \in known' => Setpoint \in known
  PROVE  TargetWhenSettled'
<1> SUFFICES ASSUME Setpoint \in known' \ outdated', Settled(Setpoint)'
             PROVE  climate'.target = Held(Setpoint)'
  BY DEF TargetWhenSettled
<1>1. Setpoint \in Entities \ outdated'
  BY ChannelsAreEntities
<1> QED
  BY <1>1, StaysSettled DEF ClimateIInv, TargetWhenSettled

LEMMA PresetStays ==
  ASSUME IInv, EntityIInv, ClimateIInv, Mode # NoEntity => Elsewhere(Mode),
         climate'.preset = climate.preset, UNCHANGED commanded,
         Mode \in known' => Mode \in known
  PROVE  PresetWhenSettled'
<1> SUFFICES ASSUME Mode \in known' \ outdated', Settled(Mode)', ~commanded'
             PROVE  climate'.preset = PresetOf(Reading(Held(Mode)'))
  BY DEF PresetWhenSettled, PresetOf, Reading, FirstOf
<1>1. Mode \in Entities \ outdated' /\ Mode # NoEntity
  BY ChannelsAreEntities, NobodyIsNoEntity DEF ClimateIInv, ClimateTypeOK
<1>2. Mode \notin outdated /\ Settled(Mode) /\ Held(Mode)' = Held(Mode)
  BY <1>1, StaysSettled
<1> QED
  BY <1>2 DEF ClimateIInv, PresetWhenSettled

\* What is staged for the mode is the byte of a preset, if what is newly staged is.
LEMMA CommandsStay ==
  ASSUME TypeOK', CommandsAreStaged, writeInFlight' \subseteq writeInFlight \cup writeQueued,
         Mode # NoEntity => \/ staged'[Mode] \in Commands(Mode)
                            \/ /\ staged'[Mode] = staged[Mode]
                               /\ Mode \in writeQueued' => Mode \in writeQueued
  PROVE  CommandsAreStaged'
<1> SUFFICES ASSUME Mode \in writeQueued' \cup writeInFlight'
             PROVE  staged'[Mode] \in Commands(Mode)
  BY DEF CommandsAreStaged, Commands
<1>1. Mode # NoEntity
  BY WritersAreEntities, NobodyIsNoEntity DEF TypeOK
<1> QED
  BY <1>1 DEF CommandsAreStaged

\* An answer to the setpoint's channel.
LEMMA SetpointAnswerStep ==
  ASSUME IInv, EntityIInv, ClimateIInv, TypeOK', SetpointAnswer
  PROVE  ClimateIInv'
<1> DEFINE v == bus.block[Field[Setpoint]]
<1>1. /\ Setpoint \in Channels /\ Setpoint \in Entities /\ EntityTypeOK
      /\ Mode # NoEntity => Mode \in Entities /\ Mode \in Channels
      /\ Mode # Setpoint /\ Mode \notin known' \ known
  BY ChannelsAreEntities, ClimateAssumption, NobodyIsNoEntity
  DEF EntityIInv, SetpointAnswer, OnSetpointRead
<1>2. /\ v \in Values /\ published' = [published EXCEPT ![Setpoint] = v] /\ UNCHANGED outdated
      /\ OnSetpointRead(v) /\ UNCHANGED commanded /\ Answer(Setpoint)
  BY <1>1, ChannelTakesAnswer DEF SetpointAnswer
<1> HIDE DEF v
<1>3. /\ climate' = [climate EXCEPT !.target = v] /\ known' = known \cup {Setpoint}
      /\ ClimateTypeOK' /\ PairIsComplete'
  BY <1>2, SetpointIsTaken DEF ClimateIInv, ClimateTypeOK, PairIsComplete
<1>4. climate'.target = v /\ climate'.preset = climate.preset
  BY <1>3 DEF ClimateIInv, ClimateTypeOK
<1>5. TargetWhenSettled'
  BY <1>1, <1>2, <1>4, AnswerIsHeld DEF TargetWhenSettled, v
<1>6. PresetWhenSettled'
  BY <1>1, <1>2, <1>4, PresetStays DEF Elsewhere
<1>7. ShowsItsChannels'
  BY <1>1, <1>2, <1>3, <1>4 DEF ClimateIInv, ShowsItsChannels, EntityTypeOK, PresetOf, Reading,
     Writing, FirstOf
<1>8. CommandsAreStaged'
  <2>1. writeInFlight' \subseteq writeInFlight \cup writeQueued
    BY <1>1, <1>2, WritesComeFromTheLane DEF EntityNext
  <2> QED
    BY <1>1, <2>1, CommandsStay DEF SetpointAnswer, Obeyed, ClimateIInv
<1> QED
  BY <1>3, <1>5, <1>6, <1>7, <1>8 DEF ClimateIInv

\* An answer to the mode's channel.
LEMMA ModeAnswerStep ==
  ASSUME IInv, EntityIInv, ClimateIInv, TypeOK', ModeAnswer
  PROVE  ClimateIInv'
<1> DEFINE v == bus.block[Field[Mode]]
<1>1. /\ Setpoint \in Channels /\ Setpoint \in Entities /\ EntityTypeOK
      /\ Mode \in Entities /\ Mode \in Channels /\ Mode # NoEntity
      /\ Mode # Setpoint
  BY ChannelsAreEntities, ClimateAssumption, NobodyIsNoEntity DEF EntityIInv, ModeAnswer
<1>2. /\ v \in Values /\ published' = [published EXCEPT ![Mode] = v] /\ UNCHANGED outdated
      /\ OnModeRead(v) /\ commanded' = FALSE /\ Answer(Mode)
  BY <1>1, ChannelTakesAnswer DEF ModeAnswer
<1> HIDE DEF v
<1>3. /\ climate'.preset = PresetOf(Reading(v)) /\ climate'.target = climate.target
      /\ known' = known \cup {Mode}
      /\ ClimateTypeOK' /\ PairIsComplete'
  <2>1. IF Reading(v) = {} THEN Unbind ELSE Bind(FirstOf(Reading(v)))
    BY <1>2 DEF OnModeRead
  <2>2. Reading(v) \in SUBSET DOMAIN Presets
    BY DEF Reading
  <2> QED
    BY <1>1, <1>2, <2>1, <2>2, ModeIsTaken DEF ClimateIInv, ClimateTypeOK, PairIsComplete
<1>5. TargetWhenSettled'
  <2>1. Elsewhere(Setpoint)
    BY <1>1, <1>2 DEF Elsewhere
  <2> QED
    BY <1>1, <1>3, <2>1, TargetStays
<1>6. PresetWhenSettled'
  <2> SUFFICES ASSUME Mode \notin outdated'
               PROVE  climate'.preset = PresetOf(Reading(Held(Mode)'))
    BY DEF PresetWhenSettled, PresetOf, Reading, FirstOf
  <2> QED
    BY <1>1, <1>2, <1>3, AnswerIsHeld DEF v
<1>7. ShowsItsChannels'
  <2>1. /\ published'[Mode] = v /\ published'[Setpoint] = published[Setpoint]
        /\ Setpoint \in known' => Setpoint \in known
        /\ \A c \in known' : published'[c] \in Values
    BY <1>1, <1>2, <1>3 DEF ClimateIInv, ShowsItsChannels, EntityTypeOK
  <2>2. climate'.preset = PresetOf(IF commanded' THEN Writing(published'[Mode])
                                                ELSE Reading(published'[Mode]))
    BY <1>2, <1>3, <2>1
  <2>3. Setpoint \in known' => climate'.target = published'[Setpoint]
    BY <1>3, <2>1 DEF ClimateIInv, ShowsItsChannels
  <2> QED
    BY <2>1, <2>2, <2>3 DEF ShowsItsChannels, PresetOf, Reading, Writing, FirstOf
<1>8. CommandsAreStaged'
  <2>1. writeInFlight' \subseteq writeInFlight \cup writeQueued
    BY <1>1, <1>2, WritesComeFromTheLane DEF EntityNext
  <2> QED
    BY <1>1, <2>1, CommandsStay DEF ModeAnswer, Obeyed, ClimateIInv
<1> QED
  BY <1>3, <1>5, <1>6, <1>7, <1>8 DEF ClimateIInv

\* An acknowledgement to the mode's channel, when it has no read-back.
LEMMA ModeAcknowledgedStep ==
  ASSUME IInv, EntityIInv, ClimateIInv, TypeOK', ModeAcknowledged
  PROVE  ClimateIInv'
<1> DEFINE v == staged[Mode]
<1>1. /\ Setpoint \in Channels /\ Setpoint \in Entities /\ EntityTypeOK
      /\ Mode \in Entities /\ Mode \in Channels /\ Mode # NoEntity
      /\ Mode # Setpoint /\ staged \in [Entities -> Values]
  BY ChannelsAreEntities, ClimateAssumption, NobodyIsNoEntity
  DEF EntityIInv, ModeAcknowledged, IInv, TypeOK
<1>2. /\ v \in Values /\ published' = [published EXCEPT ![Mode] = v]
      /\ OnModeWritten(v) /\ commanded' = TRUE /\ Acknowledge(Mode)
  BY <1>1 DEF ModeAcknowledged, Acknowledge, HandleWriteResponse
<1>3. Writing(v) # {}
  <2>1. inFlight = Mode /\ inFlightOp = "WRITE"
    BY <1>2 DEF Acknowledge, WriteAcked
  <2>2. v \in Commands(Mode)
    BY <1>1, <2>1 DEF IInv, LaneFlags, InFlightAs, ClimateIInv, CommandsAreStaged
  <2> QED
    BY <1>1, <2>2 DEF Commands, Writing
<1> HIDE DEF v
<1>4. /\ climate'.preset = PresetOf(Writing(v)) /\ climate'.target = climate.target
      /\ known' = known \cup {Mode}
      /\ ClimateTypeOK' /\ PairIsComplete'
  <2>1. Bind(FirstOf(Writing(v)))
    BY <1>2, <1>3 DEF OnModeWritten
  <2>2. Writing(v) \in SUBSET DOMAIN Presets
    BY DEF Writing
  <2> QED
    BY <1>1, <1>2, <1>3, <2>1, <2>2, ModeIsTaken DEF ClimateIInv, ClimateTypeOK, PairIsComplete
<1>5. TargetWhenSettled'
  <2>1. Elsewhere(Setpoint)
    BY <1>1, <1>2 DEF Elsewhere
  <2> QED
    BY <1>1, <1>4, <2>1, TargetStays
<1>6. PresetWhenSettled'
  BY <1>2 DEF PresetWhenSettled
<1>7. ShowsItsChannels'
  <2>1. /\ published'[Mode] = v /\ published'[Setpoint] = published[Setpoint]
        /\ Setpoint \in known' => Setpoint \in known
        /\ \A c \in known' : published'[c] \in Values
    BY <1>1, <1>2, <1>4 DEF ClimateIInv, ShowsItsChannels, EntityTypeOK
  <2>2. climate'.preset = PresetOf(IF commanded' THEN Writing(published'[Mode])
                                                ELSE Reading(published'[Mode]))
    BY <1>2, <1>4, <2>1
  <2>3. Setpoint \in known' => climate'.target = published'[Setpoint]
    BY <1>4, <2>1 DEF ClimateIInv, ShowsItsChannels
  <2> QED
    BY <2>1, <2>2, <2>3 DEF ShowsItsChannels, PresetOf, Reading, Writing, FirstOf
<1>8. CommandsAreStaged'
  <2>1. /\ writeInFlight' \subseteq writeInFlight \cup writeQueued
        /\ UNCHANGED <<staged, writeQueued>>
    BY <1>2 DEF Acknowledge, WriteAcked
  <2> QED
    BY <2>1, CommandsStay DEF ClimateIInv
<1> QED
  BY <1>4, <1>5, <1>6, <1>7, <1>8 DEF ClimateIInv

\* What calls no channel back with a value.
LEMMA ElseStep ==
  ASSUME IInv, EntityIInv, ClimateIInv, TypeOK', ElseEntity
  PROVE  ClimateIInv'
<1>1. UNCHANGED <<known, climate, card, commanded>>
  BY DEF ElseEntity
<1>2. /\ EntityTypeOK /\ known \subseteq Channels
      /\ Setpoint \in Channels /\ (Mode # NoEntity => Mode \in Channels)
  BY ChannelsAreEntities DEF EntityIInv, ClimateIInv, ClimateTypeOK
<1>3. \A c \in Channels : published'[c] = published[c] /\ Elsewhere(c)
  BY <1>2, ElseLeavesChannels
<1>4. ClimateTypeOK' /\ PairIsComplete'
  BY <1>1 DEF ClimateIInv, ClimateTypeOK, PairIsComplete
<1>5. TargetWhenSettled' /\ PresetWhenSettled'
  BY <1>1, <1>2, <1>3, TargetStays, PresetStays
<1>6. ShowsItsChannels'
  <2>1. /\ \A c \in known : published'[c] = published[c]
        /\ Setpoint \in known => climate.target = published[Setpoint]
        /\ Mode \in known => climate.preset = PresetOf(IF commanded THEN Writing(published[Mode])
                                                               ELSE Reading(published[Mode]))
    BY <1>2, <1>3 DEF ClimateIInv, ShowsItsChannels
  <2>2. Mode \in known' => climate'.preset = PresetOf(IF commanded' THEN Writing(published'[Mode])
                                                                   ELSE Reading(published'[Mode]))
    BY <1>1, <2>1
  <2>3. Setpoint \in known' => climate'.target = published'[Setpoint]
    BY <1>1, <2>1
  <2>4. \A c \in known' : published'[c] \in Values
    BY <1>1, <2>1 DEF ClimateIInv, ShowsItsChannels
  <2> QED
    BY <2>2, <2>3, <2>4 DEF ShowsItsChannels, PresetOf, Reading, Writing, FirstOf
<1>7. CommandsAreStaged'
  <2>1. writeInFlight' \subseteq writeInFlight \cup writeQueued
    BY ClimateStepIsEntityStep, WritesComeFromTheLane
  <2> QED
    BY <1>2, <2>1, CommandsStay DEF ElseEntity, Obeyed, ClimateIInv
<1> QED
  BY <1>4, <1>5, <1>6, <1>7 DEF ClimateIInv

\* control() with both parts only stages.
LEMMA ControlStep ==
  ASSUME IInv, EntityIInv, ClimateIInv, Mode # NoEntity,
         NEW target \in Setpoints, NEW byte \in Commands(Mode), Control(target, byte)
  PROVE  ClimateIInv'
<1>1. /\ staged' = [staged EXCEPT ![Setpoint] = target, ![Mode] = byte]
      /\ UNCHANGED <<slot, bus, dev, readQueued, display, outdated, known, climate, card, commanded>>
  BY DEF Control
<1>2. ClimateTypeOK' /\ PairIsComplete' /\ TargetWhenSettled'
  BY <1>1 DEF ClimateIInv, ClimateTypeOK, PairIsComplete, TargetWhenSettled, Settled, Acking,
     Held, slot
<1>3. PresetWhenSettled' /\ ShowsItsChannels'
  BY <1>1 DEF ClimateIInv, PresetWhenSettled, ShowsItsChannels, Settled, Acking, Held, slot,
     display, PresetOf, Reading, Writing, FirstOf
<1>4. staged'[Mode] = byte
  BY <1>1, ChannelsAreEntities, ClimateAssumption, NobodyIsNoEntity DEF IInv, TypeOK
<1> QED
  BY <1>2, <1>3, <1>4 DEF ClimateIInv, CommandsAreStaged, Commands

LEMMA ClimateInitIInv == ClimateInit => ClimateIInv
<1> SUFFICES ASSUME ClimateInit PROVE ClimateIInv
  OBVIOUS
<1>1. /\ known = {} /\ card = <<>> /\ commanded = FALSE
      /\ climate = [target |-> Unknown, preset |-> NoPreset,
                    mode |-> IF Mode = NoEntity THEN "HEAT" ELSE "OFF"]
      /\ writeQueued = {} /\ writeInFlight = {}
  BY DEF ClimateInit, EntityInit, Init
<1> QED
  BY <1>1 DEF ClimateIInv, ClimateTypeOK, PairIsComplete, TargetWhenSettled, PresetWhenSettled,
     ShowsItsChannels, CommandsAreStaged

\* Every step keeps the three invariants, though control() is no step of the hub.
LEMMA ClimateStep ==
  ASSUME IInv, EntityIInv, ClimateIInv, [ClimateNext]_climateVars
  PROVE  IInv' /\ EntityIInv' /\ ClimateIInv'
<1>1. ASSUME SetpointAnswer \/ ModeAnswer \/ ModeAcknowledged \/ ElseEntity
             \/ UNCHANGED climateVars
      PROVE  IInv' /\ EntityIInv'
  <2>1. [EntityNext]_entityVars /\ [Next]_vars
    BY <1>1, ClimateStepIsEntityStep, EntityStepIsHubStep
  <2> QED
    BY <2>1, EntityStep, TypeStep, LaneStep, SlotStep, MergeStep DEF IInv, MergeInv
<1>2. ASSUME SetpointAnswer \/ ModeAnswer \/ ModeAcknowledged \/ ElseEntity
      PROVE  ClimateIInv'
  <2>1. TypeOK'
    BY <1>1, <1>2 DEF IInv
  <2> QED
    BY <1>2, <2>1, SetpointAnswerStep, ModeAnswerStep, ModeAcknowledgedStep, ElseStep
<1>3. ASSUME Mode # NoEntity, NEW target \in Setpoints, NEW byte \in Commands(Mode),
             Control(target, byte)
      PROVE  IInv' /\ EntityIInv' /\ ClimateIInv'
  BY <1>3, ControlKeepsIInv, ControlStep
<1>4. CASE UNCHANGED climateVars
  <2>1. ClimateIInv'
    BY <1>4 DEF climateVars, entityVars, vars, lanes, slot, merge, display, ClimateIInv,
       ClimateTypeOK, PairIsComplete, TargetWhenSettled, PresetWhenSettled, ShowsItsChannels,
       CommandsAreStaged, Commands, Settled, Acking, Held, PresetOf, Reading, Writing, FirstOf
  <2> QED
    BY <1>1, <1>4, <2>1
<1> QED
  BY <1>1, <1>2, <1>3, <1>4 DEF ClimateNext

\* The inductive invariant of the climate, on top of those of the hub and the entities.
THEOREM ClimateInvariance == ClimateSpec => [](IInv /\ EntityIInv /\ ClimateIInv)
<1>1. ClimateInit => IInv /\ EntityIInv /\ ClimateIInv
  BY InitIInv, EntityInitIInv, ClimateInitIInv DEF ClimateInit, EntityInit
<1>2. (IInv /\ EntityIInv /\ ClimateIInv) /\ [ClimateNext]_climateVars
        => (IInv /\ EntityIInv /\ ClimateIInv)'
  BY ClimateStep
<1> QED
  BY <1>1, <1>2, PTL DEF ClimateSpec

\* A published card shows the target and the preset the heater holds, whenever nothing is
\* pending for the channel, for every table of presets and every other writer.
THEOREM CardIsTrue == ClimateSpec => []CardShowsTheHeater
<1>1. ASSUME IInv, EntityIInv, ClimateIInv
      PROVE  CardShowsTheHeater
  <2> SUFFICES ASSUME card # <<>> PROVE CardShowsTheHeater
    BY DEF CardShowsTheHeater
  <2>1. card = climate /\ Channels \subseteq known
    BY <1>1 DEF ClimateIInv, ClimateTypeOK, PairIsComplete
  <2>2. ASSUME Setpoint \notin outdated, Quiet(Setpoint)
        PROVE  card.target = dev[ReadReg[Setpoint]][Field[Setpoint]]
    BY <1>1, <2>1, <2>2, QuietIsSettled, ChannelsAreEntities
    DEF ClimateIInv, TargetWhenSettled, Held
  <2>3. ASSUME Mode \in Entities \ outdated, Quiet(Mode), ~commanded
        PROVE  card.preset = PresetOf(Reading(dev[ReadReg[Mode]][Field[Mode]]))
    <3>1. Mode \in known /\ Settled(Mode)
      BY <1>1, <2>1, <2>3, QuietIsSettled, ChannelsAreEntities, NobodyIsNoEntity
    <3> QED
      BY <1>1, <2>1, <2>3, <3>1 DEF ClimateIInv, PresetWhenSettled, Held
  <2> QED
    BY <2>2, <2>3 DEF CardShowsTheHeater
<1> QED
  BY <1>1, ClimateInvariance, PTL

\* Whatever card is published, the heater has confirmed both parts of it, each looked up in
\* the space of its own register.
THEOREM CardIsAPair == ClimateSpec => PairIsConfirmed
<1> DEFINE Confirmed ==
             card' # card =>
               /\ Unknown \notin {published'[c] : c \in Channels}
               /\ card'.target = published'[Setpoint]
               /\ Mode # NoEntity =>
                    card'.preset = PresetOf(IF commanded' THEN Writing(published'[Mode])
                                                          ELSE Reading(published'[Mode]))
<1>1. ASSUME IInv, EntityIInv, ClimateIInv, [ClimateNext]_climateVars
      PROVE  Confirmed
  <2> SUFFICES ASSUME card' # card
               PROVE  /\ Unknown \notin {published'[c] : c \in Channels}
                      /\ card'.target = published'[Setpoint]
                      /\ Mode # NoEntity =>
                           card'.preset = PresetOf(IF commanded' THEN Writing(published'[Mode])
                                                                 ELSE Reading(published'[Mode]))
    OBVIOUS
  <2>1. card' = climate' /\ Channels \subseteq known'
    <3>1. CASE SetpointAnswer
      <4>1. bus.block[Field[Setpoint]] \in Values
        BY <1>1, <3>1, ChannelsAreEntities, ChannelTakesAnswer DEF SetpointAnswer, EntityIInv
      <4> QED
        BY <1>1, <3>1, <4>1, SetpointIsTaken DEF SetpointAnswer, ClimateIInv
    <3>2. CASE ModeAnswer
      <4>1. Reading(bus.block[Field[Mode]]) \in SUBSET DOMAIN Presets
        BY DEF Reading
      <4> QED
        BY <1>1, <3>2, <4>1, ModeIsTaken DEF ModeAnswer, OnModeRead, ClimateIInv
    <3>3. CASE ModeAcknowledged
      <4>1. Writing(staged[Mode]) \in SUBSET DOMAIN Presets
        BY DEF Writing
      <4>2. Writing(staged[Mode]) # {}
        BY <3>3 DEF ModeAcknowledged, OnModeWritten
      <4> QED
        BY <1>1, <3>3, <4>1, <4>2, ModeIsTaken DEF ModeAcknowledged, OnModeWritten, ClimateIInv
    <3>4. ASSUME NEW target, NEW byte, Control(target, byte)
          PROVE  UNCHANGED card
      BY <3>4 DEF Control
    <3>5. ElseEntity \/ UNCHANGED climateVars => UNCHANGED card
      BY DEF ElseEntity, climateVars
    <3> QED
      BY <1>1, <3>1, <3>2, <3>3, <3>4, <3>5 DEF ClimateNext
  <2>2. ShowsItsChannels'
    BY <1>1, ClimateStep DEF ClimateIInv
  <2>3. \A c \in Channels : published'[c] \in Values
    BY <2>1, <2>2 DEF ShowsItsChannels
  <2>4. Unknown \notin {published'[c] : c \in Channels}
    BY <2>3, EntityAssumption
  <2>5. card'.target = published'[Setpoint]
    BY <2>1, <2>2, ChannelsAreEntities DEF ShowsItsChannels
  <2>6. Mode # NoEntity =>
          card'.preset = PresetOf(IF commanded' THEN Writing(published'[Mode])
                                                ELSE Reading(published'[Mode]))
    BY <2>1, <2>2, ChannelsAreEntities DEF ShowsItsChannels, PresetOf, Reading, Writing, FirstOf
  <2> QED
    BY <2>4, <2>5, <2>6
<1>2. (IInv /\ EntityIInv /\ ClimateIInv) /\ [ClimateNext]_climateVars => [Confirmed]_climateVars
  BY <1>1
<1> QED
  BY <1>2, ClimateInvariance, PTL DEF ClimateSpec, PairIsConfirmed
=============================================================================
