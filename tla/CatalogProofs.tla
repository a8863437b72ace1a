--------------------------- MODULE CatalogProofs ---------------------------
(***************************************************************************)
(* Theorems about Catalog: what generate() and the schemas let through is  *)
(* addressable by the hub that loads it, and fits the registry; the two    *)
(* languages of the catalog differ in texts alone; the texts of fault codes*)
(* reach the slots they were given to; and an entity reads and writes the  *)
(* bits of its row, and decodes them to the row's value, with its sign.    *)
(*                                                                         *)
(* They are stated of the jobs JobOk describes, whatever their number: any *)
(* rows of an export (ExportOk and NumbersOk, where bits or values matter),*)
(* any arguments, any companion file, any hub and any entities the schemas *)
(* build from YAML.  ConfigInv says what generate() keeps of the shape of  *)
(* its chunks, the package of the chunks, and the configuration of the     *)
(* package; CapacityInv what is left of the registry.                      *)
(***************************************************************************)
EXTENDS Catalog, FiniteSetTheorems, SequenceTheorems, NaturalsInduction, TLAPS

----------------------------------------------------------------------------
\* Sequences.

LEMMA SeqIs ==
  ASSUME NEW s
  PROVE  IsSeq(s) <=> /\ s = [i \in DOMAIN s |-> s[i]]
                      /\ \E n \in Nat : DOMAIN s = 1..n
  <1>1. ASSUME IsSeq(s) PROVE s = [i \in DOMAIN s |-> s[i]] /\ \E n \in Nat : DOMAIN s = 1..n
    <2>1. s \in Seq(ToSet(s))
      BY <1>1 DEF IsSeq
    <2>2. Len(s) \in Nat /\ DOMAIN s = 1..Len(s)
      BY <2>1
    <2> QED
      BY <2>1, <2>2, SeqDef
  <1>2. ASSUME s = [i \in DOMAIN s |-> s[i]], NEW n \in Nat, DOMAIN s = 1..n PROVE IsSeq(s)
    <2>1. s \in [1..n -> ToSet(s)]
      BY <1>2 DEF ToSet
    <2> QED
      BY <2>1, SeqDef DEF IsSeq
  <1> QED
    BY <1>1, <1>2

LEMMA SeqLen ==
  ASSUME NEW s, IsSeq(s)
  PROVE  Len(s) \in Nat /\ DOMAIN s = 1..Len(s)
  BY DEF IsSeq

LEMMA MadeSeq ==
  ASSUME NEW n \in Nat, NEW s, DOMAIN s = 1..n, s = [i \in 1..n |-> s[i]]
  PROVE  IsSeq(s) /\ Len(s) = n
  <1>1. IsSeq(s)
    BY SeqIs
  <1> QED
    BY <1>1, SeqLen

LEMMA SeqFrom ==
  ASSUME NEW S, NEW s, s \in Seq(S)
  PROVE  IsSeq(s)
  <1>1. Len(s) \in Nat /\ s \in [1..Len(s) -> S]
    OBVIOUS
  <1>2. s \in [1..Len(s) -> ToSet(s)]
    BY <1>1 DEF ToSet
  <1> QED
    BY <1>1, <1>2, SeqDef DEF IsSeq

LEMMA AppendIs ==
  ASSUME NEW s, IsSeq(s), NEW x
  PROVE  /\ IsSeq(Append(s, x)) /\ DOMAIN Append(s, x) = 1..Len(s) + 1
         /\ Append(s, x)[Len(s) + 1] = x
         /\ \A i \in DOMAIN s : Append(s, x)[i] = s[i]
         /\ Len(Append(s, x)) = Len(s) + 1
  <1> DEFINE S == ToSet(s) \cup {x}
  <1>1. s \in Seq(S) /\ x \in S
    BY SeqIs, SeqDef DEF IsSeq, ToSet
  <1>2. Append(s, x) \in Seq(S) /\ Len(Append(s, x)) = Len(s) + 1
    BY <1>1
  <1>3. Append(s, x)[Len(s) + 1] = x /\ \A i \in DOMAIN s : Append(s, x)[i] = s[i]
    BY <1>1
  <1> QED
    BY <1>1, <1>2, <1>3, SeqFrom, SeqLen

LEMMA TailIs ==
  ASSUME NEW s, IsSeq(s), s # <<>>
  PROVE  /\ IsSeq(Tail(s)) /\ Len(s) \in Nat \ {0} /\ Len(Tail(s)) = Len(s) - 1
         /\ Head(s) = s[1] /\ 1 \in DOMAIN s
         /\ \A i \in DOMAIN Tail(s) : Tail(s)[i] = s[i + 1] /\ i + 1 \in DOMAIN s
  <1>1. s \in Seq(ToSet(s))
    BY DEF IsSeq
  <1>2. Tail(s) \in Seq(ToSet(s)) /\ Len(Tail(s)) = Len(s) - 1 /\ Len(s) \in Nat \ {0}
    BY <1>1
  <1>3. \A i \in DOMAIN Tail(s) : Tail(s)[i] = s[i + 1] /\ i + 1 \in DOMAIN s
    BY <1>1, <1>2
  <1>4. Head(s) = s[1] /\ 1 \in DOMAIN s
    BY <1>1, <1>2
  <1>5. IsSeq(Tail(s))
    BY <1>2, SeqFrom
  <1> QED
    BY <1>2, <1>3, <1>4, <1>5

LEMMA ConcatIs ==
  ASSUME NEW s, IsSeq(s), NEW t, IsSeq(t)
  PROVE  /\ IsSeq(s \o t) /\ Len(s \o t) = Len(s) + Len(t)
         /\ \A i \in DOMAIN (s \o t) : \/ i \in DOMAIN s /\ (s \o t)[i] = s[i]
                                       \/ i - Len(s) \in DOMAIN t /\ (s \o t)[i] = t[i - Len(s)]
  <1> DEFINE S == ToSet(s) \cup ToSet(t)
  <1>1. s \in Seq(S) /\ t \in Seq(S)
    BY SeqIs, SeqDef DEF IsSeq, ToSet
  <1>2. s \o t \in Seq(S) /\ Len(s \o t) = Len(s) + Len(t)
    BY <1>1
  <1>3. \A i \in DOMAIN (s \o t) : \/ i \in DOMAIN s /\ (s \o t)[i] = s[i]
                                   \/ i - Len(s) \in DOMAIN t /\ (s \o t)[i] = t[i - Len(s)]
    BY <1>1, <1>2
  <1> QED
    BY <1>1, <1>2, <1>3, SeqFrom, SeqLen

LEMMA EmptyIs == IsSeq(<<>>) /\ DOMAIN <<>> = {}
  BY DEF IsSeq, ToSet

LEMMA SingleIs == ASSUME NEW x PROVE IsSeq(<<x>>) /\ DOMAIN <<x>> = {1} /\ <<x>>[1] = x
  <1>1. <<x>> \in Seq({x}) /\ DOMAIN <<x>> = {1} /\ <<x>>[1] = x
    OBVIOUS
  <1> QED
    BY <1>1, SeqFrom

----------------------------------------------------------------------------
\* Sorting.

\* Each index of s and what comes before it: a strict total order.
TotalOrder(s, before) ==
  /\ \A i \in DOMAIN s : before[i] \subseteq DOMAIN s /\ i \notin before[i]
  /\ \A i, j \in DOMAIN s : i \in before[j] => before[i] \subseteq before[j]
  /\ \A i, j \in DOMAIN s : i # j => i \in before[j] \/ j \in before[i]

\* InOrder() returns the elements of its sequence, each of them once.
LEMMA InOrderPermutes ==
  ASSUME NEW s, IsSeq(s), NEW before, TotalOrder(s, before)
  PROVE  \E p \in Injection(DOMAIN s, DOMAIN s) :
           InOrder(s, before) = [n \in DOMAIN s |-> s[p[n]]]
  <1> DEFINE I == DOMAIN s
             N == Len(s)
             place(i) == Cardinality(before[i])
             f == [i \in I |-> place(i) + 1]
  <1>1. N \in Nat /\ I = 1..N /\ IsFiniteSet(I) /\ Cardinality(I) = N
    <2>1. N \in Nat /\ I = 1..N
      BY SeqLen
    <2>2. IsFiniteSet(1..N) /\ Cardinality(1..N) = IF 1 > N THEN 0 ELSE N - 1 + 1
      BY <2>1, FS_Interval
    <2> QED
      BY <2>1, <2>2
  <1>2. \A i \in I : IsFiniteSet(before[i]) /\ place(i) \in Nat /\ place(i) < N
    <2> SUFFICES ASSUME NEW i \in I PROVE IsFiniteSet(before[i]) /\ place(i) \in Nat /\ place(i) < N
      OBVIOUS
    <2>1. before[i] \in SUBSET (I \ {i})
      BY DEF TotalOrder
    <2>2. IsFiniteSet(I \ {i}) /\ Cardinality(I \ {i}) = N - 1
      BY <1>1, FS_RemoveElement
    <2> QED
      BY <1>1, <2>1, <2>2, FS_Subset, FS_CardinalityType
  <1>3. \A i, j \in I : i \in before[j] => place(i) < place(j)
    <2> SUFFICES ASSUME NEW i \in I, NEW j \in I, i \in before[j] PROVE place(i) < place(j)
      OBVIOUS
    <2>1. before[i] \in SUBSET before[j] /\ i \notin before[i]
      BY DEF TotalOrder
    <2>2. place(i) <= place(j) /\ (place(i) = place(j) => before[i] = before[j])
      BY <1>2, <2>1, FS_Subset
    <2> QED
      BY <1>2, <2>1, <2>2
  <1>4. f \in Injection(I, I)
    <2>1. f \in [I -> I]
      BY <1>1, <1>2
    <2>2. \A i, j \in I : f[i] = f[j] => i = j
      BY <1>2, <1>3 DEF TotalOrder
    <2> QED
      BY <2>1, <2>2 DEF Injection, IsInjective
  <1>5. f \in Surjection(I, I)
    BY <1>1, <1>4, FS_Injection
  <1>6. \A n \in I : \E i \in I : place(i) = n - 1
    <2> SUFFICES ASSUME NEW n \in I PROVE \E i \in I : place(i) = n - 1
      OBVIOUS
    <2>1. PICK i \in I : f[i] = n
      BY <1>5 DEF Surjection
    <2> QED
      BY <1>1, <1>2, <2>1
  <1> DEFINE at(n) == CHOOSE i \in I : place(i) = n - 1
             p == [n \in I |-> at(n)]
  <1>7. \A n \in I : at(n) \in I /\ place(at(n)) = n - 1
    BY <1>6
  <1>8. p \in Injection(I, I)
    <2>1. p \in [I -> I]
      BY <1>7
    <2>2. \A m, n \in I : p[m] = p[n] => m = n
      BY <1>1, <1>7
    <2> QED
      BY <2>1, <2>2 DEF Injection, IsInjective
  <1>9. InOrder(s, before) = [n \in I |-> s[p[n]]]
    BY DEF InOrder
  <1> QED
    BY <1>8, <1>9

\* Hence what holds of every element still does.
LEMMA InOrderKeeps ==
  ASSUME NEW s, IsSeq(s), NEW before, TotalOrder(s, before)
  PROVE  /\ IsSeq(InOrder(s, before)) /\ DOMAIN InOrder(s, before) = DOMAIN s
         /\ \A n \in DOMAIN s : \E i \in DOMAIN s : InOrder(s, before)[n] = s[i]
  <1>1. PICK p \in [DOMAIN s -> DOMAIN s] : InOrder(s, before) = [n \in DOMAIN s |-> s[p[n]]]
    BY InOrderPermutes DEF Injection
  <1>2. IsSeq(InOrder(s, before))
    <2>1. DOMAIN InOrder(s, before) = 1..Len(s) /\ Len(s) \in Nat
      BY <1>1, SeqLen
    <2>2. InOrder(s, before) = [n \in 1..Len(s) |-> InOrder(s, before)[n]]
      BY <1>1, <2>1
    <2> QED
      BY <2>1, <2>2, MadeSeq
  <1> QED
    BY <1>1, <1>2

LEMMA ByAddressKeeps ==
  ASSUME NEW rows, IsSeq(rows), \A i \in DOMAIN rows : RowOk(rows[i])
  PROVE  /\ IsSeq(ByAddress(rows))
         /\ \A n \in DOMAIN ByAddress(rows) :
              RowOk(ByAddress(rows)[n]) /\ ByAddress(rows)[n] \in ToSet(rows)
  <1> DEFINE comes(j, i) == \/ rows[j].addr < rows[i].addr
                            \/ rows[j].addr = rows[i].addr /\ j < i
             before == [i \in DOMAIN rows |-> {j \in DOMAIN rows : comes(j, i)}]
  <1>1. \A i \in DOMAIN rows : i \in Nat /\ rows[i].addr \in Nat
    BY SeqLen DEF RowOk
  <1>2. TotalOrder(rows, before)
    BY <1>1 DEF TotalOrder
  <1>3. ByAddress(rows) = InOrder(rows, before)
    BY DEF ByAddress
  <1> HIDE DEF before
  <1>4. /\ IsSeq(InOrder(rows, before)) /\ DOMAIN InOrder(rows, before) = DOMAIN rows
        /\ \A n \in DOMAIN rows : \E i \in DOMAIN rows : InOrder(rows, before)[n] = rows[i]
    BY <1>2, InOrderKeeps
  <1>5. \A i \in DOMAIN rows : rows[i] \in ToSet(rows)
    BY DEF ToSet
  <1> QED
    BY <1>3, <1>4, <1>5

----------------------------------------------------------------------------
\* Induction on a bounded number, and ids.

LEMMA Induct ==
  ASSUME NEW N \in Nat, NEW T, 0 \in T, \A n \in 1..N : n - 1 \in T => n \in T
  PROVE  0..N \subseteq T
  <1> DEFINE S == (0..N) \ T
             R == OpToRel(<, Nat)
  <1>1. \A j, i \in Nat : j < i => <<j, i>> \in R
    BY Zenon DEF OpToRel
  <1>2. IsWellFoundedOn(R, Nat)
    BY NatLessThanWellFounded
  <1> HIDE DEF R
  <1> SUFFICES ASSUME S # {} PROVE FALSE
    OBVIOUS
  <1>3. S \subseteq Nat
    OBVIOUS
  <1> HIDE DEF S
  <1>4. PICK n \in S : \A m \in S : ~(<<m, n>> \in R)
    BY <1>2, <1>3, WFMin
  <1>5. n \in 1..N /\ n - 1 \in S
    BY <1>4 DEF S
  <1>6. <<n - 1, n>> \in R
    BY <1>1, <1>5
  <1> QED
    BY <1>4, <1>5, <1>6

LEMMA Least ==
  ASSUME NEW N \in Nat, NEW S, S \subseteq 1..N, S # {}
  PROVE  \E m \in S : \A k \in 1..m - 1 : k \notin S
  <1> SUFFICES ASSUME \A m \in S : \E k \in 1..m - 1 : k \in S PROVE FALSE
    OBVIOUS
  <1> DEFINE T == {n \in 0..N : \A k \in 1..n : k \notin S}
  <1>1. 0 \in T /\ \A n \in 1..N : n - 1 \in T => n \in T
    OBVIOUS
  <1>2. N \in T => S = {}
    OBVIOUS
  <1> HIDE DEF T
  <1>3. 0..N \subseteq T
    BY <1>1, Induct
  <1>4. N \in 0..N
    OBVIOUS
  <1> QED
    BY <1>2, <1>3, <1>4

\* A seed is a sequence of words, not empty.
SeedOk(seed) == IsSeq(seed) /\ seed # <<>>

LEMMA SeedAppend == ASSUME NEW s, IsSeq(s), NEW x PROVE SeedOk(Append(s, x))
  <1>1. IsSeq(Append(s, x)) /\ DOMAIN Append(s, x) = 1..Len(s) + 1 /\ Len(s) \in Nat
    BY AppendIs, SeqLen
  <1>2. 1 \in DOMAIN Append(s, x)
    BY <1>1
  <1> QED
    BY <1>1, <1>2, EmptyIs DEF SeedOk

LEMMA SeedAfter == ASSUME NEW x, NEW s, IsSeq(s) PROVE SeedOk(<<x>> \o s)
  <1>1. IsSeq(<<x>>) /\ DOMAIN <<x>> = {1} /\ Len(<<x>>) = 1
    BY SingleIs
  <1> DEFINE t == <<x>>
  <1>2. IsSeq(t) /\ Len(t) = 1
    BY <1>1
  <1> HIDE DEF t
  <1>3. IsSeq(t \o s) /\ Len(t \o s) = Len(t) + Len(s) /\ Len(s) \in Nat
    BY <1>2, ConcatIs, SeqLen
  <1>4. t \o s # <<>>
    BY <1>2, <1>3
  <1> QED
    BY <1>3, <1>4 DEF SeedOk, t

LEMMA SeedWords ==
  ASSUME NEW x, NEW y, NEW z
  PROVE  SeedOk(<<x>>) /\ SeedOk(<<x, y>>) /\ SeedOk(<<x, y, z>>)
  <1>1. <<x>> \in Seq({x, y, z}) /\ <<x, y>> \in Seq({x, y, z}) /\ <<x, y, z>> \in Seq({x, y, z})
    OBVIOUS
  <1>2. IsSeq(<<x>>) /\ IsSeq(<<x, y>>) /\ IsSeq(<<x, y, z>>)
    BY <1>1, SeqFrom
  <1>3. <<x>> # <<>> /\ <<x, y>> # <<>> /\ <<x, y, z>> # <<>>
    OBVIOUS
  <1> QED
    BY <1>2, <1>3 DEF SeedOk

\* str(): no two numbers are written alike.
NumbersDiffer == \A i, j \in Nat : ToString(i) = ToString(j) => i = j

\* _make_obj_id() returns an id that is not in use yet.
LEMMA IdIsNew ==
  ASSUME NumbersDiffer, NEW seed, SeedOk(seed), NEW used, IsFiniteSet(used)
  PROVE  MakeObjId(seed, used) \notin used /\ MakeObjId(seed, used) # <<>>
  <1> DEFINE cand(i) == IF i = 1 THEN seed ELSE Append(seed, ToString(i))
             N == Cardinality(used) + 1
             free == {i \in 1..N : cand(i) \notin used}
  <1>1. N \in Nat \ {0} /\ Cardinality(used) < N
    BY FS_CardinalityType
  <1>2. \A i \in Nat \ {0} : cand(i) # <<>>
    BY AppendIs, SeqLen, EmptyIs DEF SeedOk
  <1>3. ASSUME NEW i \in Nat \ {0}, NEW j \in Nat \ {0}, cand(i) = cand(j) PROVE i = j
    <2>1. ASSUME NEW k \in Nat PROVE Append(seed, ToString(k)) # seed
      BY AppendIs, SeqLen DEF SeedOk
    <2>2. ASSUME NEW k \in Nat, NEW l \in Nat,
                 Append(seed, ToString(k)) = Append(seed, ToString(l))
          PROVE  k = l
      BY <2>2, AppendIs DEF NumbersDiffer, SeedOk
    <2> QED
      BY <1>3, <2>1, <2>2
  <1> HIDE DEF cand, N
  <1>4. free # {}
    <2> SUFFICES ASSUME free = {} PROVE FALSE
      OBVIOUS
    <2> DEFINE f == [i \in 1..N |-> cand(i)]
    <2>1. f \in [1..N -> used]
      OBVIOUS
    <2>2. IsFiniteSet(1..N) /\ Cardinality(1..N) = N
      BY <1>1, FS_Interval
    <2>3. \A i \in 1..N : f[i] = cand(i)
      OBVIOUS
    <2>4. \E x, y \in 1..N : x # y /\ f[x] = f[y]
      <3> DEFINE S == 1..N
      <3>1. /\ IsFiniteSet(S) /\ IsFiniteSet(used) /\ Cardinality(used) < Cardinality(S)
            /\ f \in [S -> used]
        BY <1>1, <2>1, <2>2
      <3> HIDE DEF S, f
      <3>2. \E x, y \in S : x # y /\ f[x] = f[y]
        BY <3>1, FS_PigeonHole
      <3> QED
        BY <3>2 DEF S
    <2> HIDE DEF f
    <2> QED
      BY <1>1, <1>3, <2>3, <2>4
  <1>5. \E i \in 1..N : cand(i) \notin used /\ \A j \in 1..i - 1 : cand(j) \in used
    <2>1. free \subseteq 1..N /\ N \in Nat
      BY <1>1
    <2>2. PICK m \in free : \A k \in 1..m - 1 : k \notin free
      <3> HIDE DEF free
      <3> QED
        BY <1>4, <2>1, Least
    <2> QED
      BY <1>1, <2>2
  <1>6. MakeObjId(seed, used)
          = cand(CHOOSE i \in 1..N : cand(i) \notin used /\ \A j \in 1..i - 1 : cand(j) \in used)
    BY DEF MakeObjId, cand, N
  <1> QED
    BY <1>1, <1>2, <1>5, <1>6

\* No two chunks have one id.
IdsApart(chunks) ==
  /\ \A i \in DOMAIN chunks : chunks[i].id # NoMark
  /\ \A i, j \in DOMAIN chunks : chunks[i].id = chunks[j].id => i = j
IdsKnown(g) ==
  /\ IsFiniteSet(g.usedIds) /\ IdsApart(g.chunks)
  /\ \A i \in DOMAIN g.chunks : g.chunks[i].id \in g.usedIds

----------------------------------------------------------------------------
\* What the entity builder returns.

BuiltPlatforms == {"comment", "sensor", "binary_sensor", "text_sensor", "number", "select", "switch"}
Built(e) ==
  /\ DOMAIN e = DOMAIN Blank /\ e.platform \in BuiltPlatforms
  /\ AtMostOne(e.state) /\ e.codes = {}

LEMMA AtBuilt == ASSUME NEW ev PROVE Built(At(ev)) /\ At(ev).state = <<>>
  BY DEF Built, At, Blank, BuiltPlatforms, AtMostOne

LEMMA StringBuilt == ASSUME NEW ev, NEW kind PROVE Built(StringSpec(ev, kind))
  BY AtBuilt DEF StringSpec, Built, BuiltPlatforms, AtMostOne, Blank

LEMMA BitShapeBuilt ==
  ASSUME NEW ev, NEW f, NEW whole
  PROVE  Built(BitShape(ev, f, whole)) /\ BitShape(ev, f, whole).state = <<>>
  BY AtBuilt DEF BitShape, Built, Blank

LEMMA BitEnumBuilt ==
  ASSUME NEW ev, NEW f, NEW opts, NEW pair, NEW shape, NEW writable, Built(shape)
  PROVE  Built(BitEnumSpec(ev, f, opts, pair, shape, writable))
  BY AtBuilt DEF BitEnumSpec, Built, BuiltPlatforms, AtMostOne, Blank

LEMMA BitNumberBuilt ==
  ASSUME NEW ev, NEW f, NEW v, NEW shape, NEW writable, Built(shape)
  PROVE  Built(BitNumber(ev, f, v, shape, writable))
  BY AtBuilt DEF BitNumber, BitNumberSpec, Built, BuiltPlatforms, AtMostOne, Blank

LEMMA BitFieldBuilt ==
  ASSUME NEW ev, NEW protocol, NEW german, NEW partialWrites, NEW field, NEW blockMode
  PROVE  Built(BuildBitField(ev, protocol, german, partialWrites, field, blockMode))
  BY AtBuilt, BitShapeBuilt, BitEnumBuilt, BitNumberBuilt DEF BuildBitField, BitFieldSpec

LEMMA WriteShapeBuilt ==
  ASSUME NEW ev, NEW blockMode
  PROVE  Built(WriteShape(ev, blockMode))
  BY AtBuilt DEF WriteShape, Built, Blank

LEMMA StateAddrIs == ASSUME NEW ev PROVE AtMostOne(StateAddr(ev))
  BY DEF StateAddr, AtMostOne

LEMMA SwitchOrSelectBuilt ==
  ASSUME NEW ev, NEW opts, NEW pair, NEW blockMode
  PROVE  Built(SwitchOrSelectSpec(ev, opts, pair, blockMode))
  BY WriteShapeBuilt, StateAddrIs DEF SwitchOrSelectSpec, Built, BuiltPlatforms, Blank

LEMMA NumberBuilt ==
  ASSUME NEW ev, NEW conv, NEW explicit, NEW blockMode
  PROVE  Built(NumberSpec(ev, conv, explicit, blockMode))
  BY WriteShapeBuilt DEF NumberSpec, Built, BuiltPlatforms, Blank

LEMMA BinarySensorBuilt == ASSUME NEW ev PROVE Built(BinarySensorSpec(ev))
  BY AtBuilt DEF BinarySensorSpec, Built, BuiltPlatforms, Blank

LEMMA ReadShapeBuilt ==
  ASSUME NEW ev, NEW len, NEW extract
  PROVE  Built(ReadShape(ev, len, extract))
  BY AtBuilt DEF ReadShape, Built, Blank

LEMMA EnumTextBuilt == ASSUME NEW ev, NEW opts PROVE Built(EnumTextSpec(ev, opts))
  <1>1. ASSUME NEW len PROVE Built(EnumText(ev, opts, len))
    <2> DEFINE extract == /\ ev.bytePosition > 0 /\ ev.bytePosition + len <= BlockLen(ev)
                          /\ BlockLen(ev) <= MaxP300ReadLength
               shape == ReadShape(ev, len, extract)
    <2>1. EnumText(ev, opts, len) =
            [shape EXCEPT !.platform = "text_sensor", !.kind = "enum", !.options = opts]
      BY DEF EnumText
    <2>2. Built(shape)
      BY ReadShapeBuilt
    <2> HIDE DEF shape
    <2> QED
      BY <2>1, <2>2 DEF Built, BuiltPlatforms, Blank
  <1> QED
    BY <1>1 DEF EnumTextSpec

LEMMA ScalarSensorBuilt ==
  ASSUME NEW ev, NEW protocol, NEW v, NEW d
  PROVE  Built(ScalarSensor(ev, protocol, v, d))
  BY AtBuilt, ReadShapeBuilt DEF ScalarSensor, SensorSpec, Built, BuiltPlatforms, Blank

LEMMA ScalarBuilt ==
  ASSUME NEW ev, NEW protocol, NEW german, NEW v, NEW partialWrites, NEW roBlocks
  PROVE  Built(BuildScalar(ev, protocol, german, v, partialWrites, roBlocks))
  BY AtBuilt, SwitchOrSelectBuilt, NumberBuilt, BinarySensorBuilt, EnumTextBuilt, ScalarSensorBuilt
     DEF BuildScalar, ScalarSpec

\* Every row gives a comment or an entity of a platform the package has a place for.
LEMMA EntityBuilt ==
  ASSUME NEW ev, NEW protocol, NEW german, NEW partialWrites, NEW roBlocks
  PROVE  Built(BuildEntity(ev, protocol, german, partialWrites, roBlocks))
  BY AtBuilt, BitFieldBuilt, StringBuilt, ScalarBuilt DEF BuildEntity, Built, Blank

----------------------------------------------------------------------------
\* The state of generate().

\* The entity of one row, under the job's arguments.
Of(ev) ==
  BuildEntity(ev, job.protocol, job.german, job.partialWrites,
              ReadOnlyBlocks(ToSet(job.rows), job.protocol))

Emitted(e) ==
  /\ DOMAIN e = DOMAIN Blank
  /\ e.platform \in (BuiltPlatforms \ {"comment"}) \cup {"text", "button"}
  /\ AtMostOne(e.state)
  /\ e.platform = "button" => e.kind = "action"
\* A chunk with a row is the entity of that row, but for how it is read.
ChunkOk(c) ==
  /\ DOMAIN c = {"entity", "name", "group", "id", "row"}
  /\ Emitted(c.entity) /\ c.group \in Nat
  /\ c.row # <<>> =>
       /\ RowOk(c.row[1]) /\ c.row[1] \in ToSet(job.rows)
       /\ c.entity.access = AccessFor(c.row[1], job.protocol)
       /\ c.entity = [Of(c.row[1]) EXCEPT !.access = c.entity.access, !.prefix = c.entity.prefix]
GenOk(g) ==
  /\ DOMAIN g = DOMAIN Fresh
  /\ IsSeq(g.chunks) /\ \A i \in DOMAIN g.chunks : ChunkOk(g.chunks[i])
  /\ IsSeq(g.deferred) /\ \A i \in DOMAIN g.deferred : RowOk(g.deferred[i])
  /\ NumbersDiffer => IdsKnown(g)

LEMMA PieceOk ==
  ASSUME NEW e, Emitted(e), NEW name, NEW group \in Nat
  PROVE  ChunkOk(Piece(e, name, group))
  BY DEF ChunkOk, Piece

LEMMA AddChunkKeeps ==
  ASSUME NEW g, GenOk(g), NEW piece, ChunkOk(piece),
         NEW seed, SeedOk(seed)
  PROVE  GenOk(AddChunk(g, piece, seed))
  <1> DEFINE id == MakeObjId(seed, g.usedIds)
             chunk == [piece EXCEPT !.id = id]
             after == AddChunk(g, piece, seed)
  <1>1. ChunkOk(chunk)
    BY DEF ChunkOk
  <1> HIDE DEF id
  <1>2. /\ DOMAIN after = DOMAIN g /\ after.chunks = Append(g.chunks, chunk)
        /\ after.deferred = g.deferred /\ after.usedIds = g.usedIds \cup {id}
    BY DEF AddChunk, GenOk, Fresh, id
  <1>7. chunk.id = id
    BY DEF ChunkOk
  <1> HIDE DEF after, chunk
  <1>3. /\ IsSeq(after.chunks) /\ DOMAIN after.chunks = 1..Len(g.chunks) + 1
        /\ after.chunks[Len(g.chunks) + 1] = chunk
        /\ \A i \in DOMAIN g.chunks : after.chunks[i] = g.chunks[i]
    BY <1>2, AppendIs DEF GenOk
  <1>4. DOMAIN g.chunks = 1..Len(g.chunks) /\ Len(g.chunks) \in Nat
    BY SeqLen DEF GenOk
  <1>5. \A i \in DOMAIN after.chunks : ChunkOk(after.chunks[i])
    BY <1>1, <1>3, <1>4 DEF GenOk
  <1>8. ASSUME NumbersDiffer PROVE IdsKnown(after)
    <2>1. IdsKnown(g)
      BY <1>8 DEF GenOk
    <2>2. id \notin g.usedIds /\ id # NoMark
      BY <1>8, <2>1, IdIsNew DEF id, IdsKnown, NoMark
    <2>3. IsFiniteSet(after.usedIds)
      <3>1. IsFiniteSet(g.usedIds)
        BY <2>1 DEF IdsKnown
      <3>2. IsFiniteSet(g.usedIds \cup {id})
        BY <3>1, FS_AddElement
      <3> QED
        BY <1>2, <3>2
    <2> QED
      BY <1>2, <1>3, <1>4, <1>7, <2>1, <2>2, <2>3 DEF IdsKnown, IdsApart
  <1>6. GenOk(after)
    BY <1>2, <1>3, <1>5, <1>8 DEF GenOk
  <1> QED
    BY <1>6 DEF after

LEMMA AddRealKeeps ==
  ASSUME NEW g, GenOk(g), NEW piece, ChunkOk(piece),
         NEW seed, SeedOk(seed)
  PROVE  GenOk(AddReal(g, piece, seed))
  BY AddChunkKeeps DEF AddReal, GenOk, Fresh, IdsKnown

EntryOk(e) ==
  /\ DOMAIN e = {"entity", "seed", "name", "map"} /\ Emitted(e.entity)
  /\ SeedOk(e.seed)

\* A loop over entries: the recursive function of AddDays().
LEMMA AddDaysKeeps ==
  ASSUME NEW g, GenOk(g), NEW ev, ev.group \in Nat,
         NEW entries, IsSeq(entries), \A i \in DOMAIN entries : EntryOk(entries[i])
  PROVE  GenOk(AddDays(g, ev, entries))
  <1> DEFINE N == Len(entries)
             base == [g EXCEPT !.seen = @ \cup {FieldKey(ev)}]
             piece(n) == Piece(entries[n].entity, entries[n].name, ev.group)
             Next1(n, x) == AddReal(x, piece(n), entries[n].seed)
             Loop(f, m) == f = [n \in 0..m |-> IF n = 0 THEN base ELSE Next1(n, f[n - 1])]
  <1>1. N \in Nat /\ DOMAIN entries = 1..N
    BY SeqLen
  <1> HIDE DEF base, Next1
  <1>2. \E f : Loop(f, N)
    <2>1. \E f : Loop(f, 0)
      <3> DEFINE z == [n \in 0..0 |-> base]
      <3>1. Loop(z, 0)
        OBVIOUS
      <3> HIDE DEF z, Loop
      <3> QED
        BY <3>1
    <2>2. ASSUME NEW m \in 1..N, NEW f, Loop(f, m - 1) PROVE \E h : Loop(h, m)
      <3> DEFINE h == [n \in 0..m |-> IF n = m THEN Next1(m, f[m - 1]) ELSE f[n]]
      <3>1. \A n \in 0..m : h[n] = IF n = 0 THEN base ELSE Next1(n, h[n - 1])
        BY <1>1, <2>2
      <3>2. Loop(h, m)
        BY <3>1
      <3> HIDE DEF h, Loop
      <3> QED
        BY <3>2
    <2> HIDE DEF Loop
    <2> DEFINE T == {m \in 0..N : \E f : Loop(f, m)}
    <2>3. 0 \in T /\ \A m \in 1..N : m - 1 \in T => m \in T
      BY <1>1, <2>1, <2>2
    <2>4. N \in T => \E f : Loop(f, N)
      OBVIOUS
    <2> HIDE DEF T
    <2>5. 0..N \subseteq T
      BY <1>1, <2>3, Induct
    <2>6. N \in 0..N
      BY <1>1
    <2> QED
      BY <2>4, <2>5, <2>6
  <1> DEFINE after == CHOOSE f : Loop(f, N)
  <1>3. Loop(after, N)
    BY <1>2
  <1>4. AddDays(g, ev, entries) = after[N]
    BY DEF AddDays, base, Next1
  <1> HIDE DEF after
  <1>5. /\ after[0] = base
        /\ \A n \in 1..N : after[n] = Next1(n, after[n - 1])
    BY <1>1, <1>3
  <1>6. GenOk(base)
    BY DEF base, GenOk, Fresh, IdsKnown
  <1>7. ASSUME NEW n \in 1..N, GenOk(after[n - 1]) PROVE GenOk(after[n])
    <2>1. EntryOk(entries[n])
      BY <1>1
    <2>2. ChunkOk(piece(n))
      BY <2>1, PieceOk DEF EntryOk
    <2> HIDE DEF piece
    <2>3. GenOk(Next1(n, after[n - 1]))
      BY <1>7, <2>1, <2>2, AddRealKeeps DEF Next1, EntryOk
    <2> QED
      BY <1>5, <2>3
  <1>8. 0..N \subseteq {n \in 0..N : GenOk(after[n])}
    <2> DEFINE T == {n \in 0..N : GenOk(after[n])}
    <2>1. 0 \in T /\ \A n \in 1..N : n - 1 \in T => n \in T
      BY <1>1, <1>5, <1>6, <1>7
    <2> HIDE DEF T
    <2>2. 0..N \subseteq T
      BY <1>1, <2>1, Induct
    <2> QED
      BY <2>2 DEF T
  <1> QED
    BY <1>1, <1>4, <1>8

LEMMA AddSlotKeeps ==
  ASSUME NEW g, GenOk(g), NEW ev, ev.group \in Nat, NEW entry, EntryOk(entry)
  PROVE  GenOk(AddSlot(g, entry, ev))
  <1> DEFINE e == entry.entity
             piece == Piece(e, entry.name, ev.group)
             added == AddReal(g, piece, entry.seed)
  <1>1. ChunkOk(piece)
    BY PieceOk DEF EntryOk
  <1> HIDE DEF piece
  <1>2. GenOk(added)
    BY <1>1, AddRealKeeps DEF EntryOk
  <1> QED
    BY <1>2 DEF AddSlot, GenOk, Fresh, IdsKnown, piece, added

LEMMA AddSlotsKeeps ==
  ASSUME NEW g, GenOk(g), NEW ev, ev.group \in Nat,
         NEW entries, IsSeq(entries), \A i \in DOMAIN entries : EntryOk(entries[i])
  PROVE  GenOk(AddSlots(g, entries, ev))
  <1> DEFINE N == Len(entries)
             Next1(n, x) == AddSlot(x, entries[n], ev)
             Loop(f, m) == f = [n \in 0..m |-> IF n = 0 THEN g ELSE Next1(n, f[n - 1])]
  <1>1. N \in Nat /\ DOMAIN entries = 1..N
    BY SeqLen
  <1> HIDE DEF Next1
  <1>2. \E f : Loop(f, N)
    <2>1. \E f : Loop(f, 0)
      <3> DEFINE z == [n \in 0..0 |-> g]
      <3>1. Loop(z, 0)
        OBVIOUS
      <3> HIDE DEF z, Loop
      <3> QED
        BY <3>1
    <2>2. ASSUME NEW m \in 1..N, NEW f, Loop(f, m - 1) PROVE \E h : Loop(h, m)
      <3> DEFINE h == [n \in 0..m |-> IF n = m THEN Next1(m, f[m - 1]) ELSE f[n]]
      <3>1. \A n \in 0..m : h[n] = IF n = 0 THEN g ELSE Next1(n, h[n - 1])
        BY <1>1, <2>2
      <3>2. Loop(h, m)
        BY <3>1
      <3> HIDE DEF h, Loop
      <3> QED
        BY <3>2
    <2> HIDE DEF Loop
    <2> DEFINE T == {m \in 0..N : \E f : Loop(f, m)}
    <2>3. 0 \in T /\ \A m \in 1..N : m - 1 \in T => m \in T
      BY <1>1, <2>1, <2>2
    <2>4. N \in T => \E f : Loop(f, N)
      OBVIOUS
    <2> HIDE DEF T
    <2>5. 0..N \subseteq T
      BY <1>1, <2>3, Induct
    <2>6. N \in 0..N
      BY <1>1
    <2> QED
      BY <2>4, <2>5, <2>6
  <1> DEFINE after == CHOOSE f : Loop(f, N)
  <1>3. Loop(after, N)
    BY <1>2
  <1>4. AddSlots(g, entries, ev) = after[N]
    BY DEF AddSlots, Next1
  <1> HIDE DEF after
  <1>5. /\ after[0] = g
        /\ \A n \in 1..N : after[n] = Next1(n, after[n - 1])
    BY <1>1, <1>3
  <1>6. ASSUME NEW n \in 1..N, GenOk(after[n - 1]) PROVE GenOk(after[n])
    <2>1. EntryOk(entries[n])
      BY <1>1
    <2>2. GenOk(Next1(n, after[n - 1]))
      BY <1>6, <2>1, AddSlotKeeps DEF Next1
    <2> QED
      BY <1>5, <2>2
  <1>7. 0..N \subseteq {n \in 0..N : GenOk(after[n])}
    <2> DEFINE T == {n \in 0..N : GenOk(after[n])}
    <2>1. 0 \in T /\ \A n \in 1..N : n - 1 \in T => n \in T
      BY <1>1, <1>5, <1>6
    <2> HIDE DEF T
    <2>2. 0..N \subseteq T
      BY <1>1, <2>1, Induct
    <2> QED
      BY <2>2 DEF T
  <1> QED
    BY <1>1, <1>4, <1>7

LEMMA EntryIs ==
  ASSUME NEW e, Emitted(e), NEW seed, SeedOk(seed), NEW map
  PROVE  EntryOk(Entry(e, seed)) /\ EntryOk([Entry(e, seed) EXCEPT !.map = map])
  BY DEF Entry, EntryOk

LEMMA SchaltzeitenOk ==
  ASSUME NEW ev, IsSeq(ev.tech), NEW access
  PROVE  /\ IsSeq(SchaltzeitenEntries(ev, access))
         /\ \A i \in DOMAIN SchaltzeitenEntries(ev, access) :
              EntryOk(SchaltzeitenEntries(ev, access)[i])
  <1>1. ASSUME NEW d \in 1..Days PROVE EntryOk(SchaltzeitenEntries(ev, access)[d])
    <2> DEFINE e == [At(ev) EXCEPT !.platform = "text", !.addr = ev.addr + (d - 1) * RecordLen,
                                   !.access = access, !.poll = "coding"]
               seed == <<"schaltzeit">> \o Append(ev.tech, Weekdays[d])
    <2>1. SchaltzeitenEntries(ev, access)[d] = Entry(e, seed)
      BY DEF SchaltzeitenEntries
    <2>2. Emitted(e)
      BY AtBuilt DEF Emitted, Built, Blank
    <2>3. SeedOk(seed)
      <3>1. IsSeq(Append(ev.tech, Weekdays[d]))
        BY AppendIs
      <3> QED
        BY <3>1, SeedAfter
    <2> HIDE DEF e, seed
    <2> QED
      BY <2>1, <2>2, <2>3, EntryIs
  <1> QED
    BY <1>1, MadeSeq DEF SchaltzeitenEntries, Days

LEMMA HydroOk ==
  ASSUME NEW ev, IsSeq(ev.tech), NEW access
  PROVE  /\ IsSeq(HydroEntries(ev, access))
         /\ \A i \in DOMAIN HydroEntries(ev, access) : EntryOk(HydroEntries(ev, access)[i])
  <1>1. ASSUME NEW d \in 1..Days PROVE EntryOk(HydroEntries(ev, access)[d])
    <2> DEFINE e == [At(ev) EXCEPT !.platform = "text_sensor", !.kind = "raw",
                                   !.addr = ev.addr + (d - 1) * HydroShape(ev)[1],
                                   !.length = HydroShape(ev)[1] * HydroShape(ev)[2],
                                   !.access = access, !.poll = "coding"]
               seed == Append(ev.tech, Weekdays[d])
    <2>1. HydroEntries(ev, access)[d] = Entry(e, seed)
      BY DEF HydroEntries
    <2>2. Emitted(e)
      BY AtBuilt DEF Emitted, Built, BuiltPlatforms, Blank
    <2>3. SeedOk(seed)
      BY SeedAppend
    <2> HIDE DEF e, seed
    <2> QED
      BY <2>1, <2>2, <2>3, EntryIs
  <1> QED
    BY <1>1, MadeSeq DEF HydroEntries, Days

LEMMA FaultSlotOk ==
  ASSUME NEW ev, NEW addr, NEW access
  PROVE  Emitted(FaultSlot(ev, addr, access))
  BY AtBuilt DEF FaultSlot, Emitted, Built, BuiltPlatforms, Blank

LEMMA FaultWords ==
  ASSUME NEW i, NEW tag
  PROVE  SeedOk(Tagged(FaultWord(i), tag))
  <1>1. SeedOk(FaultWord(i))
    BY SeedWords DEF FaultWord
  <1> QED
    BY <1>1, SeedAppend DEF Tagged, SeedOk

LEMMA RpcRecordsOk ==
  ASSUME NEW ev, NEW records, records[1] \in Nat
  PROVE  /\ IsSeq(RpcRecordEntries(ev, records))
         /\ \A i \in DOMAIN RpcRecordEntries(ev, records) :
              EntryOk(RpcRecordEntries(ev, records)[i])
  <1>1. ASSUME NEW i \in 1..records[1] PROVE EntryOk(RpcRecordEntries(ev, records)[i])
    <2> DEFINE e == [At(ev) EXCEPT !.platform = "text_sensor", !.kind = "raw", !.access = "rpc",
                                   !.prefix = <<i - 1>>, !.length = records[2], !.poll = "error"]
               seed == Tagged(FaultWord(i), ev.tag)
    <2>1. RpcRecordEntries(ev, records)[i] = Entry(e, seed)
      BY DEF RpcRecordEntries
    <2>2. Emitted(e)
      BY AtBuilt DEF Emitted, Built, BuiltPlatforms, Blank
    <2>3. SeedOk(seed)
      BY FaultWords
    <2> HIDE DEF e, seed
    <2> QED
      BY <2>1, <2>2, <2>3, EntryIs
  <1>2. IsSeq(RpcRecordEntries(ev, records)) /\ DOMAIN RpcRecordEntries(ev, records) = 1..records[1]
    BY SeqIs DEF RpcRecordEntries
  <1> QED
    BY <1>1, <1>2

LEMMA ErrorHistoryOk ==
  ASSUME NEW ev, RowOk(ev), NEW access, NEW protocol
  PROVE  LET slots == ErrorHistoryEntries(ev, access, protocol) IN
         IsSeq(slots) /\ \A i \in DOMAIN slots : EntryOk(slots[i])
  <1> DEFINE records == RpcArrayRecords(ev, protocol)
             shape == SlotShape(ev)
             slots == ErrorHistoryEntries(ev, access, protocol)
             single == [Entry(FaultSlot(ev, ev.addr, access), <<ev.tag, "fehler", ToString(ev.slot)>>)
                          EXCEPT !.map = IF ev.tag = BurnerControl THEN "gfa" ELSE ""]
             many == [i \in 1..shape[1] |->
                        [Entry(FaultSlot(ev, ev.addr + (i - 1) * shape[2], access),
                               Tagged(FaultWord(i), ev.tag)) EXCEPT !.map = "system"]]
  <1>1. records # <<>> => records[1] \in Nat
    BY DEF RpcArrayRecords, RowOk
  <1>2. shape[1] \in Nat
    BY DEF SlotShape, RowOk
  <1>3. EntryOk(single)
    BY FaultSlotOk, SeedWords, EntryIs
  <1>4. \A i \in DOMAIN many : EntryOk(many[i])
    <2> SUFFICES ASSUME NEW i \in 1..shape[1] PROVE EntryOk(many[i])
      OBVIOUS
    <2>1. many[i] = [Entry(FaultSlot(ev, ev.addr + (i - 1) * shape[2], access),
                           Tagged(FaultWord(i), ev.tag)) EXCEPT !.map = "system"]
      OBVIOUS
    <2> QED
      BY <2>1, FaultSlotOk, FaultWords, EntryIs
  <1>5. slots = IF records # <<>> THEN RpcRecordEntries(ev, records)
                ELSE IF IsSlot(ev) THEN <<single>> ELSE many
    BY DEF ErrorHistoryEntries
  <1>6. IsSeq(<<single>>) /\ \A i \in DOMAIN <<single>> : EntryOk(<<single>>[i])
    <2> HIDE DEF single
    <2> QED
      BY <1>3, SingleIs
  <1>7. IsSeq(many)
    BY <1>2, MadeSeq
  <1> HIDE DEF records, single, many
  <1> QED
    BY <1>1, <1>4, <1>5, <1>6, <1>7, RpcRecordsOk

LEMMA WithCodesOk ==
  ASSUME NEW entry, EntryOk(entry), NEW systemCodes, NEW gfaCodes
  PROVE  EntryOk(WithCodes(entry, systemCodes, gfaCodes))
  BY DEF WithCodes, EntryOk, Emitted, Blank

----------------------------------------------------------------------------
\* Every branch of the loop keeps it.

GenInv ==
  /\ JobOk(job)
  /\ IsSeq(todo) /\ \A i \in DOMAIN todo : RowOk(todo[i]) /\ todo[i] \in ToSet(job.rows)
  /\ GenOk(gen)

LEMMA FreshOk == GenOk(Fresh)
  <1>1. IdsKnown(Fresh)
    BY EmptyIs, FS_EmptySet DEF Fresh, IdsKnown, IdsApart
  <1> QED
    BY <1>1, EmptyIs DEF GenOk, Fresh

LEMMA DeviceIdOk == Emitted(DeviceId)
  BY DEF DeviceId, Emitted, BuiltPlatforms, AtMostOne, Blank

LEMMA InitGen ==
  ASSUME NEW j, JobOk(j), Init(j)
  PROVE  GenInv
  <1>1. GenOk(Begin(job))
    <2>1. SeedOk(<<"device_type">>)
      BY SeedWords
    <2>2. ChunkOk(Piece(DeviceId, <<"device_type">>, 0))
      BY DeviceIdOk, PieceOk
    <2> QED
      BY <2>1, <2>2, FreshOk, AddChunkKeeps DEF Begin
  <1>2. IsSeq(job.rows) /\ \A i \in DOMAIN job.rows : RowOk(job.rows[i])
    BY DEF Init, JobOk, AllOf
  <1> QED
    BY <1>1, <1>2, ByAddressKeeps DEF Init, GenInv

LEMMA RowIsOk ==
  ASSUME GenInv, todo # <<>>
  PROVE  /\ RowOk(Row) /\ Row \in ToSet(job.rows)
         /\ IsSeq(Tail(todo))
         /\ \A i \in DOMAIN Tail(todo) : RowOk(Tail(todo)[i]) /\ Tail(todo)[i] \in ToSet(job.rows)
  BY TailIs DEF GenInv, Row

LEMMA TakeKeeps ==
  ASSUME GenInv, NEW branch, NEW g, GenOk(g), Take(branch, g)
  PROVE  GenInv'
  <1>1. job' = job /\ gen' = g /\ todo' = Tail(todo) /\ todo # <<>>
    BY DEF Take
  <1>2. GenOk(g)'
    BY <1>1 DEF GenOk, ChunkOk, Of
  <1> QED
    BY <1>1, <1>2, RowIsOk DEF GenInv

LEMMA GenStep == GenInv /\ [Next]_vars => GenInv'
  <1> SUFFICES ASSUME GenInv, [Next]_vars PROVE GenInv'
    OBVIOUS
  <1>0. GenOk(gen) /\ JobOk(job)
    BY DEF GenInv
  <1>1. CASE SkipIdentification
    BY <1>0, <1>1, TakeKeeps DEF SkipIdentification
  <1>2. CASE DropWideAddress
    BY <1>0, <1>2, TakeKeeps DEF DropWideAddress
  <1>3. CASE DeferHistory
    <2>1. todo # <<>>
      BY <1>3 DEF DeferHistory, Take
    <2> DEFINE added == [gen EXCEPT !.deferred = Append(@, Row)]
    <2>2. GenOk(added)
      <3>1. /\ DOMAIN added = DOMAIN gen /\ added.chunks = gen.chunks
            /\ added.deferred = Append(gen.deferred, Row) /\ added.usedIds = gen.usedIds
        BY <1>0 DEF GenOk, Fresh, IdsKnown
      <3>2. IsSeq(gen.deferred) /\ DOMAIN gen.deferred = 1..Len(gen.deferred)
            /\ Len(gen.deferred) \in Nat
        BY <1>0, SeqLen DEF GenOk
      <3>3. RowOk(Row)
        BY <2>1, RowIsOk
      <3> HIDE DEF added
      <3>4. IsSeq(added.deferred) /\ \A i \in DOMAIN added.deferred : RowOk(added.deferred[i])
        BY <1>0, <3>1, <3>2, <3>3, AppendIs DEF GenOk
      <3> QED
        BY <1>0, <3>1, <3>4 DEF GenOk, IdsKnown
    <2> HIDE DEF added
    <2>3. \E g : GenOk(g) /\ Take("history", g)
      BY <1>0, <1>3, <2>2 DEF DeferHistory, added
    <2> QED
      BY <2>3, TakeKeeps
  <1>4. CASE FanOutSchaltzeiten
    <2>1. RowOk(Row)
      BY <1>4, RowIsOk DEF FanOutSchaltzeiten, Take
    <2>2. GenOk(AddDays(gen, Row, SchaltzeitenEntries(Row, AccessFor(Row, job.protocol))))
      BY <1>0, <2>1, AddDaysKeeps, SchaltzeitenOk DEF RowOk
    <2>3. \E g : GenOk(g) /\ Take("schaltzeiten", g)
      BY <1>0, <1>4, <2>2 DEF FanOutSchaltzeiten
    <2> QED
      BY <2>3, TakeKeeps
  <1>5. CASE FanOutHydro
    <2>1. RowOk(Row)
      BY <1>5, RowIsOk DEF FanOutHydro, Take
    <2>2. GenOk(AddDays(gen, Row, HydroEntries(Row, AccessFor(Row, job.protocol))))
      BY <1>0, <2>1, AddDaysKeeps, HydroOk DEF RowOk
    <2>3. \E g : GenOk(g) /\ Take("hydro", g)
      BY <1>0, <1>5, <2>2 DEF FanOutHydro
    <2> QED
      BY <2>3, TakeKeeps
  <1>6. CASE EmitAction
    <2> DEFINE prefix == RpcActionParameter(Row)
               button == [At(Row) EXCEPT !.platform = "button", !.kind = "action",
                                         !.access = "rpc", !.prefix = prefix]
               piece == Piece(button, Row.name, Row.group)
               emitted == AddChunk(gen, piece, Row.tech)
               after == [emitted EXCEPT !.actions = @ \cup {<<Row.addr, prefix>>}]
    <2>1. RowOk(Row)
      BY <1>6, RowIsOk DEF EmitAction, Take
    <2>2. Emitted(button)
      BY AtBuilt DEF Emitted, Built, Blank
    <2>3. ChunkOk(piece)
      BY <2>1, <2>2, PieceOk DEF RowOk
    <2> HIDE DEF piece
    <2>4. GenOk(emitted)
      <3>1. SeedOk(Row.tech)
        BY <2>1 DEF RowOk, SeedOk
      <3> QED
        BY <1>0, <2>3, <3>1, AddChunkKeeps
    <2> HIDE DEF emitted
    <2>5. GenOk(after)
      BY <2>4 DEF GenOk, Fresh, IdsKnown
    <2> HIDE DEF after
    <2>6. Take("action", gen) \/ Take("action", after)
      BY <1>6 DEF EmitAction, after, emitted, piece
    <2> QED
      BY <1>0, <2>5, <2>6, TakeKeeps
  <1>7. CASE EmitEntity
    <2> DEFINE access == AccessFor(Row, job.protocol)
               spec == Of(Row)
               entity == [spec EXCEPT !.access = access,
                                      !.prefix = IF access = "rpc" THEN Row.prefixRead ELSE <<>>]
               piece == [Piece(entity, Row.name, Row.group) EXCEPT !.row = <<Row>>]
               emitted == AddReal(gen, piece, Row.tech)
               after == [emitted EXCEPT !.seen = @ \cup {FieldKey(Row)}]
    <2>1. RowOk(Row) /\ Row \in ToSet(job.rows)
      BY <1>7, RowIsOk DEF EmitEntity, Take
    <2>2. Built(spec)
      BY EntityBuilt DEF Of
    <2>3. spec.platform # "comment" => ChunkOk(piece)
      <3> HIDE DEF spec
      <3>1. spec.platform # "comment" => Emitted(entity)
        BY <2>2 DEF Emitted, Built, BuiltPlatforms, Blank
      <3>2. /\ entity = [spec EXCEPT !.access = entity.access, !.prefix = entity.prefix]
            /\ spec = Of(Row) /\ entity.access = access
        BY <2>2 DEF Built, Blank, spec
      <3> HIDE DEF entity
      <3> QED
        BY <2>1, <3>1, <3>2 DEF ChunkOk, Piece, RowOk
    <2> HIDE DEF piece
    <2>4. spec.platform # "comment" => GenOk(emitted)
      <3>1. SeedOk(Row.tech)
        BY <2>1 DEF RowOk, SeedOk
      <3> QED
        BY <1>0, <2>3, <3>1, AddRealKeeps
    <2> HIDE DEF emitted
    <2>5. spec.platform # "comment" => GenOk(after)
      BY <2>4 DEF GenOk, Fresh, IdsKnown
    <2> HIDE DEF after
    <2>6. Take("datapoint", gen) \/ (spec.platform # "comment" /\ Take("datapoint", after))
      BY <1>7 DEF EmitEntity, after, emitted, piece, Of
    <2> QED
      BY <1>0, <2>5, <2>6, TakeKeeps
  <1>8. CASE EmitHistory
    <2> DEFINE ev == Head(gen.deferred)
               rest == [gen EXCEPT !.deferred = Tail(@)]
               slots == ErrorHistoryEntries(ev, AccessFor(ev, job.protocol), job.protocol)
               codes == ResolveFaultCodes(job.faults, job.codeSet)
               gfaCodes == IF job.codeSet = "none" THEN {}
                           ELSE ResolveGfaCodes(job.faults, job.chip)
               entries == [i \in DOMAIN slots |-> WithCodes(slots[i], codes, gfaCodes)]
    <2>1. gen.deferred # <<>> /\ job' = job /\ todo' = todo
      BY <1>8 DEF EmitHistory
    <2>2. /\ RowOk(ev) /\ IsSeq(Tail(gen.deferred))
          /\ \A i \in DOMAIN Tail(gen.deferred) : RowOk(Tail(gen.deferred)[i])
      BY <1>0, <2>1, TailIs DEF GenOk
    <2>3. GenOk(rest)
      BY <1>0, <2>2 DEF GenOk, Fresh, IdsKnown
    <2>4. IsSeq(slots) /\ \A i \in DOMAIN slots : EntryOk(slots[i])
      BY <2>2, ErrorHistoryOk
    <2> HIDE DEF slots, ev, rest, codes, gfaCodes
    <2>5. IsSeq(entries) /\ \A i \in DOMAIN entries : EntryOk(entries[i])
      BY <2>4, SeqIs, WithCodesOk
    <2> HIDE DEF entries
    <2>6. GenOk(AddSlots(rest, entries, ev))
      BY <2>2, <2>3, <2>5, AddSlotsKeeps DEF RowOk
    <2>7. gen' = rest \/ gen' = AddSlots(rest, entries, ev)
      BY <1>8 DEF EmitHistory, rest, entries, slots, codes, gfaCodes, ev
    <2>8. GenOk(gen')
      BY <2>3, <2>6, <2>7
    <2> QED
      BY <1>0, <2>1, <2>8 DEF GenInv, GenOk, ChunkOk, Of
  <1>9. CASE UNCHANGED <<job, todo, gen>>
    BY <1>9 DEF GenInv, GenOk, ChunkOk, Of
  <1> QED
    BY <1>1, <1>2, <1>3, <1>4, <1>5, <1>6, <1>7, <1>8, <1>9
       DEF Next, vars, RowsDone, WritePackage, LoadConfiguration, ToCodeEntity, SetUp

----------------------------------------------------------------------------
\* The package: every chunk once, in another order.

PackageOf(chunks) ==
  LET lines == ShareCodes(InOutputOrder(MakeNamesUnique(chunks)))
  IN [n \in DOMAIN lines |-> [lines[n] EXCEPT !.chunk.entity = Rendered(@)]]

ChunksOk(chunks) == IsSeq(chunks) /\ \A i \in DOMAIN chunks : ChunkOk(chunks[i])

\* A chunk up to its name.
SameChunk(c, d) ==
  /\ DOMAIN c = DOMAIN d
  /\ c.entity = d.entity /\ c.group = d.group /\ c.id = d.id /\ c.row = d.row

LEMMA SameOk == ASSUME NEW c, NEW d, ChunkOk(d), SameChunk(c, d) PROVE ChunkOk(c)
  BY DEF ChunkOk, SameChunk

LEMMA NamesKeep ==
  ASSUME NEW chunks, ChunksOk(chunks)
  PROVE  LET named == MakeNamesUnique(chunks) IN
         /\ IsSeq(named) /\ DOMAIN named = DOMAIN chunks
         /\ \A i \in DOMAIN chunks : SameChunk(named[i], chunks[i])
  <1> DEFINE named == MakeNamesUnique(chunks)
  <1>1. DOMAIN named = DOMAIN chunks /\ named = [i \in DOMAIN chunks |-> named[i]]
    BY DEF MakeNamesUnique
  <1>2. ASSUME NEW i \in DOMAIN chunks PROVE SameChunk(named[i], chunks[i])
    <2>1. \/ named[i] = chunks[i]
          \/ named[i] = [chunks[i] EXCEPT !.name = @ \o <<"(">> \o chunks[i].id \o <<")">>]
      BY DEF MakeNamesUnique
    <2> HIDE DEF named
    <2> QED
      BY <2>1 DEF SameChunk, ChunksOk, ChunkOk
  <1> HIDE DEF named
  <1>3. IsSeq(named)
    BY <1>1, SeqIs DEF ChunksOk
  <1> QED
    BY <1>1, <1>2, <1>3 DEF named

LEMMA RankIs ==
  ASSUME NEW e, Emitted(e)
  PROVE  (CHOOSE k \in DOMAIN PlatformOrder : PlatformOrder[k] = e.platform) \in Nat
  <1>1. DOMAIN PlatformOrder = 1..8
    BY DEF PlatformOrder
  <1>2. \E k \in DOMAIN PlatformOrder : PlatformOrder[k] = e.platform
    <2>1. e.platform \in {"sensor", "binary_sensor", "number", "select", "switch", "text",
                          "text_sensor", "button"}
      BY DEF Emitted, BuiltPlatforms
    <2> QED
      BY <2>1 DEF PlatformOrder
  <1> QED
    BY <1>1, <1>2

LEMMA OrderKeeps ==
  ASSUME NEW chunks, ChunksOk(chunks)
  PROVE  \E p \in Injection(DOMAIN chunks, DOMAIN chunks) :
           InOutputOrder(chunks) = [n \in DOMAIN chunks |-> chunks[p[n]]]
  <1> DEFINE rank(c) == CHOOSE k \in DOMAIN PlatformOrder : PlatformOrder[k] = c.entity.platform
             group(c) == IF job.byGroup THEN c.group ELSE 0
             comes(j, i) ==
               LET a == chunks[j] b == chunks[i] IN
               \/ rank(a) < rank(b)
               \/ rank(a) = rank(b) /\ (group(a) < group(b) \/ (group(a) = group(b) /\ j < i))
             before == [i \in DOMAIN chunks |-> {j \in DOMAIN chunks : comes(j, i)}]
  <1>1. \A i \in DOMAIN chunks : i \in Nat /\ rank(chunks[i]) \in Nat /\ group(chunks[i]) \in Nat
    <2> SUFFICES ASSUME NEW i \in DOMAIN chunks
                 PROVE  i \in Nat /\ rank(chunks[i]) \in Nat /\ group(chunks[i]) \in Nat
      OBVIOUS
    <2>0. DOMAIN chunks = 1..Len(chunks) /\ Len(chunks) \in Nat
      BY SeqLen DEF ChunksOk
    <2>1. i \in Nat /\ Emitted(chunks[i].entity) /\ chunks[i].group \in Nat
      <3>1. ChunkOk(chunks[i])
        BY DEF ChunksOk
      <3> QED
        BY <2>0, <3>1 DEF ChunkOk
    <2>2. rank(chunks[i]) \in Nat
      BY <2>1, RankIs
    <2> QED
      BY <2>1, <2>2
  <1>2. InOutputOrder(chunks) = InOrder(chunks, before)
    BY DEF InOutputOrder
  <1> HIDE DEF rank, group
  <1>3. TotalOrder(chunks, before)
    BY <1>1 DEF TotalOrder
  <1> HIDE DEF before
  <1> QED
    BY <1>2, <1>3, InOrderPermutes DEF ChunksOk

RenderedLine(l) == [l EXCEPT !.chunk.entity = Rendered(@)]

\* A line stands for one chunk; CodesShared below says where the codes are.
LineOf(l, c) ==
  /\ DOMAIN l = {"chunk", "anchor", "alias"} /\ DOMAIN l.chunk = DOMAIN c
  /\ l.chunk.id = c.id /\ l.chunk.row = c.row
  /\ \E codes : /\ l.chunk.entity = Rendered([c.entity EXCEPT !.codes = codes])
                /\ c.entity.codes = {} => codes = {} /\ l.alias = NoMark

LEMMA ShareKeeps ==
  ASSUME NEW chunks, ChunksOk(chunks)
  PROVE  LET lines == ShareCodes(chunks)
             out == [n \in DOMAIN lines |-> RenderedLine(lines[n])]
         IN /\ IsSeq(out) /\ DOMAIN out = DOMAIN chunks
            /\ \A n \in DOMAIN chunks : LineOf(out[n], chunks[n])
  <1> DEFINE lines == ShareCodes(chunks)
             out == [n \in DOMAIN lines |-> RenderedLine(lines[n])]
  <1>1. DOMAIN lines = DOMAIN chunks
    BY DEF ShareCodes
  <1>2. ASSUME NEW n \in DOMAIN chunks PROVE LineOf(RenderedLine(lines[n]), chunks[n])
    <2> DEFINE codes == chunks[n].entity.codes
               first == CHOOSE m \in 1..n : /\ chunks[m].entity.codes = codes
                                            /\ \A k \in 1..m - 1 : chunks[k].entity.codes # codes
               kept == IF first = n THEN codes ELSE {}
               c == [chunks[n] EXCEPT !.entity.codes = kept]
               e == [chunks[n].entity EXCEPT !.codes = kept]
               alias == IF codes # {} /\ first # n THEN chunks[first].id ELSE NoMark
               anchor == IF codes # {} /\ first = n THEN chunks[n].id ELSE NoMark
    <2>1. lines[n] = [chunk |-> c, anchor |-> anchor, alias |-> alias]
      BY DEF ShareCodes
    <2>2. codes = {} => kept = {} /\ alias = NoMark
      OBVIOUS
    <2>3. ChunkOk(chunks[n])
      BY DEF ChunksOk
    <2> HIDE DEF first, anchor
    <2>4. /\ DOMAIN c = DOMAIN chunks[n] /\ c.entity = e
          /\ c.id = chunks[n].id /\ c.row = chunks[n].row
      BY <2>3 DEF ChunkOk
    <2> HIDE DEF c, e, kept, alias
    <2>5. /\ DOMAIN RenderedLine(lines[n]) = {"chunk", "anchor", "alias"}
          /\ RenderedLine(lines[n]).alias = alias
          /\ RenderedLine(lines[n]).chunk = [c EXCEPT !.entity = Rendered(@)]
      BY <2>1 DEF RenderedLine
    <2>6. /\ DOMAIN RenderedLine(lines[n]).chunk = DOMAIN chunks[n]
          /\ RenderedLine(lines[n]).chunk.entity = Rendered(e)
          /\ RenderedLine(lines[n]).chunk.id = chunks[n].id
          /\ RenderedLine(lines[n]).chunk.row = chunks[n].row
      BY <2>3, <2>4, <2>5 DEF ChunkOk
    <2> QED
      BY <2>2, <2>5, <2>6 DEF LineOf, e
  <1> HIDE DEF lines
  <1>3. IsSeq(out) /\ DOMAIN out = DOMAIN chunks
    BY <1>1, SeqIs DEF ChunksOk
  <1> QED
    BY <1>1, <1>2, <1>3 DEF lines

Packaged(lines, chunks) ==
  /\ IsSeq(lines) /\ DOMAIN lines = DOMAIN chunks
  /\ \E p \in Injection(DOMAIN chunks, DOMAIN chunks) :
       \A n \in DOMAIN chunks : LineOf(lines[n], chunks[p[n]])

LEMMA PackageKeeps ==
  ASSUME NEW chunks, ChunksOk(chunks)
  PROVE  Packaged(PackageOf(chunks), chunks)
  <1> DEFINE named == MakeNamesUnique(chunks)
             sorted == InOutputOrder(named)
  <1>1. /\ IsSeq(named) /\ DOMAIN named = DOMAIN chunks
        /\ \A i \in DOMAIN chunks : SameChunk(named[i], chunks[i])
    BY NamesKeep
  <1>2. ChunksOk(named)
    BY <1>1, SameOk DEF ChunksOk
  <1>3. PICK p \in Injection(DOMAIN chunks, DOMAIN chunks) :
          sorted = [n \in DOMAIN chunks |-> named[p[n]]]
    BY <1>1, <1>2, OrderKeeps
  <1>4. ChunksOk(sorted) /\ DOMAIN sorted = DOMAIN chunks
    <2>1. IsSeq(sorted)
      BY <1>1, <1>3, SeqIs
    <2> QED
      BY <1>1, <1>2, <1>3, <2>1 DEF ChunksOk, Injection
  <1> HIDE DEF named
  <1>5. PackageOf(chunks) = [n \in DOMAIN ShareCodes(sorted) |-> RenderedLine(ShareCodes(sorted)[n])]
    BY DEF PackageOf, RenderedLine, named
  <1> HIDE DEF sorted
  <1>6. /\ IsSeq(PackageOf(chunks)) /\ DOMAIN PackageOf(chunks) = DOMAIN chunks
        /\ \A n \in DOMAIN chunks : LineOf(PackageOf(chunks)[n], sorted[n])
    BY <1>4, <1>5, ShareKeeps
  <1>7. \A n \in DOMAIN chunks : p[n] \in DOMAIN chunks /\ SameChunk(sorted[n], chunks[p[n]])
    BY <1>1, <1>3 DEF Injection
  <1>8. \A n \in DOMAIN chunks : LineOf(PackageOf(chunks)[n], chunks[p[n]])
    <2> SUFFICES ASSUME NEW n \in DOMAIN chunks, NEW l, NEW c, LineOf(l, sorted[n]),
                        SameChunk(sorted[n], c)
                 PROVE  LineOf(l, c)
      BY <1>6, <1>7
    <2> QED
      BY DEF LineOf, SameChunk
  <1> QED
    BY <1>6, <1>8 DEF Packaged

----------------------------------------------------------------------------
\* The configuration: what the code generation is handed.

OutInv == stage = "written" => Packaged(output, gen.chunks)

LEMMA EmittedOk == ASSUME NEW e, Emitted(e) PROVE EntityOk(e)
  BY DEF Emitted, EntityOk, BuiltPlatforms, EntityDomains, AddressDomains, AccessDomains,
         ReadDomains, WriteDomains

LEMMA LineEmits ==
  ASSUME NEW l, NEW c, ChunkOk(c), LineOf(l, c)
  PROVE  Emitted(l.chunk.entity)
  BY DEF LineOf, ChunkOk, Emitted, Rendered, Blank

LEMMA PackageEmits ==
  ASSUME NEW chunks, ChunksOk(chunks), NEW lines, Packaged(lines, chunks)
  PROVE  /\ IsSeq(FromPackage(lines))
         /\ \A n \in DOMAIN FromPackage(lines) : Emitted(FromPackage(lines)[n])
  <1>1. IsSeq(lines) /\ DOMAIN lines = DOMAIN chunks
    BY DEF Packaged
  <1>2. \A n \in DOMAIN lines : Emitted(lines[n].chunk.entity)
    <2>1. PICK p \in Injection(DOMAIN chunks, DOMAIN chunks) :
            \A n \in DOMAIN chunks : LineOf(lines[n], chunks[p[n]])
      BY DEF Packaged
    <2>2. \A n \in DOMAIN chunks : p[n] \in DOMAIN chunks
      BY DEF Injection
    <2> QED
      BY <1>1, <2>1, <2>2, LineEmits DEF ChunksOk
  <1>3. \A n \in DOMAIN lines : Emitted(LoadedEntity(lines, n))
    BY <1>2 DEF LoadedEntity, Emitted, Blank
  <1>4. ASSUME NEW e, Emitted(e), NEW id, NEW companions PROVE Emitted(Extended(e, id, companions))
    BY <1>4 DEF Extended, Emitted, Blank
  <1>5. DOMAIN FromPackage(lines) = DOMAIN lines
        /\ \A n \in DOMAIN lines : Emitted(FromPackage(lines)[n])
    BY <1>3, <1>4 DEF FromPackage
  <1>6. IsSeq(FromPackage(lines))
    BY <1>1, SeqIs DEF FromPackage
  <1> QED
    BY <1>5, <1>6

\* The configuration before it is judged: well formed throughout.
LEMMA WholeOk ==
  ASSUME GenInv, OutInv, stage = "written"
  PROVE  LET whole == FromPackage(output) \o job.byHand IN
         IsSeq(whole) /\ \A n \in DOMAIN whole : EntityOk(whole[n])
  <1>1. /\ IsSeq(FromPackage(output))
        /\ \A n \in DOMAIN FromPackage(output) : EntityOk(FromPackage(output)[n])
    BY PackageEmits, EmittedOk DEF GenInv, OutInv, GenOk, ChunksOk
  <1>2. IsSeq(job.byHand) /\ \A n \in DOMAIN job.byHand : EntityOk(job.byHand[n])
    BY DEF GenInv, JobOk, AllOf
  <1> QED
    BY <1>1, <1>2, ConcatIs

\* What the whole configuration's validation says of each of its entities.
Admitted(e) ==
  LET protocol == Protocols[job.hub.protocol] IN
  /\ EntityOk(e) /\ SchemaOk(e)
  /\ AccessSpaceOk(e, protocol) /\ (protocol = "GWG" => GwgOk(e))
EntInv == Accepted => IsSeq(entities) /\ \A n \in DOMAIN entities : Admitted(entities[n])

ConfigInv == GenInv /\ OutInv /\ EntInv

LEMMA InitConfig ==
  ASSUME NEW j, JobOk(j), Init(j)
  PROVE  ConfigInv
  BY InitGen DEF Init, ConfigInv, OutInv, EntInv, Accepted

LEMMA ElementOf == ASSUME NEW s, NEW i \in DOMAIN s PROVE s[i] \in ToSet(s)
  BY DEF ToSet

LEMMA LoadAdmits ==
  ASSUME ConfigInv, LoadConfiguration
  PROVE  EntInv'
  <1> DEFINE whole == FromPackage(output) \o job.byHand
             ok == AliasesResolve(output) /\ NamedApart(output) /\ Valid(whole)
  <1>1. IsSeq(whole) /\ \A n \in DOMAIN whole : EntityOk(whole[n])
    BY WholeOk DEF ConfigInv, LoadConfiguration
  <1>2. job' = job /\ stage' = (IF ok THEN "accepted" ELSE "refused")
        /\ entities' = IF ok THEN whole ELSE <<>>
    BY DEF LoadConfiguration
  <1> HIDE DEF whole
  <1>3. ASSUME ok, NEW n \in DOMAIN whole PROVE Admitted(whole[n])
    BY <1>1, <1>3, ElementOf DEF Valid, FinalOk, Admitted
  <1> QED
    BY <1>1, <1>2, <1>3 DEF EntInv, Accepted, Admitted

LEMMA ConfigStep == ConfigInv /\ [Next]_vars => ConfigInv'
  <1> SUFFICES ASSUME ConfigInv, [Next]_vars PROVE ConfigInv'
    OBVIOUS
  <1>1. GenInv'
    BY GenStep DEF ConfigInv
  <1>2. OutInv'
    <2>1. CASE WritePackage
      <3>1. output' = PackageOf(gen.chunks) /\ gen' = gen
        BY <2>1 DEF WritePackage, PackageOf
      <3>2. ChunksOk(gen.chunks)
        BY DEF ConfigInv, GenInv, GenOk, ChunksOk
      <3> QED
        BY <3>1, <3>2, PackageKeeps DEF OutInv
    <2>2. CASE stage' # "written"
      BY <2>2 DEF OutInv
    <2>3. CASE UNCHANGED <<job, gen, output, stage>>
      BY <2>3 DEF ConfigInv, OutInv
    <2> QED
      BY <2>1, <2>2, <2>3
         DEF Next, vars, Take, SkipIdentification, DropWideAddress, DeferHistory,
             FanOutSchaltzeiten, FanOutHydro, EmitAction, EmitEntity, RowsDone, EmitHistory,
             LoadConfiguration, ToCodeEntity, SetUp
  <1>3. EntInv'
    <2>1. CASE LoadConfiguration
      BY <2>1, LoadAdmits
    <2>2. CASE ToCodeEntity
      <3>1. /\ IsSeq(Tail(entities))
            /\ \A i \in DOMAIN Tail(entities) : Tail(entities)[i] = entities[i + 1] /\ i + 1 \in DOMAIN entities
        BY <2>2, TailIs DEF ToCodeEntity, ConfigInv, EntInv, Accepted
      <3>2. entities' = Tail(entities) /\ job' = job
        BY <2>2 DEF ToCodeEntity
      <3> QED
        BY <2>2, <3>1, <3>2 DEF ToCodeEntity, ConfigInv, EntInv, Accepted, Admitted
    <2>3. CASE ~Accepted'
      BY <2>3 DEF EntInv
    <2>4. CASE UNCHANGED <<job, entities>> /\ Accepted
      BY <2>4 DEF ConfigInv, EntInv, Admitted
    <2> QED
      BY <2>1, <2>2, <2>3, <2>4
         DEF Next, vars, Take, SkipIdentification, DropWideAddress, DeferHistory, Accepted,
             FanOutSchaltzeiten, FanOutHydro, EmitAction, EmitEntity, RowsDone, EmitHistory,
             WritePackage, SetUp
  <1> QED
    BY <1>1, <1>2, <1>3 DEF ConfigInv

----------------------------------------------------------------------------
\* What the hub sends for an entity, and what the validation has looked at.

LEMMA DefaultsKeep ==
  ASSUME NEW e, DOMAIN e = DOMAIN Blank
  PROVE  LET d == Defaults(e) IN
         /\ d.platform = e.platform /\ d.kind = e.kind /\ d.addr = e.addr
         /\ d.access = e.access /\ d.state = e.state /\ d.prefix = e.prefix
  BY DEF Defaults, Blank

\* The channel of an entity that is no thermostat: its space, and addresses of its own.
LEMMA OneChannel ==
  ASSUME NEW e, EntityOk(e), e.platform # "climate", NEW c \in ToSet(Channels(e))
  PROVE  /\ e.kind \notin HubFed /\ c.access = e.access
         /\ \A t \in {c.read} \cup ToSet(c.write) : t.addr \in {e.addr} \cup ToSet(e.state)
         /\ c.write # <<>> => e.platform \in WriteDomains \cup {"button"}
  <1> DEFINE d == Defaults(e)
             wires == d.platform \in WriteDomains \cup {"button"}
             written == IF ~wires THEN <<>>
                        ELSE IF WriteTelegram(d) = <<>> THEN <<ReadTelegram(d)>> ELSE WriteTelegram(d)
  <1>1. /\ d.platform = e.platform /\ d.kind = e.kind /\ d.addr = e.addr
        /\ d.access = e.access /\ d.state = e.state
    BY DefaultsKeep DEF EntityOk
  <1> HIDE DEF d
  <1>2. d.kind \notin HubFed /\ c = Channel(ReadTelegram(d), written, d.access)
    <2>1. Channels(e) = IF d.kind \in HubFed THEN <<>>
                        ELSE <<Channel(ReadTelegram(d), written, d.access)>>
      BY DEF Channels, d
    <2> HIDE DEF written
    <2> QED
      BY <2>1, SingleIs, EmptyIs DEF ToSet
  <1>3. ReadTelegram(d).addr \in {e.addr} \cup ToSet(e.state)
    <2>1. e.state # <<>> => e.state[1] \in ToSet(e.state)
      BY SingleIs DEF EntityOk, AtMostOne, ToSet
    <2> QED
      BY <1>1, <2>1 DEF ReadTelegram, Telegram
  <1>4. WriteTelegram(d) = <<>> \/ \E t : WriteTelegram(d) = <<t>> /\ t.addr = e.addr
    BY <1>1 DEF WriteTelegram, Telegram
  <1>5. \A t \in ToSet(written) : t.addr \in {e.addr} \cup ToSet(e.state)
    BY <1>3, <1>4, SingleIs, EmptyIs DEF ToSet
  <1> QED
    BY <1>1, <1>2, <1>3, <1>5 DEF Channel

LEMMA ThermostatChannel ==
  ASSUME NEW e, ThermostatOk(e), e.platform = "climate", NEW c \in ToSet(Channels(e))
  PROVE  \E slot \in {e} \cup ToSet(e.mode) :
           /\ c.access = slot.access
           /\ \A t \in {c.read} \cup ToSet(c.write) : t.addr \in {slot.addr} \cup ToSet(slot.state)
  <1> DEFINE modes == [i \in DOMAIN e.mode |-> ClimateChannel(e.mode[i])]
  <1>1. \E slot \in {e} \cup ToSet(e.mode) : c = ClimateChannel(slot)
    <2>1. Channels(e) = <<ClimateChannel(e)>> \o modes
      BY DEF Channels
    <2>2. IsSeq(e.mode)
      BY SingleIs, EmptyIs DEF ThermostatOk, AtMostOne
    <2>3. IsSeq(modes)
      BY <2>2, SeqIs
    <2>4. PICK i \in DOMAIN Channels(e) : c = Channels(e)[i]
      BY DEF ToSet
    <2> DEFINE own == ClimateChannel(e)
    <2>5. c = own \/ \E k \in DOMAIN modes : c = modes[k]
      <3> HIDE DEF own, modes
      <3>1. IsSeq(<<own>>) /\ DOMAIN <<own>> = {1} /\ <<own>>[1] = own
        BY SingleIs
      <3>2. \/ i \in DOMAIN <<own>> /\ c = <<own>>[i]
            \/ i - Len(<<own>>) \in DOMAIN modes /\ c = modes[i - Len(<<own>>)]
        BY <2>1, <2>3, <2>4, <3>1, ConcatIs DEF own
      <3> QED
        BY <3>1, <3>2
    <2> QED
      BY <2>5, ElementOf
  <1>2. PICK slot \in {e} \cup ToSet(e.mode) : c = ClimateChannel(slot)
    BY <1>1
  <1>3. slot.state # <<>> => slot.state[1] \in ToSet(slot.state)
    <2>1. AtMostOne(slot.state)
      BY DEF ThermostatOk
    <2> QED
      BY <2>1, SingleIs DEF AtMostOne, ToSet
  <1>4. c.access = slot.access /\ c.read.addr \in {slot.addr} \cup ToSet(slot.state)
    BY <1>2, <1>3 DEF ClimateChannel, Channel, Telegram
  <1>5. \A t \in ToSet(c.write) : t.addr = slot.addr
    BY <1>2, SingleIs DEF ClimateChannel, Channel, Telegram, ToSet
  <1> QED
    BY <1>4, <1>5

ChannelOk(c, protocol) ==
  /\ protocol = "GWG" => \A t \in {c.read} \cup ToSet(c.write) : t.addr <= AddressMax
  /\ c.access # "" => protocol \in AccessSpaces[c.access].protocols
  /\ protocol = "GWG" /\ c.write # <<>> =>
       c.access \in DOMAIN AccessSpaces /\ AccessSpaces[c.access].writable

LEMMA RpcIsP300 == "GWG" \notin AccessSpaces["rpc"].protocols
  BY DEF AccessSpaces

LEMMA AdmittedChannels ==
  ASSUME NEW e, Admitted(e), NEW c \in ToSet(Channels(e))
  PROVE  ChannelOk(c, Protocols[job.hub.protocol])
  <1> DEFINE protocol == Protocols[job.hub.protocol]
  <1>1. /\ EntityOk(e) /\ SchemaOk(e) /\ AccessSpaceOk(e, protocol)
        /\ protocol = "GWG" => GwgOk(e)
    BY DEF Admitted
  <1> HIDE DEF protocol
  <1>2. CASE e.platform = "climate"
    <2>1. PICK slot \in {e} \cup ToSet(e.mode) :
            /\ c.access = slot.access
            /\ \A t \in {c.read} \cup ToSet(c.write) : t.addr \in {slot.addr} \cup ToSet(slot.state)
      BY <1>1, <1>2, ThermostatChannel DEF EntityOk
    <2>2. slot.access \in AccessSlots(e)
      BY <1>2 DEF AccessSlots
    <2>3. slot.access # "" => /\ protocol \in AccessSpaces[slot.access].protocols
                              /\ AccessSpaces[slot.access].writable
      BY <1>1, <1>2, <2>2 DEF AccessSpaceOk, AccessDomains, WriteDomains
    <2>4. slot.access # "" => slot.access \in DOMAIN AccessSpaces
      BY <1>1, <1>2 DEF SchemaOk, ClimateOk, AccessSpaces
    <2>5. protocol = "GWG" => slot.access # ""
      BY <1>1, <1>2, <2>2 DEF GwgOk, WriteDomains
    <2>6. \A a \in {slot.addr} \cup ToSet(slot.state) : a \in Addresses(e)
      BY <1>2 DEF Addresses
    <2>7. HasAddress(e)
      BY <1>1, <1>2 DEF HasAddress, AddressDomains, AccessDomains, WriteDomains, HubFed, EntityOk,
                        ThermostatOk
    <2> QED
      BY <1>1, <2>1, <2>3, <2>4, <2>5, <2>6, <2>7 DEF ChannelOk, GwgOk, protocol
  <1>3. CASE e.platform # "climate"
    <2>1. /\ e.kind \notin HubFed /\ c.access = e.access
          /\ \A t \in {c.read} \cup ToSet(c.write) : t.addr \in {e.addr} \cup ToSet(e.state)
          /\ c.write # <<>> => e.platform \in WriteDomains \cup {"button"}
      BY <1>1, <1>3, OneChannel
    <2>2. /\ DOMAIN e = DOMAIN Blank /\ e.platform \in EntityDomains
          /\ e.platform = "button" => e.kind = "action"
      BY <1>1, <1>3, <2>1 DEF EntityOk, HubFed
    <2>3. \A a \in {e.addr} \cup ToSet(e.state) : a \in Addresses(e)
      BY DEF Addresses
    <2>4. e.access \in AccessSlots(e)
      BY DEF AccessSlots
    <2> DEFINE d == Defaults(e)
    <2>5. /\ d.platform = e.platform /\ d.kind = e.kind /\ d.access = e.access
      BY <2>2, DefaultsKeep
    <2>6. /\ KeysOf(e) \subseteq KnownKeys(e) /\ AccessOk(d)
          /\ e.platform = "button" => ButtonOk(d)
      BY <1>1, <1>3, <2>5 DEF SchemaOk
    <2> HIDE DEF d
    <2>7. e.access # "" => e.access \in DOMAIN AccessSpaces
      <3>1. DOMAIN AccessSpaces = {"rpc", "gfa"} \cup GwgReadModes
        BY DEF AccessSpaces
      <3> QED
        BY <2>5, <2>6, <3>1 DEF AccessOk
    <2>8. e.platform = "event" => e.access = ""
      <3>1. e.access # "" => "access" \in KeysOf(e)
        BY DEF KeysOf
      <3>2. e.platform = "event" => KnownKeys(e) = {"length", "codes"}
        BY DEF KnownKeys
      <3> QED
        BY <2>6, <3>1, <3>2
    <2>9. e.access # "" => protocol \in AccessSpaces[e.access].protocols
      BY <1>1, <2>2, <2>4, <2>8
         DEF AccessSpaceOk, EntityDomains, AddressDomains, AccessDomains, WriteDomains, ReadDomains
    <2>10. protocol = "GWG" => e.platform # "button"
      <3>1. e.platform = "button" => e.access = "rpc"
        BY <2>2, <2>5, <2>6 DEF ButtonOk
      <3> QED
        BY <2>9, <3>1, RpcIsP300
    <2>11. protocol = "GWG" => HasAddress(e)
      BY <2>1, <2>2, <2>10 DEF HasAddress, EntityDomains
    <2>12. protocol = "GWG" /\ e.platform \in WriteDomains =>
             e.access # "" /\ AccessSpaces[e.access].writable
      BY <1>1, <2>4 DEF GwgOk, AccessSpaceOk, AccessDomains
    <2> QED
      BY <1>1, <2>1, <2>3, <2>7, <2>9, <2>10, <2>11, <2>12 DEF ChannelOk, GwgOk, protocol
  <1> QED
    BY <1>2, <1>3

\* No accepted configuration makes the hub send what its protocol has no telegram for
\* (AcceptedAddressable, __init__.py's _final_validate()): for every list of rows, every
\* hub and whatever entities the schemas can be given beside a catalog.
THEOREM Addressable ==
  ASSUME NEW Jobs, \A j \in Jobs : JobOk(j)
  PROVE  (\E j \in Jobs : Init(j)) /\ [][Next]_vars => []AcceptedAddressable
  <1>1. (\E j \in Jobs : Init(j)) => ConfigInv
    BY InitConfig
  <1>2. ConfigInv => AcceptedAddressable
    <2> SUFFICES ASSUME ConfigInv, Accepted, NEW e \in ToSet(entities), NEW c \in ToSet(Channels(e))
                 PROVE  ChannelOk(c, Protocols[job.hub.protocol])
      BY DEF AcceptedAddressable, ChannelOk
    <2>1. Admitted(e)
      BY DEF ConfigInv, EntInv, ToSet
    <2> QED
      BY <2>1, AdmittedChannels
  <1> QED
    BY <1>1, <1>2, ConfigStep, PTL

----------------------------------------------------------------------------
\* The registry: what is reserved, and what registers.

Count(s, P) == Cardinality({i \in DOMAIN s : s[i].platform \in P})

LEMMA CountIs ==
  ASSUME NEW s, IsSeq(s), NEW P
  PROVE  IsFiniteSet({i \in DOMAIN s : s[i].platform \in P}) /\ Count(s, P) \in Nat
  <1> DEFINE A == {i \in DOMAIN s : s[i].platform \in P}
  <1>1. IsFiniteSet(DOMAIN s)
    BY SeqLen, FS_Interval
  <1>2. A \in SUBSET DOMAIN s
    OBVIOUS
  <1>3. IsFiniteSet(A)
    BY <1>1, <1>2, FS_Subset
  <1> HIDE DEF A
  <1>4. Cardinality(A) \in Nat
    BY <1>3, FS_CardinalityType
  <1> QED
    BY <1>3, <1>4 DEF A, Count

LEMMA CountTail ==
  ASSUME NEW s, IsSeq(s), s # <<>>, NEW P
  PROVE  Count(s, P) = Count(Tail(s), P) + (IF Head(s).platform \in P THEN 1 ELSE 0)
  <1> DEFINE A == {i \in DOMAIN s : s[i].platform \in P}
             B == {i \in DOMAIN Tail(s) : Tail(s)[i].platform \in P}
             f == [i \in B |-> i + 1]
  <1>1. /\ IsSeq(Tail(s)) /\ Len(s) \in Nat \ {0} /\ Len(Tail(s)) = Len(s) - 1
        /\ Head(s) = s[1] /\ 1 \in DOMAIN s
        /\ \A i \in DOMAIN Tail(s) : Tail(s)[i] = s[i + 1] /\ i + 1 \in DOMAIN s
    BY TailIs
  <1>2. DOMAIN s = 1..Len(s) /\ DOMAIN Tail(s) = 1..Len(s) - 1
    BY <1>1, SeqLen
  <1>3. f \in Bijection(B, A \ {1})
    <2>1. f \in [B -> A \ {1}]
      BY <1>1, <1>2
    <2>2. \A i, j \in B : f[i] = f[j] => i = j
      BY <1>2
    <2>3. ASSUME NEW k \in A \ {1} PROVE \E i \in B : f[i] = k
      <3>1. k - 1 \in B
        BY <1>1, <1>2
      <3> QED
        BY <1>2, <3>1
    <2> QED
      BY <2>1, <2>2, <2>3 DEF Bijection, Injection, IsInjective, Surjection
  <1>4. IsFiniteSet(A) /\ IsFiniteSet(B) /\ Cardinality(A) \in Nat /\ Cardinality(B) \in Nat
    BY <1>1, CountIs DEF Count
  <1>5. 1 \in A <=> Head(s).platform \in P
    BY <1>1
  <1>6. Count(s, P) = Cardinality(A) /\ Count(Tail(s), P) = Cardinality(B)
    BY DEF Count
  <1> HIDE DEF A, B, f
  <1>7. Cardinality(A \ {1}) = Cardinality(B)
    BY <1>3, <1>4, FS_Bijection DEF ExistsBijection
  <1>8. Cardinality(A \ {1}) = IF 1 \in A THEN Cardinality(A) - 1 ELSE Cardinality(A)
    BY <1>4, FS_RemoveElement
  <1> QED
    BY <1>4, <1>5, <1>6, <1>7, <1>8

Clock == IF job.hub.timeId THEN 1 ELSE 0
\* What is reserved for entities that have not registered yet.
Reserved(s) == Count(s, EntityDomains) + 2 * Count(s, {"climate"})

LEMMA ThermostatRegisters ==
  ASSUME NEW e, ThermostatOk(e), e.platform = "climate"
  PROVE  Registers(e) \in Nat /\ Registers(e) <= 2
  <1>1. Len(e.mode) \in {0, 1}
    <2>1. ASSUME NEW m, AtMostOne(m) PROVE Len(m) \in {0, 1}
      <3>1. CASE m = <<>>
        BY <3>1
      <3>2. CASE m # <<>>
        <4>1. PICK x : m = <<x>>
          BY <2>1, <3>2 DEF AtMostOne
        <4> QED
          BY <4>1
      <3> QED
        BY <3>1, <3>2
    <2> QED
      BY <2>1 DEF ThermostatOk
  <1>2. e.kind \notin HubFed
    BY DEF ThermostatOk, HubFed
  <1>3. Registers(e) = 1 + Len(e.mode)
    BY <1>2 DEF Registers
  <1>4. CASE Len(e.mode) = 0
    BY <1>3, <1>4
  <1>5. CASE Len(e.mode) = 1
    BY <1>3, <1>5
  <1> QED
    BY <1>1, <1>4, <1>5

LEMMA ReservedTail ==
  ASSUME NEW s, IsSeq(s), s # <<>>, EntityOk(Head(s))
  PROVE  /\ Reserved(s) \in Nat /\ Reserved(Tail(s)) \in Nat
         /\ Registers(Head(s)) \in Nat
         /\ Reserved(Tail(s)) + Registers(Head(s)) <= Reserved(s)
  <1> DEFINE e == Head(s)
  <1>1. /\ Count(s, EntityDomains) \in Nat /\ Count(Tail(s), EntityDomains) \in Nat
        /\ Count(s, {"climate"}) \in Nat /\ Count(Tail(s), {"climate"}) \in Nat
    BY CountIs, TailIs
  <1>2. /\ Count(s, EntityDomains)
             = Count(Tail(s), EntityDomains) + (IF e.platform \in EntityDomains THEN 1 ELSE 0)
        /\ Count(s, {"climate"})
             = Count(Tail(s), {"climate"}) + (IF e.platform = "climate" THEN 1 ELSE 0)
    BY CountTail
  <1>3. CASE e.platform = "climate"
    <2>1. ThermostatOk(e)
      BY <1>3 DEF EntityOk
    <2>2. Registers(e) \in Nat /\ Registers(e) <= 2
      BY <1>3, <2>1, ThermostatRegisters
    <2> QED
      BY <1>1, <1>2, <1>3, <2>2 DEF Reserved
  <1>4. CASE e.platform # "climate"
    <2>1. e.platform \in EntityDomains
      BY <1>4 DEF EntityOk
    <2>2. Registers(e) \in {0, 1}
      BY <1>4 DEF Registers
    <2> QED
      BY <1>1, <1>2, <1>4, <2>1, <2>2 DEF Reserved
  <1> QED
    BY <1>3, <1>4

\* What is left of the capacity is enough for what is left to register.
Roomy ==
  /\ DOMAIN hub = {"capacity", "registered", "failed", "tables"}
  /\ hub.registered \in Nat /\ hub.capacity \in Nat
  /\ ~Accepted => hub.registered = 0
  /\ stage = "accepted" => hub.registered + Reserved(entities) + Clock <= hub.capacity
CapacityInv == Roomy /\ hub.failed = FALSE

LEMMA RegisterFits ==
  ASSUME CapacityInv, NEW n \in Nat, hub.registered + n <= hub.capacity
  PROVE  LET h == Register(hub, n) IN
         /\ DOMAIN h = DOMAIN hub /\ h.registered = hub.registered + n
         /\ h.capacity = hub.capacity /\ h.failed = FALSE
  <1> DEFINE h == Register(hub, n)
  <1>1. hub.registered \in Nat /\ hub.capacity \in Nat /\ hub.failed = FALSE
        /\ DOMAIN hub = {"capacity", "registered", "failed", "tables"}
    BY DEF CapacityInv, Roomy
  <1>2. ~(hub.registered + n > hub.capacity)
    BY <1>1
  <1>3. DOMAIN h = DOMAIN hub /\ h.capacity = hub.capacity
    BY <1>1 DEF Register
  <1>4. h.registered = hub.registered + n
    BY <1>1 DEF Register
  <1>5. h.failed = (hub.failed \/ hub.registered + n > hub.capacity)
    BY <1>1, Zenon DEF Register
  <1>6. h.failed = FALSE
    BY <1>1, <1>2, <1>5
  <1> QED
    BY <1>3, <1>4, <1>6

LEMMA CapacityStep == ConfigInv /\ CapacityInv /\ [Next]_vars => CapacityInv'
  <1> SUFFICES ASSUME ConfigInv, CapacityInv, [Next]_vars PROVE CapacityInv'
    OBVIOUS
  <1>1. CASE LoadConfiguration
    <2> DEFINE whole == FromPackage(output) \o job.byHand
               ok == AliasesResolve(output) /\ NamedApart(output) /\ Valid(whole)
    <2>1. IsSeq(whole)
      BY <1>1, WholeOk DEF ConfigInv, LoadConfiguration
    <2>2. /\ job' = job /\ stage' = (IF ok THEN "accepted" ELSE "refused") /\ ~Accepted
          /\ entities' = (IF ok THEN whole ELSE <<>>)
          /\ hub' = [hub EXCEPT !.capacity = IF ok THEN CapacityBound(job.hub, whole) ELSE 0]
      BY <1>1 DEF LoadConfiguration, Accepted
    <2> HIDE DEF whole, ok
    <2>3. CapacityBound(job.hub, whole) = Reserved(whole) + Clock
      BY DEF CapacityBound, Reserved, Count, Clock
    <2>4. Reserved(whole) \in Nat /\ Clock \in Nat
      <3>1. Count(whole, EntityDomains) \in Nat /\ Count(whole, {"climate"}) \in Nat
        BY <2>1, CountIs
      <3> QED
        BY <3>1 DEF Reserved, Clock
    <2>5. Clock' = Clock
      BY <2>2 DEF Clock
    <2>6. ok => Reserved(entities') = Reserved(whole)
      BY <2>2
    <2> QED
      BY <2>2, <2>3, <2>4, <2>5, <2>6 DEF CapacityInv, Roomy, Accepted
  <1>2. CASE ToCodeEntity
    <2> DEFINE e == Head(entities)
               h == Register(hub, Registers(e))
    <2>1. IsSeq(entities) /\ entities # <<>> /\ EntityOk(e)
      BY <1>2, TailIs DEF ToCodeEntity, ConfigInv, EntInv, Accepted, Admitted
    <2>2. /\ Reserved(entities) \in Nat /\ Reserved(Tail(entities)) \in Nat /\ Registers(e) \in Nat
          /\ Reserved(Tail(entities)) + Registers(e) <= Reserved(entities)
      BY <2>1, ReservedTail
    <2>3. /\ stage = "accepted" /\ stage' = stage /\ job' = job /\ entities' = Tail(entities)
          /\ hub' = [h EXCEPT !.tables = IF HubTable(e) = "" THEN @ ELSE [@ EXCEPT ![HubTable(e)] = @ + 1]]
      BY <1>2 DEF ToCodeEntity
    <2>4. Clock \in Nat /\ Clock' = Clock /\ Reserved(entities') = Reserved(Tail(entities))
      BY <2>3 DEF Clock
    <2> HIDE DEF e, h
    <2>5. /\ DOMAIN h = DOMAIN hub /\ h.registered = hub.registered + Registers(e)
          /\ h.capacity = hub.capacity /\ h.failed = FALSE
      <3>1. hub.registered + Registers(e) <= hub.capacity
        <4>1. /\ hub.registered \in Nat /\ hub.capacity \in Nat
              /\ hub.registered + Reserved(entities) + Clock <= hub.capacity
          BY <2>3 DEF CapacityInv, Roomy
        <4>2. Clock \in Nat
          BY <2>4
        <4> QED
          BY <2>2, <4>1, <4>2
      <3> QED
        BY <2>2, <3>1, RegisterFits DEF h
    <2>6. /\ DOMAIN hub' = DOMAIN hub /\ hub'.registered = hub.registered + Registers(e)
          /\ hub'.capacity = hub.capacity /\ hub'.failed = FALSE
      BY <2>3, <2>5 DEF CapacityInv, Roomy
    <2>7. Roomy
      BY DEF CapacityInv
    <2>8. Roomy'
      <3>1. /\ hub.registered \in Nat /\ hub.capacity \in Nat
            /\ hub.registered + Reserved(entities) + Clock <= hub.capacity
        BY <2>3, <2>7 DEF Roomy
      <3>2. hub'.registered + Reserved(entities') + Clock' <= hub'.capacity
        <4>1. Clock \in Nat
          BY <2>4
        <4> QED
          BY <2>2, <2>4, <2>6, <3>1, <4>1
      <3>3. /\ hub'.registered \in Nat /\ hub'.capacity \in Nat
            /\ DOMAIN hub' = {"capacity", "registered", "failed", "tables"}
        BY <2>2, <2>6, <2>7 DEF Roomy
      <3>4. Accepted'
        BY <2>3 DEF Accepted
      <3> QED
        BY <3>2, <3>3, <3>4 DEF Roomy
    <2> QED
      BY <2>6, <2>8 DEF CapacityInv
  <1>3. CASE SetUp
    <2>1. /\ stage = "accepted" /\ stage' = "running" /\ entities = <<>> /\ job' = job
          /\ hub' = IF job.hub.timeId THEN Register(hub, 1) ELSE hub
      BY <1>3 DEF SetUp
    <2>2. Reserved(entities) \in Nat
      <3>1. Count(entities, EntityDomains) \in Nat /\ Count(entities, {"climate"}) \in Nat
        BY <2>1, EmptyIs, CountIs
      <3> QED
        BY <3>1 DEF Reserved
    <2>3. job.hub.timeId => hub.registered + 1 <= hub.capacity
      BY <2>1, <2>2 DEF CapacityInv, Roomy, Clock
    <2>4. CASE job.hub.timeId
      <3>1. hub.registered + 1 <= hub.capacity
        BY <2>3, <2>4
      <3>2. /\ DOMAIN hub' = DOMAIN hub /\ hub'.registered = hub.registered + 1
            /\ hub'.capacity = hub.capacity /\ hub'.failed = FALSE
        BY <2>1, <2>4, <3>1, RegisterFits
      <3> QED
        BY <2>1, <3>2 DEF CapacityInv, Roomy, Accepted
    <2>5. CASE ~job.hub.timeId
      BY <2>1, <2>5 DEF CapacityInv, Roomy, Accepted
    <2> QED
      BY <2>4, <2>5
  <1>4. CASE UNCHANGED hub /\ ~Accepted /\ ~Accepted'
    BY <1>4 DEF CapacityInv, Roomy, Accepted
  <1>5. CASE UNCHANGED <<hub, stage, entities, job>>
    BY <1>5 DEF CapacityInv, Roomy, Accepted, Clock
  <1> QED
    BY <1>1, <1>2, <1>3, <1>4, <1>5
       DEF Next, vars, Take, SkipIdentification, DropWideAddress, DeferHistory, Accepted,
           FanOutSchaltzeiten, FanOutHydro, EmitAction, EmitEntity, RowsDone, EmitHistory,
           WritePackage

\* The registry never fills up while the entities of an accepted configuration register
\* themselves and the clock last (CapacityEnough, __init__.py's capacity against
\* register_entity()): for every configuration, however many thermostats are in it.
THEOREM RegistrySuffices ==
  ASSUME NEW Jobs, \A j \in Jobs : JobOk(j)
  PROVE  (\E j \in Jobs : Init(j)) /\ [][Next]_vars => []CapacityEnough
  <1>1. (\E j \in Jobs : Init(j)) => ConfigInv /\ CapacityInv
    <2> SUFFICES ASSUME NEW j \in Jobs, Init(j) PROVE ConfigInv /\ CapacityInv
      OBVIOUS
    <2>1. ConfigInv
      BY InitConfig
    <2>2. CapacityInv
      BY DEF Init, CapacityInv, Roomy, Accepted
    <2> QED
      BY <2>1, <2>2
  <1>2. CapacityInv => CapacityEnough
    BY DEF CapacityInv, CapacityEnough
  <1> QED
    BY <1>1, <1>2, ConfigStep, CapacityStep, PTL

----------------------------------------------------------------------------
\* Two languages.

\* Options that differ in their labels alone, and entities that differ in theirs.
SameValues(opts, others) ==
  /\ DOMAIN opts = DOMAIN others
  /\ opts = [i \in DOMAIN opts |-> opts[i]] /\ others = [i \in DOMAIN others |-> others[i]]
  /\ \A i \in DOMAIN opts : opts[i][1] = others[i][1]
Alike(e, f) ==
  /\ DOMAIN e = DOMAIN Blank
  /\ f = e \/ \E opts : f = [e EXCEPT !.options = opts] /\ SameValues(e.options, opts)

LEMMA OptionsAlike ==
  ASSUME NEW ev, NEW german, NEW other
  PROVE  SameValues(DedupOptionLabels(EnumOptions(ev, german)),
                    DedupOptionLabels(EnumOptions(ev, other)))
  <1> DEFINE a == EnumOptions(ev, german)
             b == EnumOptions(ev, other)
  <1> DEFINE first(i) == \A j \in 1..i - 1 : ev.values[j].value # ev.values[i].value
             kept == {i \in DOMAIN ev.values : ev.values[i].value >= 0 /\ first(i)}
             at(n) == CHOOSE i \in kept : Cardinality({j \in kept : j < i}) = n - 1
  <1>0. ASSUME NEW language
        PROVE  LET o == EnumOptions(ev, language) IN
               /\ DOMAIN o = 1..Cardinality(kept)
               /\ \A n \in DOMAIN o : o[n][1] = ev.values[at(n)].value
    BY DEF EnumOptions
  <1> HIDE DEF kept, at
  <1>1. /\ DOMAIN a = DOMAIN b
        /\ \A i \in DOMAIN a : a[i][1] = b[i][1]
    BY <1>0
  <1> HIDE DEF a, b
  <1>2. ASSUME NEW o
        PROVE  /\ DOMAIN DedupOptionLabels(o) = DOMAIN o
               /\ \A i \in DOMAIN o : DedupOptionLabels(o)[i][1] = o[i][1]
               /\ DedupOptionLabels(o) = [i \in DOMAIN o |-> DedupOptionLabels(o)[i]]
    BY DEF DedupOptionLabels
  <1> QED
    BY <1>1, <1>2 DEF SameValues, a, b

LEMMA SameLength ==
  ASSUME NEW opts, NEW others, SameValues(opts, others), NEW n
  PROVE  /\ opts = <<>> <=> others = <<>>
         /\ EnumReadLength(opts, n) = EnumReadLength(others, n)
         /\ OptionsFit(opts, n) <=> OptionsFit(others, n)
  <1>1. opts = <<>> <=> others = <<>>
    <2>1. DOMAIN <<>> = {}
      BY EmptyIs
    <2>2. ASSUME NEW o, o = [i \in DOMAIN o |-> o[i]], DOMAIN o = {} PROVE o = <<>>
      BY <2>2
    <2> QED
      BY <2>1, <2>2 DEF SameValues
  <1> DEFINE values(o) == {p[1] : p \in ToSet(o)}
  <1>2. values(opts) = values(others)
    BY DEF SameValues, ToSet
  <1>3. EnumReadLength(opts, n) = EnumReadLength(others, n)
    <2>1. ASSUME NEW o
          PROVE  EnumReadLength(o, n) = IF Max(values(o)) < 256 THEN 1
                                        ELSE IF Max(values(o)) < 65536 THEN 2 ELSE n
      BY DEF EnumReadLength
    <2> HIDE DEF values
    <2> QED
      BY <1>2, <2>1
  <1>4. OptionsFit(opts, n) <=> OptionsFit(others, n)
    BY DEF SameValues, OptionsFit
  <1> QED
    BY <1>1, <1>3, <1>4

LEMMA AlikeItself == ASSUME NEW e, Built(e) PROVE Alike(e, e)
  BY DEF Alike, Built

\* Two entities that were given alike options at last.
LEMMA GivenOptions ==
  ASSUME NEW e, Built(e), NEW opts, NEW others, SameValues(opts, others)
  PROVE  Alike([e EXCEPT !.options = opts], [e EXCEPT !.options = others])
  BY DEF Alike, Built, Blank

LEMMA BitEnumAlike ==
  ASSUME NEW ev, NEW f, NEW opts, NEW others, SameValues(opts, others),
         NEW pair, NEW shape, NEW writable, Built(shape)
  PROVE  Alike(BitEnumSpec(ev, f, opts, pair, shape, writable),
               BitEnumSpec(ev, f, others, pair, shape, writable))
  <1> DEFINE a == BitEnumSpec(ev, f, opts, pair, shape, writable)
             b == BitEnumSpec(ev, f, others, pair, shape, writable)
  <1>1. (\E i \in DOMAIN opts : opts[i][1] > f.max)
          <=> (\E i \in DOMAIN others : others[i][1] > f.max)
    BY DEF SameValues
  <1>2. Built(a)
    BY BitEnumBuilt
  <1> DEFINE select == [shape EXCEPT !.platform = "select"]
             enum == [shape EXCEPT !.platform = "text_sensor", !.kind = "enum"]
  <1>3. Built(select) /\ Built(enum)
    BY DEF Built, Blank, BuiltPlatforms
  <1>4. \/ a = b
        \/ /\ a = [select EXCEPT !.options = opts]
           /\ b = [select EXCEPT !.options = others]
        \/ /\ a = [enum EXCEPT !.options = opts]
           /\ b = [enum EXCEPT !.options = others]
    BY <1>1 DEF BitEnumSpec
  <1> HIDE DEF a, b, select, enum
  <1> QED
    BY <1>2, <1>3, <1>4, GivenOptions, AlikeItself DEF a, b

LEMMA BitFieldAlike ==
  ASSUME NEW ev, NEW protocol, NEW german, NEW other, NEW partialWrites, NEW field, NEW blockMode
  PROVE  Alike(BuildBitField(ev, protocol, german, partialWrites, field, blockMode),
               BuildBitField(ev, protocol, other, partialWrites, field, blockMode))
  <1> DEFINE opts == DedupOptionLabels(EnumOptions(ev, german))
             others == DedupOptionLabels(EnumOptions(ev, other))
             shape == BitShape(ev, field[1], blockMode \/ field[1].byte > 0)
             writable == BitWritable(ev, protocol, partialWrites, blockMode)
             number == BitNumber(ev, field[1],
                         InOneByte(BitValue(ev, ScaleFromBounds(ev, protocol), FactorOf(ev))),
                         shape, writable)
  <1>1. SameValues(opts, others)
    BY OptionsAlike
  <1>2. Built(shape)
    BY BitShapeBuilt
  <1>3. opts = <<>> <=> others = <<>>
    BY <1>1, SameLength
  <1>4. ASSUME NEW o
        PROVE  BitFieldSpec(ev, protocol, field[1], o, shape, writable)
                 = IF o # <<>> THEN BitEnumSpec(ev, field[1], o, EnumBoolPair(ev), shape, writable)
                   ELSE number
    BY DEF BitFieldSpec
  <1>5. ASSUME NEW g
        PROVE  BuildBitField(ev, protocol, g, partialWrites, field, blockMode)
                 = IF BitFieldBlocked(ev, field) THEN At(ev)
                   ELSE BitFieldSpec(ev, protocol, field[1], DedupOptionLabels(EnumOptions(ev, g)),
                                     shape, writable)
    BY DEF BuildBitField
  <1>6. Built(number)
    BY <1>2, BitNumberBuilt
  <1> HIDE DEF opts, others, shape, writable, number
  <1>7. Alike(BitFieldSpec(ev, protocol, field[1], opts, shape, writable),
              BitFieldSpec(ev, protocol, field[1], others, shape, writable))
    BY <1>1, <1>2, <1>3, <1>4, <1>6, BitEnumAlike, AlikeItself
  <1> QED
    BY <1>5, <1>7, AtBuilt, AlikeItself DEF opts, others

LEMMA SwitchOrSelectAlike ==
  ASSUME NEW ev, NEW opts, NEW others, SameValues(opts, others), NEW pair, NEW blockMode
  PROVE  Alike(SwitchOrSelectSpec(ev, opts, pair, blockMode),
               SwitchOrSelectSpec(ev, others, pair, blockMode))
  <1> DEFINE a == SwitchOrSelectSpec(ev, opts, pair, blockMode)
             b == SwitchOrSelectSpec(ev, others, pair, blockMode)
             shape == [WriteShape(ev, blockMode) EXCEPT !.state = StateAddr(ev)]
             select == [shape EXCEPT !.platform = "select"]
  <1>1. Built(a)
    BY SwitchOrSelectBuilt
  <1>2. Built(select)
    BY WriteShapeBuilt, StateAddrIs DEF Built, BuiltPlatforms, Blank
  <1>3. \/ a = b
        \/ /\ a = [select EXCEPT !.options = opts]
           /\ b = [select EXCEPT !.options = others]
    BY DEF SwitchOrSelectSpec
  <1> HIDE DEF a, b, select
  <1> QED
    BY <1>1, <1>2, <1>3, GivenOptions, AlikeItself DEF a, b

LEMMA EnumTextAlike ==
  ASSUME NEW ev, NEW opts, NEW others, SameValues(opts, others)
  PROVE  Alike(EnumTextSpec(ev, opts), EnumTextSpec(ev, others))
  <1> DEFINE fallback == IF FieldLen(ev) > 4 THEN 4 ELSE FieldLen(ev)
             len == EnumReadLength(opts, fallback)
             extract == /\ ev.bytePosition > 0 /\ ev.bytePosition + len <= BlockLen(ev)
                        /\ BlockLen(ev) <= MaxP300ReadLength
             shape == ReadShape(ev, len, extract)
             enum == [shape EXCEPT !.platform = "text_sensor", !.kind = "enum"]
  <1>1. EnumReadLength(others, fallback) = len
    BY SameLength
  <1>2. Built(enum)
    <2>1. Built(shape)
      BY ReadShapeBuilt
    <2> HIDE DEF shape
    <2> QED
      BY <2>1 DEF Built, BuiltPlatforms, Blank
  <1>3. /\ EnumTextSpec(ev, opts) = EnumText(ev, opts, len)
        /\ EnumTextSpec(ev, others) = EnumText(ev, others, len)
    BY <1>1 DEF EnumTextSpec
  <1>4. ASSUME NEW o PROVE EnumText(ev, o, len) = [enum EXCEPT !.options = o]
    BY DEF EnumText
  <1> HIDE DEF enum, len
  <1> QED
    BY <1>2, <1>3, <1>4, GivenOptions

LEMMA ScalarAlike ==
  ASSUME NEW ev, NEW protocol, NEW german, NEW other, NEW v, NEW partialWrites, NEW roBlocks
  PROVE  Alike(BuildScalar(ev, protocol, german, v, partialWrites, roBlocks),
               BuildScalar(ev, protocol, other, v, partialWrites, roBlocks))
  <1> DEFINE opts == DedupOptionLabels(EnumOptions(ev, german))
             others == DedupOptionLabels(EnumOptions(ev, other))
             len == FieldLen(ev)
             blockMode == ScalarBlockMode(ev, v, protocol, partialWrites, roBlocks)
             spec(o) == ScalarSpec(ev, protocol, v, o, len, blockMode)
  <1>1. SameValues(opts, others)
    BY OptionsAlike
  <1>2. (opts = <<>> <=> others = <<>>) /\ (OptionsFit(opts, len) <=> OptionsFit(others, len))
    BY <1>1, SameLength
  <1>3. /\ BuildScalar(ev, protocol, german, v, partialWrites, roBlocks) = spec(opts)
        /\ BuildScalar(ev, protocol, other, v, partialWrites, roBlocks) = spec(others)
    BY DEF BuildScalar
  <1>4. Built(spec(opts))
    BY <1>3, ScalarBuilt
  <1> HIDE DEF opts, others, blockMode, len
  <1>5. \/ spec(opts) = spec(others)
        \/ /\ spec(opts) = SwitchOrSelectSpec(ev, opts, EnumBoolPair(ev), blockMode)
           /\ spec(others) = SwitchOrSelectSpec(ev, others, EnumBoolPair(ev), blockMode)
        \/ spec(opts) = EnumTextSpec(ev, opts) /\ spec(others) = EnumTextSpec(ev, others)
    BY <1>2 DEF ScalarSpec
  <1> HIDE DEF spec
  <1> QED
    BY <1>1, <1>3, <1>4, <1>5, AlikeItself, SwitchOrSelectAlike, EnumTextAlike

LEMMA PolledAlike ==
  ASSUME NEW e, NEW f, Alike(e, f), NEW poll
  PROVE  Alike([e EXCEPT !.poll = poll], [f EXCEPT !.poll = poll])
  BY DEF Alike, Blank

LEMMA EntityAlike ==
  ASSUME NEW ev, NEW protocol, NEW german, NEW other, NEW partialWrites, NEW roBlocks
  PROVE  Alike(BuildEntity(ev, protocol, german, partialWrites, roBlocks),
               BuildEntity(ev, protocol, other, partialWrites, roBlocks))
  BY AtBuilt, StringBuilt, AlikeItself, BitFieldAlike, ScalarAlike, PolledAlike DEF BuildEntity

\* A key of an entity as its platform's renderer puts it, and as a shape keeps it.
RenderedKey(platform, k, x) ==
  IF k = "values" THEN (IF platform = "switch" /\ x # <<1, 0>> THEN x ELSE <<>>)
  ELSE IF k = "filters" THEN (IF platform = "sensor" THEN x ELSE <<>>)
  ELSE IF k \in {"lo", "hi", "step"} THEN (IF platform = "number" THEN x ELSE 0)
  ELSE x
ShapedKey(k, x) ==
  IF k = "options" THEN [i \in DOMAIN x |-> x[i][1]]
  ELSE IF k = "access" THEN "" ELSE IF k = "prefix" THEN <<>> ELSE x

LEMMA ByKey ==
  ASSUME NEW e, DOMAIN e = DOMAIN Blank
  PROVE  /\ Rendered(e) = [k \in DOMAIN Blank |-> RenderedKey(e.platform, k, e[k])]
         /\ Shape(e) = [k \in DOMAIN Blank |-> ShapedKey(k, e[k])]
  <1>1. Rendered(e) = [k \in DOMAIN Blank |-> RenderedKey(e.platform, k, e[k])]
    BY DEF Rendered, RenderedKey, Blank
  <1>2. Shape(e) = [k \in DOMAIN Blank |-> ShapedKey(k, e[k])]
    BY DEF Shape, ShapedKey, Blank
  <1> QED
    BY <1>1, <1>2

ReadBy(e, access, prefix) == [e EXCEPT !.access = access, !.prefix = prefix]

LEMMA ShapeAlike ==
  ASSUME NEW e, NEW f, Alike(e, f), NEW access, NEW prefix
  PROVE  Shape(Rendered(ReadBy(e, access, prefix))) = Shape(Rendered(f))
  <1> DEFINE d == ReadBy(e, access, prefix)
             keys == DOMAIN Blank
             shown(x) == [k \in keys |-> RenderedKey(x.platform, k, x[k])]
  <1>1. /\ DOMAIN d = keys /\ DOMAIN f = keys /\ DOMAIN e = keys
        /\ {"platform", "options", "access", "prefix"} \subseteq keys
    BY DEF Alike, Blank, ReadBy
  <1>2. \A k \in keys \ {"options", "access", "prefix"} : d[k] = f[k]
    BY <1>1 DEF Alike, ReadBy
  <1>3. [i \in DOMAIN d.options |-> d.options[i][1]] = [i \in DOMAIN f.options |-> f.options[i][1]]
    <2>1. d.options = e.options
      BY <1>1 DEF ReadBy
    <2>2. f.options = e.options \/ SameValues(e.options, f.options)
      BY <1>1 DEF Alike
    <2> HIDE DEF d
    <2> QED
      BY <2>1, <2>2 DEF SameValues
  <1> HIDE DEF d, keys
  <1>4. Rendered(d) = shown(d) /\ Rendered(f) = shown(f)
    BY <1>1, ByKey DEF keys
  <1>5. d.platform = f.platform
    BY <1>1, <1>2
  <1>6. /\ \A k \in keys \ {"options", "access", "prefix"} : shown(d)[k] = shown(f)[k]
        /\ shown(d).options = d.options /\ shown(f).options = f.options
    BY <1>1, <1>2, <1>5 DEF RenderedKey
  <1>7. DOMAIN shown(d) = keys /\ DOMAIN shown(f) = keys
    OBVIOUS
  <1> HIDE DEF shown
  <1>8. /\ Shape(shown(d)) = [k \in keys |-> ShapedKey(k, shown(d)[k])]
        /\ Shape(shown(f)) = [k \in keys |-> ShapedKey(k, shown(f)[k])]
    BY <1>7, ByKey DEF keys
  <1>9. \A k \in keys : ShapedKey(k, shown(d)[k]) = ShapedKey(k, shown(f)[k])
    BY <1>3, <1>6 DEF ShapedKey
  <1> QED
    BY <1>4, <1>8, <1>9 DEF d

\* The line of a row is what the generator made of the row, as the platform's renderer
\* puts it.
LEMMA RowLine ==
  ASSUME NEW c, ChunkOk(c), c.row # <<>>, NEW n, LineOf(output[n], c)
  PROVE  /\ RowOf(n) = c.row[1]
         /\ EntityOf(n) = Rendered(ReadBy(Of(c.row[1]), c.entity.access, c.entity.prefix))
  <1>1. Built(Of(c.row[1]))
    BY EntityBuilt DEF Of
  <1>2. c.entity.codes = {}
    BY <1>1 DEF ChunkOk, Built, Blank
  <1>3. [c.entity EXCEPT !.codes = {}] = c.entity
    BY <1>1, <1>2 DEF ChunkOk, Built, Blank
  <1>4. output[n].alias = NoMark /\ output[n].chunk.entity = Rendered(c.entity)
    BY <1>2, <1>3 DEF LineOf
  <1>5. EntityOf(n) = output[n].chunk.entity
    BY <1>4 DEF EntityOf, LoadedEntity
  <1> QED
    BY <1>4, <1>5 DEF ChunkOk, LineOf, RowOf, ReadBy

\* The catalogs of two languages differ in the texts of their options alone
\* (SameInEveryLanguage, build_entity_spec(): whether options make a switch is decided on
\* the German labels): for every row and every argument.
THEOREM TextsAlone ==
  ASSUME NEW Jobs, \A j \in Jobs : JobOk(j)
  PROVE  (\E j \in Jobs : Init(j)) /\ [][Next]_vars => []SameInEveryLanguage
  <1>1. (\E j \in Jobs : Init(j)) => ConfigInv
    BY InitConfig
  <1>2. ConfigInv => SameInEveryLanguage
    <2> SUFFICES ASSUME ConfigInv, NEW n \in OfRows
                 PROVE  Shape(EntityOf(n)) = Shape(Rendered(InOtherLanguage(RowOf(n))))
      BY DEF SameInEveryLanguage
    <2>1. stage = "written" /\ n \in DOMAIN output /\ output[n].chunk.row # <<>>
      BY DEF OfRows
    <2>2. PICK c : ChunkOk(c) /\ LineOf(output[n], c)
      <3>1. Packaged(output, gen.chunks) /\ ChunksOk(gen.chunks)
        BY <2>1 DEF ConfigInv, OutInv, GenInv, GenOk, ChunksOk
      <3> QED
        BY <2>1, <3>1 DEF Packaged, ChunksOk, Injection
    <2>3. c.row # <<>>
      BY <2>1, <2>2 DEF LineOf
    <2>4. Alike(Of(c.row[1]), InOtherLanguage(c.row[1]))
      BY EntityAlike DEF Of, InOtherLanguage
    <2>5. /\ RowOf(n) = c.row[1]
          /\ EntityOf(n) = Rendered(ReadBy(Of(c.row[1]), c.entity.access, c.entity.prefix))
      BY <2>2, <2>3, RowLine
    <2>6. Shape(Rendered(ReadBy(Of(c.row[1]), c.entity.access, c.entity.prefix)))
            = Shape(Rendered(InOtherLanguage(c.row[1])))
      BY <2>4, ShapeAlike
    <2> QED
      BY <2>5, <2>6
  <1> QED
    BY <1>1, <1>2, ConfigStep, PTL

----------------------------------------------------------------------------
\* Codes behind anchors and aliases.

\* The first of the lines with the same codes writes them, and the others find it.
LEMMA CodesShared ==
  ASSUME NEW chunks, ChunksOk(chunks), IdsApart(chunks),
         NEW out, out = [n \in DOMAIN chunks |-> RenderedLine(ShareCodes(chunks)[n])]
  PROVE  /\ AliasesResolve(out)
         /\ \A n \in DOMAIN chunks : LoadedEntity(out, n).codes = chunks[n].entity.codes
  <1> DEFINE codes(n) == chunks[n].entity.codes
             isFirst(n, m) == codes(m) = codes(n) /\ \A k \in 1..m - 1 : codes(k) # codes(n)
             first(n) == CHOOSE m \in 1..n : isFirst(n, m)
  <1>1. DOMAIN chunks = 1..Len(chunks) /\ Len(chunks) \in Nat
    BY SeqLen DEF ChunksOk
  <1>2. ASSUME NEW n \in DOMAIN chunks
        PROVE  /\ out[n].anchor = IF codes(n) # {} /\ first(n) = n THEN chunks[n].id ELSE NoMark
               /\ out[n].alias = IF codes(n) # {} /\ first(n) # n THEN chunks[first(n)].id ELSE NoMark
               /\ out[n].chunk.entity.codes = IF first(n) = n THEN codes(n) ELSE {}
               /\ "codes" \in DOMAIN out[n].chunk.entity
    <2> DEFINE line == ShareCodes(chunks)[n]
    <2>1. line = [chunk |-> [chunks[n] EXCEPT !.entity.codes = IF first(n) = n THEN codes(n) ELSE {}],
                  anchor |-> IF codes(n) # {} /\ first(n) = n THEN chunks[n].id ELSE NoMark,
                  alias |-> IF codes(n) # {} /\ first(n) # n THEN chunks[first(n)].id ELSE NoMark]
      BY DEF ShareCodes
    <2>2. ChunkOk(chunks[n])
      BY DEF ChunksOk
    <2> HIDE DEF line, first, codes
    <2>3. /\ line.anchor = IF codes(n) # {} /\ first(n) = n THEN chunks[n].id ELSE NoMark
          /\ line.alias = IF codes(n) # {} /\ first(n) # n THEN chunks[first(n)].id ELSE NoMark
          /\ line.chunk = [chunks[n] EXCEPT !.entity.codes = IF first(n) = n THEN codes(n) ELSE {}]
          /\ DOMAIN line = {"chunk", "anchor", "alias"}
      BY <2>1
    <2>4. /\ line.chunk.entity.codes = IF first(n) = n THEN codes(n) ELSE {}
          /\ DOMAIN line.chunk.entity = DOMAIN Blank /\ "entity" \in DOMAIN line.chunk
      <3>1. ASSUME NEW c, ChunkOk(c), NEW x
            PROVE  /\ [c EXCEPT !.entity.codes = x].entity = [c.entity EXCEPT !.codes = x]
                   /\ "entity" \in DOMAIN [c EXCEPT !.entity.codes = x]
        BY <3>1 DEF ChunkOk
      <3>2. DOMAIN chunks[n].entity = DOMAIN Blank /\ "codes" \in DOMAIN Blank
        BY <2>2 DEF ChunkOk, Emitted, Blank
      <3> QED
        BY <2>2, <2>3, <3>1, <3>2
    <2>5. out[n] = RenderedLine(line)
      BY DEF line
    <2>6. /\ out[n].anchor = line.anchor /\ out[n].alias = line.alias
          /\ out[n].chunk.entity = Rendered(line.chunk.entity)
      BY <2>3, <2>4, <2>5 DEF RenderedLine
    <2>7. /\ Rendered(line.chunk.entity).codes = line.chunk.entity.codes
          /\ DOMAIN Rendered(line.chunk.entity) = DOMAIN Blank /\ "codes" \in DOMAIN Blank
      BY <2>4 DEF Rendered, Blank
    <2> QED
      BY <2>3, <2>4, <2>6, <2>7
  <1>3. ASSUME NEW n \in DOMAIN chunks PROVE first(n) \in 1..n /\ isFirst(n, first(n))
    <2> DEFINE S == {m \in 1..n : codes(m) = codes(n)}
    <2>1. n \in Nat \ {0} /\ S \subseteq 1..n /\ n \in S
      BY <1>1
    <2>2. PICK m \in S : \A k \in 1..m - 1 : k \notin S
      <3> HIDE DEF S
      <3> QED
        BY <2>1, Least
    <2>3. m \in 1..n /\ isFirst(n, m)
      BY <2>1, <2>2
    <2> HIDE DEF isFirst
    <2> QED
      BY <2>3
  <1> HIDE DEF first
  <1>4. ASSUME NEW n \in DOMAIN chunks
        PROVE  /\ first(n) \in DOMAIN chunks /\ first(n) \in 1..n
               /\ codes(first(n)) = codes(n) /\ first(first(n)) = first(n)
    <2>1. /\ first(n) \in DOMAIN chunks /\ first(n) \in 1..n
          /\ codes(first(n)) = codes(n) /\ \A k \in 1..first(n) - 1 : codes(k) # codes(n)
      BY <1>1, <1>3
    <2>2. /\ first(first(n)) \in 1..first(n) /\ codes(first(first(n))) = codes(first(n))
      BY <1>3, <2>1
    <2> QED
      BY <1>1, <2>1, <2>2
  <1> HIDE DEF codes, isFirst
  <1>5. ASSUME NEW n \in DOMAIN chunks, NEW m \in DOMAIN chunks PROVE
          out[n].alias # NoMark =>
            /\ codes(n) # {} /\ first(n) # n /\ out[n].alias = chunks[first(n)].id
            /\ out[m].anchor = out[n].alias <=> m = first(n)
    <2>1. chunks[m].id # NoMark /\ (chunks[m].id = chunks[first(n)].id => m = first(n))
      BY <1>4 DEF IdsApart
    <2> QED
      BY <1>2, <1>4, <2>1
  <1>6. ASSUME NEW n \in DOMAIN chunks, out[n].alias # NoMark
        PROVE  AnchorBefore(out, n) = {first(n)}
    <2>1. first(n) \in 1..n - 1 /\ n \in Nat /\ 1..n - 1 \subseteq DOMAIN chunks
      BY <1>1, <1>4, <1>5, <1>6
    <2> QED
      BY <1>4, <1>5, <1>6, <2>1 DEF AnchorBefore
  <1>7. AliasesResolve(out)
    BY <1>6 DEF AliasesResolve
  <1>8. ASSUME NEW n \in DOMAIN chunks PROVE LoadedEntity(out, n).codes = codes(n)
    <2>1. CASE out[n].alias = NoMark
      <3>1. LoadedEntity(out, n) = out[n].chunk.entity
        BY <2>1 DEF LoadedEntity
      <3>2. codes(n) = {} \/ first(n) = n
        BY <1>2, <1>4, <2>1 DEF IdsApart
      <3> QED
        BY <1>2, <3>1, <3>2
    <2>2. CASE out[n].alias # NoMark
      <3>1. (CHOOSE m \in AnchorBefore(out, n) : TRUE) = first(n)
        BY <1>6, <2>2
      <3>2. LoadedEntity(out, n) = [out[n].chunk.entity EXCEPT
                                      !.codes = out[first(n)].chunk.entity.codes]
        BY <2>2, <3>1 DEF LoadedEntity
      <3>3. LoadedEntity(out, n).codes = out[first(n)].chunk.entity.codes
        BY <1>2, <3>2
      <3> QED
        BY <1>2, <1>4, <3>3
    <2> QED
      BY <2>1, <2>2
  <1> QED
    BY <1>7, <1>8 DEF codes

\* Hence every line of the package loads with the codes of the chunk that has its id.
LEMMA PackageCodes ==
  ASSUME NEW chunks, ChunksOk(chunks), IdsApart(chunks), NEW out, out = PackageOf(chunks)
  PROVE  /\ AliasesResolve(out)
         /\ \A n \in DOMAIN out, m \in DOMAIN chunks :
              chunks[m].id = out[n].chunk.id =>
                LoadedEntity(out, n).codes = chunks[m].entity.codes
  <1> DEFINE named == MakeNamesUnique(chunks)
             sorted == InOutputOrder(named)
  <1>1. /\ IsSeq(named) /\ DOMAIN named = DOMAIN chunks
        /\ \A i \in DOMAIN chunks : SameChunk(named[i], chunks[i])
    BY NamesKeep
  <1>2. ChunksOk(named)
    BY <1>1, SameOk DEF ChunksOk
  <1>3. PICK p \in Injection(DOMAIN chunks, DOMAIN chunks) :
          sorted = [n \in DOMAIN chunks |-> named[p[n]]]
    BY <1>1, <1>2, OrderKeeps
  <1> HIDE DEF named
  <1>4. DOMAIN sorted = DOMAIN chunks /\ IsSeq(sorted)
    BY <1>1, <1>3, SeqIs
  <1>5. out = [n \in DOMAIN sorted |-> RenderedLine(ShareCodes(sorted)[n])]
    BY DEF PackageOf, RenderedLine, ShareCodes, named
  <1> HIDE DEF sorted
  <1>6. \A n \in DOMAIN chunks :
          p[n] \in DOMAIN chunks /\ sorted[n] = named[p[n]] /\ SameChunk(sorted[n], chunks[p[n]])
    BY <1>1, <1>3 DEF Injection
  <1>7. ChunksOk(sorted)
    BY <1>2, <1>1, <1>4, <1>6 DEF ChunksOk
  <1>8. IdsApart(sorted)
    <2>1. \A n, k \in DOMAIN chunks : p[n] = p[k] => n = k
      BY DEF Injection, IsInjective
    <2>2. \A n \in DOMAIN chunks : sorted[n].id = chunks[p[n]].id
      BY <1>6 DEF SameChunk
    <2> QED
      BY <1>4, <1>6, <2>1, <2>2 DEF IdsApart
  <1>9. /\ AliasesResolve(out)
        /\ \A n \in DOMAIN sorted : LoadedEntity(out, n).codes = sorted[n].entity.codes
    BY <1>5, <1>7, <1>8, CodesShared
  <1>10. ASSUME NEW n \in DOMAIN chunks, NEW m \in DOMAIN chunks, chunks[m].id = out[n].chunk.id
         PROVE  LoadedEntity(out, n).codes = chunks[m].entity.codes
    <2>1. LineOf(out[n], sorted[n])
      <3>1. DOMAIN ShareCodes(sorted) = DOMAIN sorted
        BY DEF ShareCodes
      <3> QED
        BY <1>4, <1>5, <1>7, <3>1, ShareKeeps
    <2>2. out[n].chunk.id = chunks[p[n]].id /\ sorted[n].entity = chunks[p[n]].entity
      BY <1>6, <2>1 DEF LineOf, SameChunk
    <2>3. m = p[n]
      BY <1>6, <1>10, <2>2 DEF IdsApart
    <2> QED
      BY <1>4, <1>9, <2>2, <2>3
  <1>11. DOMAIN out = DOMAIN chunks
    BY <1>4, <1>5
  <1> QED
    BY <1>9, <1>10, <1>11

\* The texts of a fault slot reach it through anchor and alias (CodesArrive,
\* _share_codes_blocks()): however many slots share a map of codes, and however the
\* package is sorted, every alias has its anchor before it, and the slot that is loaded has
\* the codes it was given.  The names of the anchors are the ids of the slots, which are
\* told apart by a number where the words are the same (_make_obj_id()), so str() has to
\* write different numbers differently; TLC's ToString() is defined by an unspecified
\* choice, hence the hypothesis.
THEOREM CodesReachTheirSlots ==
  ASSUME NumbersDiffer, NEW Jobs, \A j \in Jobs : JobOk(j)
  PROVE  (\E j \in Jobs : Init(j)) /\ [][Next]_vars => []CodesArrive
  <1> DEFINE Inv == ConfigInv /\ CodesArrive
  <1>1. (\E j \in Jobs : Init(j)) => Inv
    BY InitConfig DEF Init, CodesArrive
  <1>2. Inv /\ [Next]_vars => Inv'
    <2> SUFFICES ASSUME ConfigInv, CodesArrive, [Next]_vars PROVE CodesArrive'
      BY ConfigStep
    <2>1. CASE WritePackage
      <3>1. output' = PackageOf(gen.chunks) /\ gen' = gen
        BY <2>1 DEF WritePackage, PackageOf
      <3>2. ChunksOk(gen.chunks) /\ IdsApart(gen.chunks)
        BY DEF ConfigInv, GenInv, GenOk, ChunksOk, IdsKnown
      <3>3. /\ AliasesResolve(output')
            /\ \A n \in DOMAIN output', m \in DOMAIN gen.chunks :
                 gen.chunks[m].id = output'[n].chunk.id =>
                   LoadedEntity(output', n).codes = gen.chunks[m].entity.codes
        BY <3>1, <3>2, PackageCodes
      <3> QED
        BY <3>1, <3>3 DEF CodesArrive, EntityOf
    <2>2. CASE stage' # "written"
      BY <2>2 DEF CodesArrive
    <2>3. CASE UNCHANGED <<gen, output, stage>>
      BY <2>3 DEF CodesArrive, EntityOf, AliasesResolve, AnchorBefore, LoadedEntity
    <2> QED
      BY <2>1, <2>2, <2>3
         DEF Next, vars, Take, SkipIdentification, DropWideAddress, DeferHistory,
             FanOutSchaltzeiten, FanOutHydro, EmitAction, EmitEntity, RowsDone, EmitHistory,
             LoadConfiguration, ToCodeEntity, SetUp
  <1> QED
    BY <1>1, <1>2, PTL

----------------------------------------------------------------------------
\* What is written and where: the field of a row among the bytes of its block.

Writers == {"number", "select", "switch"}
SamePlace(e, s) ==
  /\ e.addr = s.addr /\ e.kind = s.kind /\ e.mask = s.mask /\ e.state = s.state
  /\ e.off = s.off /\ e.blen = s.blen /\ e.length = s.length

\* A write with the rest of the block, of a block nothing read-only is in; a bit field in
\* its byte, alone or in its block; a whole scalar.
InBlock(e, ev, byte, protocol, roBlocks) ==
  /\ e.off = <<byte>> /\ e.length = BlockLen(ev)
  /\ <<ev.addr, AccessFor(ev, protocol)>> \notin roBlocks
BitsWritten(e, ev, f, protocol, roBlocks) ==
  /\ e.mask = <<f.max * 2^f.shift>> /\ e.state = <<>> /\ e.blen = <<>>
  /\ \/ e.off = <<>> /\ e.length = 1 /\ f.byte = 0
     \/ InBlock(e, ev, f.byte, protocol, roBlocks)
ScalarWritten(e, ev, protocol, roBlocks) ==
  /\ ev.bitLength = 0 /\ e.mask = <<>>
  /\ \/ e.off = <<>> /\ e.blen = <<>> /\ e.length = FieldLen(ev) /\ ev.bytePosition = 0
     \/ /\ e.state = <<>> /\ e.blen = NotOne(FieldLen(ev))
        /\ InBlock(e, ev, ev.bytePosition, protocol, roBlocks)
Written(e, ev, protocol, roBlocks) ==
  /\ e.addr = ev.addr /\ e.kind = ""
  /\ \/ /\ BitField(ev) # <<>>
        /\ BitsWritten(e, ev, BitField(ev)[1], protocol, roBlocks)
     \/ ScalarWritten(e, ev, protocol, roBlocks)

LEMMA ByteOf ==
  ASSUME NEW p \in Nat
  PROVE  p \div 8 \in Nat /\ p % 8 \in 0..7 /\ p = 8 * (p \div 8) + (p % 8)
  OBVIOUS

LEMMA FieldIs ==
  ASSUME NEW ev, RowOk(ev), BitField(ev) # <<>>
  PROVE  LET f == BitField(ev)[1] IN
         /\ f.byte = ev.bitPosition \div 8 /\ f.max = 2^ev.bitLength - 1
         /\ f.shift = 8 - (ev.bitPosition % 8) - ev.bitLength
         /\ ev.bitLength \in 1..8 /\ (ev.bitPosition % 8) + ev.bitLength <= 8
         /\ f.byte \in Nat /\ f.shift \in 0..8 - ev.bitLength
  <1> DEFINE byte == ev.bitPosition \div 8
             shift == 8 - (ev.bitPosition % 8) - ev.bitLength
             max == 2^ev.bitLength - 1
             f == [byte |-> byte, shift |-> shift, max |-> max]
  <1>1. ev.bitLength \in 1..8 /\ ~(shift < 0) /\ BitField(ev) = <<f>>
    BY DEF BitField
  <1>2. byte \in Nat /\ ev.bitPosition % 8 \in 0..7
    BY ByteOf DEF RowOk
  <1>3. (ev.bitPosition % 8) + ev.bitLength <= 8 /\ shift \in 0..8 - ev.bitLength
    BY <1>1, <1>2
  <1> HIDE DEF byte, shift, max
  <1>4. BitField(ev)[1].byte = byte /\ BitField(ev)[1].shift = shift /\ BitField(ev)[1].max = max
    BY <1>1
  <1> QED
    BY <1>1, <1>2, <1>3, <1>4 DEF byte, shift, max

LEMMA LengthsAre ==
  ASSUME NEW ev, RowOk(ev)
  PROVE  BlockLen(ev) \in Nat \ {0} /\ FieldLen(ev) \in Nat \ {0}
  BY DEF RowOk, BlockLen, FieldLen, Or

LEMMA BitEnumPlace ==
  ASSUME NEW ev, NEW f, NEW opts, NEW pair, NEW shape, Built(shape), NEW writable,
         BitEnumSpec(ev, f, opts, pair, shape, writable).platform \in Writers
  PROVE  SamePlace(BitEnumSpec(ev, f, opts, pair, shape, writable), shape) /\ writable
  BY DEF BitEnumSpec, Built, Writers, SamePlace, At, Blank

LEMMA BitNumberPlace ==
  ASSUME NEW ev, NEW f, NEW v, NEW shape, Built(shape), NEW writable,
         BitNumber(ev, f, v, shape, writable).platform \in Writers
  PROVE  SamePlace(BitNumber(ev, f, v, shape, writable), shape) /\ writable
  BY DEF BitNumber, BitNumberSpec, Built, Writers, SamePlace, Blank

LEMMA BitFieldWritten ==
  ASSUME NEW ev, RowOk(ev), NEW protocol, NEW german, NEW partialWrites, NEW roBlocks,
         NEW e, e.platform \in Writers,
         e = BuildBitField(ev, protocol, german, partialWrites, BitField(ev),
                           BitBlockMode(ev, protocol, partialWrites, roBlocks))
  PROVE  Written(e, ev, protocol, roBlocks)
  <1> DEFINE field == BitField(ev)
             f == field[1]
             blockMode == BitBlockMode(ev, protocol, partialWrites, roBlocks)
             shape == BitShape(ev, f, blockMode \/ f.byte > 0)
             writable == BitWritable(ev, protocol, partialWrites, blockMode)
  <1>1. ~BitFieldBlocked(ev, field)
    BY DEF BuildBitField, At, Blank, Writers
  <1>2. SamePlace(e, shape) /\ writable
    <2>1. Built(shape)
      BY BitShapeBuilt
    <2> HIDE DEF shape, writable
    <2>2. e = BitFieldSpec(ev, protocol, f, DedupOptionLabels(EnumOptions(ev, german)),
                           shape, writable)
      BY <1>1 DEF BuildBitField, shape, writable
    <2> QED
      BY <2>1, <2>2, BitEnumPlace, BitNumberPlace DEF BitFieldSpec
  <1>3. field # <<>> /\ f.byte \in Nat /\ f.byte < BlockLen(ev)
    <2>1. field # <<>> /\ ~(f.byte >= BlockLen(ev))
      BY <1>1 DEF BitFieldBlocked
    <2>2. f.byte \in Nat
      BY <2>1, FieldIs
    <2> QED
      BY <2>1, <2>2, LengthsAre
  <1>4. blockMode => <<ev.addr, AccessFor(ev, protocol)>> \notin roBlocks
    BY DEF BitBlockMode, BlockWriteBlocked
  <1>5. blockMode \/ BlockLen(ev) = 1
    BY <1>2 DEF BitWritable
  <1> HIDE DEF blockMode, f
  <1>6. /\ shape.addr = ev.addr /\ shape.kind = "" /\ shape.state = <<>> /\ shape.blen = <<>>
        /\ shape.mask = <<f.max * 2^f.shift>>
        /\ IF blockMode \/ f.byte > 0 THEN shape.off = <<f.byte>> /\ shape.length = BlockLen(ev)
           ELSE shape.off = <<>> /\ shape.length = 1
    BY DEF BitShape, At, Blank
  <1> HIDE DEF shape
  <1>7. BitsWritten(e, ev, f, protocol, roBlocks)
    <2>1. /\ ~(blockMode \/ f.byte > 0) => f.byte = 0
          /\ f.byte > 0 => blockMode
      BY <1>3, <1>5
    <2>2. e.mask = <<f.max * 2^f.shift>> /\ e.state = <<>> /\ e.blen = <<>>
      BY <1>2, <1>6 DEF SamePlace
    <2>3. e.off = shape.off /\ e.length = shape.length
      BY <1>2 DEF SamePlace
    <2> QED
      BY <1>4, <1>6, <2>1, <2>2, <2>3 DEF BitsWritten, InBlock
  <1> QED
    BY <1>2, <1>3, <1>6, <1>7 DEF SamePlace, Written, f

LEMMA SwitchOrSelectPlace ==
  ASSUME NEW ev, NEW opts, NEW pair, NEW blockMode
  PROVE  SamePlace(SwitchOrSelectSpec(ev, opts, pair, blockMode),
                   [WriteShape(ev, blockMode) EXCEPT !.state = StateAddr(ev)])
  BY WriteShapeBuilt DEF SwitchOrSelectSpec, SamePlace, Built, Blank

LEMMA NumberPlace ==
  ASSUME NEW ev, NEW conv, NEW explicit, NEW blockMode
  PROVE  SamePlace(NumberSpec(ev, conv, explicit, blockMode), WriteShape(ev, blockMode))
  BY WriteShapeBuilt DEF NumberSpec, SamePlace, Built, Blank

LEMMA ScalarWrites ==
  ASSUME NEW ev, RowOk(ev), NEW protocol, NEW german, NEW partialWrites, NEW roBlocks,
         ev.bitLength = 0 \/ (ev.bitLength = 1 /\ ~IsWritable(ev, protocol)),
         NEW e, e.platform \in Writers,
         e = BuildScalar(ev, protocol, german, ScalarValue(ev, protocol), partialWrites, roBlocks)
  PROVE  Written(e, ev, protocol, roBlocks)
  <1> DEFINE v == ScalarValue(ev, protocol)
             blockMode == ScalarBlockMode(ev, v, protocol, partialWrites, roBlocks)
             opts == DedupOptionLabels(EnumOptions(ev, german))
             writable == Encodes(v) /\ (IsPart(ev) => blockMode)
             explicit == ExplicitSign(ev, ev.lower # <<>> /\ ev.lower[1] < 0, v.conv \in DefaultSigned)
  <1>1. /\ writable
        /\ \/ e = SwitchOrSelectSpec(ev, opts, EnumBoolPair(ev), blockMode)
           \/ e = NumberSpec(ev, v.conv, explicit, blockMode)
    <2>1. At(ev).platform \notin Writers /\ BinarySensorSpec(ev).platform \notin Writers
      BY DEF At, Blank, Writers, BinarySensorSpec
    <2>2. EnumTextSpec(ev, opts).platform \notin Writers
      BY ReadShapeBuilt DEF EnumTextSpec, EnumText, Writers, Built, Blank
    <2>3. \A d : ScalarSensor(ev, protocol, v, d).platform \notin Writers
      BY <2>1, ReadShapeBuilt DEF ScalarSensor, SensorSpec, Writers, Built, Blank
    <2> HIDE DEF v, blockMode, opts
    <2> QED
      BY <2>1, <2>2, <2>3 DEF BuildScalar, ScalarSpec, v, blockMode, opts
  <1>2. ev.bitLength = 0
    BY <1>1 DEF Encodes, ScalarValue, ScalarValueOf, ValueByFactor, ValueByPreset, Value
  <1>3. IF blockMode THEN IsPart(ev) /\ <<ev.addr, AccessFor(ev, protocol)>> \notin roBlocks
                          /\ StateAddr(ev) = <<>>
        ELSE ev.bytePosition = 0
    BY <1>1 DEF ScalarBlockMode, BlockWriteBlocked, StateAddr, IsPart, RowOk
  <1>4. \/ SamePlace(e, WriteShape(ev, blockMode))
        \/ SamePlace(e, [WriteShape(ev, blockMode) EXCEPT !.state = StateAddr(ev)])
    BY <1>1, SwitchOrSelectPlace, NumberPlace
  <1> HIDE DEF blockMode
  <1>5. LET s == WriteShape(ev, blockMode) IN
        /\ DOMAIN s = DOMAIN Blank
        /\ s.addr = ev.addr /\ s.kind = "" /\ s.state = <<>> /\ s.mask = <<>>
        /\ IF blockMode THEN /\ s.off = <<ev.bytePosition>> /\ s.length = BlockLen(ev)
                             /\ s.blen = NotOne(FieldLen(ev))
           ELSE s.off = <<>> /\ s.length = FieldLen(ev) /\ s.blen = <<>>
    BY DEF WriteShape, At, Blank
  <1>6. e.addr = ev.addr /\ e.kind = "" /\ e.mask = <<>> /\ (blockMode => e.state = <<>>)
        /\ IF blockMode THEN /\ e.off = <<ev.bytePosition>> /\ e.length = BlockLen(ev)
                             /\ e.blen = NotOne(FieldLen(ev))
           ELSE e.off = <<>> /\ e.length = FieldLen(ev) /\ e.blen = <<>>
    BY <1>3, <1>4, <1>5 DEF SamePlace, Blank
  <1> QED
    BY <1>2, <1>3, <1>6 DEF Written, ScalarWritten, InBlock

\* Whatever the generator lets be written.
LEMMA OnlyWritten ==
  ASSUME NEW ev, RowOk(ev), NEW protocol, NEW german, NEW partialWrites, NEW roBlocks,
         NEW e, e = BuildEntity(ev, protocol, german, partialWrites, roBlocks),
         e.platform \in Writers
  PROVE  Written(e, ev, protocol, roBlocks)
  <1> DEFINE bits == BuildBitField(ev, protocol, german, partialWrites, BitField(ev),
                                   BitBlockMode(ev, protocol, partialWrites, roBlocks))
             scalar == BuildScalar(ev, protocol, german, ScalarValue(ev, protocol),
                                   partialWrites, roBlocks)
             poll == PollFor(ev, Preset(ev.conversion)[2], protocol)
  <1>1. /\ At(ev).platform \notin Writers
        /\ \A kind : StringSpec(ev, kind).platform \notin Writers
    BY DEF At, StringSpec, Blank, Writers
  <1>2. \/ e = [bits EXCEPT !.poll = poll]
        \/ /\ e = [scalar EXCEPT !.poll = poll]
           /\ ~(ev.bitLength > 1 \/ (ev.bitLength = 1 /\ IsWritable(ev, protocol)))
    <2>1. ASSUME NEW s, e = [s EXCEPT !.poll = poll], Built(s) PROVE s.platform \in Writers
      BY <2>1 DEF Built, Blank
    <2>2. ASSUME NEW s, e = [s EXCEPT !.poll = poll], s = At(ev) \/ \E kind : s = StringSpec(ev, kind)
          PROVE  FALSE
      BY <1>1, <2>1, <2>2, AtBuilt, StringBuilt
    <2> HIDE DEF bits, scalar, poll
    <2> QED
      BY <2>2 DEF BuildEntity, bits, scalar, poll
  <1>3. Built(bits) /\ Built(scalar)
    BY BitFieldBuilt, ScalarBuilt
  <1>4. ASSUME NEW s, Built(s), e = [s EXCEPT !.poll = poll]
        PROVE  s.platform \in Writers /\ SamePlace(e, s)
    BY <1>4 DEF SamePlace, Built, Blank
  <1>5. ASSUME NEW s, SamePlace(e, s), Written(s, ev, protocol, roBlocks)
        PROVE  Written(e, ev, protocol, roBlocks)
    BY <1>5 DEF SamePlace, Written, BitsWritten, ScalarWritten, InBlock
  <1>6. CASE e = [bits EXCEPT !.poll = poll]
    <2>1. Written(bits, ev, protocol, roBlocks)
      BY <1>3, <1>4, <1>6, BitFieldWritten
    <2> QED
      BY <1>3, <1>4, <1>5, <1>6, <2>1
  <1>7. CASE /\ e = [scalar EXCEPT !.poll = poll]
             /\ ~(ev.bitLength > 1 \/ (ev.bitLength = 1 /\ IsWritable(ev, protocol)))
    <2>1. ev.bitLength = 0 \/ (ev.bitLength = 1 /\ ~IsWritable(ev, protocol))
      BY <1>7 DEF RowOk
    <2>2. Written(scalar, ev, protocol, roBlocks)
      BY <1>3, <1>4, <1>7, <2>1, ScalarWrites
    <2> QED
      BY <1>3, <1>4, <1>5, <1>7, <2>2
  <1> QED
    BY <1>2, <1>6, <1>7

----------------------------------------------------------------------------
\* Masks: the bits of a field are the ones of its mask.

Power(n) == 2^n

LEMMA Powers ==
  /\ Power(0) = 1 /\ Power(1) = 2 /\ Power(2) = 4 /\ Power(3) = 8 /\ Power(4) = 16
  /\ Power(5) = 32 /\ Power(6) = 64 /\ Power(7) = 128 /\ Power(8) = 256
  BY DEF Power

LEMMA MaskIs ==
  ASSUME NEW l \in 1..8, NEW s \in 0..8 - l, NEW b \in 0..7
  PROVE  ((((2^l - 1) * 2^s) \div 2^b) % 2 = 1) <=> b \in s..s + l - 1
  <1>1. l = 1 \/ l = 2 \/ l = 3 \/ l = 4 \/ l = 5 \/ l = 6 \/ l = 7 \/ l = 8
    OBVIOUS
  <1>2. s = 0 \/ s = 1 \/ s = 2 \/ s = 3 \/ s = 4 \/ s = 5 \/ s = 6 \/ s = 7
    OBVIOUS
  <1>3. b = 0 \/ b = 1 \/ b = 2 \/ b = 3 \/ b = 4 \/ b = 5 \/ b = 6 \/ b = 7
    OBVIOUS
  <1>4. ((((Power(l) - 1) * Power(s)) \div Power(b)) % 2 = 1) <=> b \in s..s + l - 1
    BY Powers, <1>1, <1>2, <1>3
  <1> QED
    BY <1>4 DEF Power

\* BitPosition counts from the most significant bit of its byte.
LEMMA RowBitsAre ==
  ASSUME NEW ev, RowOk(ev), BitField(ev) # <<>>
  PROVE  LET f == BitField(ev)[1] IN
         RowBits(ev) = {b \in Bits({f.byte}) : b[2] \in f.shift..f.shift + ev.bitLength - 1}
  <1> DEFINE p == ev.bitPosition
             l == ev.bitLength
             q == p \div 8
             r == p % 8
             s == 8 - r - l
             S == {b \in Bits({q}) : b[2] \in s..s + l - 1}
  <1>1. p \in Nat /\ l \in 1..8 /\ r + l <= 8
    BY FieldIs DEF RowOk
  <1>2. q \in Nat /\ r \in 0..7 /\ p = 8 * q + r
    BY <1>1, ByteOf
  <1>3. BitField(ev)[1].byte = q /\ BitField(ev)[1].shift = s
    BY FieldIs
  <1>4. RowBits(ev) = {<<i \div 8, 7 - (i % 8)>> : i \in p..p + l - 1}
    BY <1>1 DEF RowBits
  <1> HIDE DEF p, l, q, r
  <1>5. ASSUME NEW k \in 0..l - 1 PROVE (p + k) \div 8 = q /\ (p + k) % 8 = r + k
    BY <1>1, <1>2
  <1>6. ASSUME NEW i \in p..p + l - 1 PROVE <<i \div 8, 7 - (i % 8)>> \in S
    <2>1. i - p \in 0..l - 1 /\ i = p + (i - p)
      BY <1>1
    <2>2. i \div 8 = q /\ i % 8 = r + (i - p)
      BY <1>5, <2>1
    <2> DEFINE d == 7 - (r + (i - p))
    <2>3. d \in 0..7 /\ d \in s..s + l - 1
      BY <1>1, <1>2, <2>1
    <2> HIDE DEF d, s
    <2>4. <<q, d>> \in S
      BY <2>3 DEF Bits
    <2> QED
      BY <2>2, <2>4 DEF d
  <1>7. ASSUME NEW b \in S PROVE \E i \in p..p + l - 1 : b = <<i \div 8, 7 - (i % 8)>>
    <2>1. b = <<q, b[2]>> /\ b[2] \in 0..7 /\ b[2] \in s..s + l - 1
      BY DEF Bits
    <2> DEFINE x == b[2]
               k == 7 - r - x
    <2>2. k \in 0..l - 1 /\ x = 7 - (r + k)
      <3>1. x \in 0..7 /\ x \in 8 - r - l..8 - r - l + l - 1
        BY <2>1
      <3> HIDE DEF x
      <3> QED
        BY <1>1, <1>2, <3>1
    <2> HIDE DEF k
    <2>3. p + k \in p..p + l - 1 /\ b = <<(p + k) \div 8, 7 - ((p + k) % 8)>>
      BY <1>1, <1>5, <2>1, <2>2
    <2> QED
      BY <2>3
  <1> HIDE DEF S
  <1>8. RowBits(ev) = S
    BY <1>4, <1>6, <1>7
  <1> QED
    BY <1>3, <1>8 DEF S, l

LEMMA MaskTakesRow ==
  ASSUME NEW ev, RowOk(ev), BitField(ev) # <<>>
  PROVE  LET f == BitField(ev)[1] IN
         {b \in Bits({f.byte}) : ((f.max * 2^f.shift) \div 2^b[2]) % 2 = 1} = RowBits(ev)
  <1> DEFINE f == BitField(ev)[1]
             l == ev.bitLength
             s == f.shift
  <1>1. l \in 1..8 /\ s \in 0..8 - l /\ f.max = 2^l - 1
    BY FieldIs
  <1>2. \A b \in Bits({f.byte}) : b[2] \in 0..7
    BY DEF Bits
  <1>3. \A b \in Bits({f.byte}) :
          ((f.max * 2^s) \div 2^b[2]) % 2 = 1 <=> b[2] \in s..s + l - 1
    BY <1>1, <1>2, MaskIs
  <1>4. RowBits(ev) = {b \in Bits({f.byte}) : b[2] \in s..s + l - 1}
    BY RowBitsAre
  <1> HIDE DEF f, s
  <1> QED
    BY <1>3, <1>4 DEF f, s

----------------------------------------------------------------------------
\* What the compiled entity sends: one telegram, to the address of the row.
LEMMA WriterSends ==
  ASSUME NEW e, DOMAIN e = DOMAIN Blank, e.platform \in Writers, e.length # 0, e.kind = "",
         e.off # <<>> => e.state = <<>>
  PROVE  LET c == ToCode(e) IN
         /\ c.access = e.access /\ c.mask = e.mask
         /\ IF e.off = <<>> THEN c.extract = <<>> /\ c.block = <<>> /\ c.read.length = e.length
            ELSE /\ c.extract = <<[off |-> e.off[1], width |-> FieldWidth(e)]>>
                 /\ c.block = c.extract
         /\ Channels(e)[1].write[1] = Telegram(e.addr, e.length)
  <1> DEFINE d == Defaults(e)
             c == ToCode(e)
  <1>1. /\ SamePlace(d, e) /\ d.access = e.access /\ d.platform = e.platform
        /\ d.platform \in WriteDomains /\ d.platform \notin {"text", "climate", "button"}
    BY DEF Defaults, SamePlace, Writers, WriteDomains, Blank
  <1>2. c.access = d.access /\ c.mask = d.mask /\ c.read = ReadTelegram(d)
        /\ c.extract = Extract(d) /\ c.block = IF IsBlockMode(d) THEN Extract(d) ELSE <<>>
    BY <1>1 DEF ToCode
  <1> HIDE DEF d, c
  <1>3. ReadTelegram(d) = Telegram(IF e.state = <<>> THEN e.addr ELSE e.state[1], e.length)
    BY <1>1 DEF ReadTelegram, SamePlace
  <1>4. FieldWidth(d) = FieldWidth(e) /\ d.off = e.off /\ d.state = e.state
    BY <1>1 DEF SamePlace, FieldWidth
  <1>5. IsBlockMode(d) <=> e.off # <<>>
    BY <1>4 DEF IsBlockMode
  <1>6. Channels(e)[1].write =
          IF WriteTelegram(d) = <<>> THEN <<ReadTelegram(d)>> ELSE WriteTelegram(d)
    <2>1. e.platform # "climate" /\ d.kind \notin HubFed
      BY <1>1 DEF SamePlace, HubFed, Writers
    <2> DEFINE w == IF d.platform \notin WriteDomains \cup {"button"} THEN <<>>
                    ELSE IF WriteTelegram(d) = <<>> THEN <<ReadTelegram(d)>> ELSE WriteTelegram(d)
    <2>2. Channels(e) = <<Channel(ReadTelegram(d), w, d.access)>>
      BY <2>1 DEF Channels, d
    <2>3. w = IF WriteTelegram(d) = <<>> THEN <<ReadTelegram(d)>> ELSE WriteTelegram(d)
      BY <1>1
    <2> HIDE DEF w
    <2>4. Channels(e)[1].write = w
      <3> DEFINE channel == Channel(ReadTelegram(d), w, d.access)
      <3>1. channel.write = w
        BY DEF Channel
      <3>2. Channels(e) = <<channel>>
        BY <2>2
      <3> HIDE DEF channel
      <3>3. Channels(e)[1] = channel
        BY <3>2, SingleIs
      <3> QED
        BY <3>1, <3>3
    <2> QED
      BY <2>3, <2>4
  <1>7. Channels(e)[1].write[1] = Telegram(e.addr, e.length)
    <2> DEFINE w == WriteTelegram(d)
               sent == Channels(e)[1].write
    <2>1. sent = IF w = <<>> THEN <<ReadTelegram(d)>> ELSE w
      BY <1>6
    <2>2. CASE e.off # <<>> \/ e.state \in {<<>>, <<e.addr>>}
      <3>1. w = <<>>
        BY <1>1, <1>4, <1>5, <2>2 DEF WriteTelegram, SamePlace
      <3>2. e.state = <<>> \/ e.state[1] = e.addr
        BY <2>2, SingleIs
      <3>3. ReadTelegram(d) = Telegram(e.addr, e.length)
        BY <1>3, <3>2
      <3> HIDE DEF w, sent
      <3>4. sent = <<Telegram(e.addr, e.length)>>
        BY <2>1, <3>1, <3>3
      <3> QED
        BY <3>4, SingleIs DEF sent
    <2>3. CASE ~(e.off # <<>> \/ e.state \in {<<>>, <<e.addr>>})
      <3>1. w = <<Telegram(e.addr, e.length)>>
        BY <1>1, <1>4, <1>5, <2>3 DEF WriteTelegram, SamePlace
      <3> HIDE DEF w, sent
      <3>2. sent = <<Telegram(e.addr, e.length)>>
        BY <2>1, <3>1
      <3> QED
        BY <3>2, SingleIs DEF sent
    <2> QED
      BY <2>2, <2>3
  <1>8. c.access = e.access /\ c.mask = e.mask /\ c.read.length = e.length
    <2>1. ReadTelegram(d).length = e.length
      <3>1. \A addr : Telegram(addr, e.length).length = e.length
        BY DEF Telegram
      <3> QED
        BY <1>3, <3>1
    <2> QED
      BY <1>1, <1>2, <2>1 DEF SamePlace
  <1>9. IF e.off = <<>> THEN c.extract = <<>> /\ c.block = <<>>
        ELSE /\ c.extract = <<[off |-> e.off[1], width |-> FieldWidth(e)]>>
             /\ c.block = c.extract
    BY <1>2, <1>4, <1>5 DEF Extract
  <1> QED
    BY <1>7, <1>8, <1>9 DEF c

\* The property of one entity: of its telegram, of its bits, of its neighbours.
WritesField(e, ev, neighbours) ==
  LET c == ToCode(e)
      sent == Channels(e)[1].write[1]
      merged == c.block # <<>> \/ c.mask # <<>>
  IN /\ sent.addr = ev.addr
     /\ (IF merged THEN CodeBits(c) ELSE Bits(0..sent.length - 1)) = RowBits(ev)
     /\ merged /\ sent.length > 1 => neighbours

LEMMA WrittenField ==
  ASSUME NEW e, DOMAIN e = DOMAIN Blank, e.platform \in Writers,
         NEW ev, RowOk(ev), NEW protocol, NEW roBlocks, Written(e, ev, protocol, roBlocks)
  PROVE  WritesField(e, ev, <<ev.addr, AccessFor(ev, protocol)>> \notin roBlocks)
  <1> DEFINE c == ToCode(e)
             sent == Channels(e)[1].write[1]
             free == <<ev.addr, AccessFor(ev, protocol)>> \notin roBlocks
             f == BitField(ev)[1]
  <1>1. BlockLen(ev) \in Nat \ {0} /\ FieldLen(ev) \in Nat \ {0}
    BY LengthsAre
  <1>2. e.addr = ev.addr /\ e.kind = ""
    BY DEF Written
  <1>3. e.length # 0 /\ (e.off # <<>> => e.state = <<>>)
    <2>1. BitsWritten(e, ev, f, protocol, roBlocks) \/ ScalarWritten(e, ev, protocol, roBlocks)
      BY DEF Written
    <2> HIDE DEF f
    <2>2. e.length \in {1, BlockLen(ev), FieldLen(ev)}
      BY <2>1 DEF BitsWritten, ScalarWritten, InBlock
    <2>3. e.off # <<>> => e.state = <<>>
      BY <2>1 DEF BitsWritten, ScalarWritten, InBlock
    <2> QED
      BY <1>1, <2>2, <2>3
  <1>4. sent = Telegram(e.addr, e.length)
    BY <1>2, <1>3, WriterSends
  <1>5. /\ c.mask = e.mask
        /\ IF e.off = <<>> THEN c.extract = <<>> /\ c.block = <<>> /\ c.read.length = e.length
           ELSE /\ c.extract = <<[off |-> e.off[1], width |-> FieldWidth(e)]>>
                /\ c.block = c.extract
        /\ sent.addr = e.addr /\ sent.length = e.length
    <2>1. sent.addr = e.addr /\ sent.length = e.length
      <3> HIDE DEF sent
      <3> QED
        BY <1>4 DEF Telegram
    <2>2. /\ c.mask = e.mask
          /\ IF e.off = <<>> THEN c.extract = <<>> /\ c.block = <<>> /\ c.read.length = e.length
             ELSE /\ c.extract = <<[off |-> e.off[1], width |-> FieldWidth(e)]>>
                  /\ c.block = c.extract
      BY <1>2, <1>3, WriterSends
    <2> HIDE DEF c, sent
    <2> QED
      BY <2>1, <2>2
  <1> HIDE DEF c, sent, f, free
  <1>6. CASE BitField(ev) # <<>> /\ BitsWritten(e, ev, f, protocol, roBlocks)
    <2>1. f.byte \in Nat /\ Bits(f.byte..f.byte + 1 - 1) = Bits({f.byte})
      <3>1. f.byte \in Nat
        BY <1>6, FieldIs DEF f
      <3> QED
        BY <3>1 DEF Bits
    <2>2. FieldWidth(e) = 1 \/ e.off = <<>>
      BY <1>6 DEF BitsWritten, FieldWidth
    <2>3. CodeBits(c) = {b \in Bits({f.byte}) : (c.mask[1] \div 2^b[2]) % 2 = 1}
      <3>1. CASE e.off = <<>>
        <4>1. c.extract = <<>> /\ c.read.length = 1 /\ f.byte = 0 /\ c.mask # <<>>
          BY <1>5, <1>6, <3>1 DEF BitsWritten, InBlock
        <4> QED
          BY <2>1, <4>1 DEF CodeBits
      <3>2. CASE e.off # <<>>
        <4>1. c.extract = <<[off |-> f.byte, width |-> 1]>> /\ c.mask # <<>>
          BY <1>5, <1>6, <2>2, <3>2 DEF BitsWritten, InBlock
        <4> QED
          BY <2>1, <4>1 DEF CodeBits
      <3> QED
        BY <3>1, <3>2
    <2>4. c.mask[1] = f.max * 2^f.shift /\ c.mask # <<>>
      BY <1>5, <1>6 DEF BitsWritten
    <2>5. CodeBits(c) = RowBits(ev)
      BY <1>6, <2>3, <2>4, MaskTakesRow DEF f
    <2>6. sent.length > 1 => free
      BY <1>5, <1>6 DEF BitsWritten, InBlock, free
    <2> QED
      BY <1>2, <1>5, <2>4, <2>5, <2>6 DEF WritesField, c, sent, free
  <1>7. CASE ScalarWritten(e, ev, protocol, roBlocks)
    <2>1. RowBits(ev) = Bits(ev.bytePosition..ev.bytePosition + FieldLen(ev) - 1)
          /\ c.mask = <<>>
      BY <1>5, <1>7 DEF ScalarWritten, RowBits
    <2>2. CASE e.off = <<>>
      <3>1. /\ c.block = <<>> /\ ev.bytePosition = 0 /\ sent.length = FieldLen(ev)
        BY <1>5, <1>7, <2>2 DEF ScalarWritten, InBlock
      <3>2. Bits(0..sent.length - 1) = RowBits(ev)
        BY <1>1, <2>1, <3>1
      <3> QED
        BY <1>2, <1>5, <2>1, <3>1, <3>2 DEF WritesField, c, sent
    <2>3. CASE e.off # <<>>
      <3>1. /\ e.off = <<ev.bytePosition>> /\ e.blen = NotOne(FieldLen(ev)) /\ free
        BY <1>7, <2>3 DEF ScalarWritten, InBlock, free
      <3>2. FieldWidth(e) = FieldLen(ev)
        BY <3>1 DEF FieldWidth, NotOne
      <3>3. c.block # <<>> /\ c.extract = <<[off |-> ev.bytePosition, width |-> FieldLen(ev)]>>
        <4>1. e.off[1] = ev.bytePosition
          BY <3>1
        <4>2. c.extract = <<[off |-> ev.bytePosition, width |-> FieldLen(ev)]>>
              /\ c.block = c.extract
          BY <1>5, <2>3, <3>2, <4>1
        <4> QED
          BY <4>2
      <3>4. CodeBits(c) = RowBits(ev)
        BY <2>1, <3>3 DEF CodeBits
      <3> QED
        BY <1>2, <1>5, <3>1, <3>3, <3>4 DEF WritesField, c, sent, free
    <2> QED
      BY <2>2, <2>3
  <1> QED
    BY <1>6, <1>7 DEF Written, f

\* A write changes the bits of its row and no others, and takes nothing read-only along
\* (WritesOnlyItsField, emit_write_target() and _block_write_blocker()): for every row,
\* whatever its borders, options and conversion, and every device around it.
THEOREM WritesItsField ==
  ASSUME NEW Jobs, \A j \in Jobs : JobOk(j)
  PROVE  (\E j \in Jobs : Init(j)) /\ [][Next]_vars => []WritesOnlyItsField
  <1>1. (\E j \in Jobs : Init(j)) => ConfigInv
    BY InitConfig
  <1>2. ConfigInv => WritesOnlyItsField
    <2> SUFFICES ASSUME ConfigInv, NEW n \in OfRows, CodeOf(n).platform \in WriteDomains
                 PROVE  LET c == CodeOf(n)
                            ev == RowOf(n)
                            sent == Channels(EntityOf(n))[1].write[1]
                            merged == c.block # <<>> \/ c.mask # <<>>
                        IN /\ sent.addr = ev.addr
                           /\ (IF merged THEN CodeBits(c) ELSE Bits(0..sent.length - 1)) = RowBits(ev)
                           /\ merged /\ sent.length > 1 =>
                                \A r \in ToSet(job.rows) :
                                  r.addr = ev.addr /\ AccessFor(r, job.protocol) = c.access
                                    => IsWritable(r, job.protocol)
      BY DEF WritesOnlyItsField
    <2> DEFINE roBlocks == ReadOnlyBlocks(ToSet(job.rows), job.protocol)
               e == EntityOf(n)
               ev == RowOf(n)
    <2>1. stage = "written" /\ n \in DOMAIN output /\ output[n].chunk.row # <<>>
      BY DEF OfRows
    <2>2. PICK k : ChunkOk(k) /\ LineOf(output[n], k)
      <3>1. Packaged(output, gen.chunks) /\ ChunksOk(gen.chunks)
        BY <2>1 DEF ConfigInv, OutInv, GenInv, GenOk, ChunksOk
      <3> QED
        BY <2>1, <3>1 DEF Packaged, ChunksOk, Injection
    <2>3. k.row # <<>>
      BY <2>1, <2>2 DEF LineOf
    <2> DEFINE made == Of(ev)
               placed == ReadBy(made, k.entity.access, k.entity.prefix)
    <2>4. /\ ev = k.row[1] /\ RowOk(ev) /\ e = Rendered(placed)
          /\ k.entity.access = AccessFor(ev, job.protocol) /\ Built(made)
      BY <2>2, <2>3, RowLine, EntityBuilt DEF ChunkOk, Of
    <2> HIDE DEF ev, made, e
    <2>5. /\ DOMAIN e = DOMAIN Blank /\ SamePlace(e, made) /\ e.platform = made.platform
          /\ e.access = AccessFor(ev, job.protocol)
      BY <2>4 DEF Rendered, ReadBy, SamePlace, Built, Blank
    <2>6. e.platform \in Writers
      <3>1. CodeOf(n).platform = e.platform
        BY <2>5, DefaultsKeep DEF CodeOf, ToCode, e
      <3> QED
        BY <2>4, <2>5, <3>1 DEF Built, BuiltPlatforms, WriteDomains, Writers
    <2>7. Written(made, ev, job.protocol, roBlocks)
      BY <2>4, <2>5, <2>6, OnlyWritten DEF made, Of
    <2>8. Written(e, ev, job.protocol, roBlocks)
      BY <2>5, <2>7 DEF SamePlace, Written, BitsWritten, ScalarWritten, InBlock
    <2>9. WritesField(e, ev, <<ev.addr, AccessFor(ev, job.protocol)>> \notin roBlocks)
      BY <2>4, <2>5, <2>6, <2>8, WrittenField
    <2>10. CodeOf(n).access = AccessFor(ev, job.protocol)
      BY <2>5, DefaultsKeep DEF CodeOf, ToCode, e
    <2>11. ASSUME <<ev.addr, AccessFor(ev, job.protocol)>> \notin roBlocks,
                  NEW r \in ToSet(job.rows), r.addr = ev.addr,
                  AccessFor(r, job.protocol) = CodeOf(n).access
           PROVE  IsWritable(r, job.protocol)
      BY <2>10, <2>11 DEF ReadOnlyBlocks
    <2> QED
      BY <2>9, <2>11 DEF WritesField, CodeOf, e, ev
  <1> QED
    BY <1>1, <1>2, ConfigStep, PTL

----------------------------------------------------------------------------
\* Options: one of a set of indices has each number of predecessors, and a set of values
\* has a largest.

LEMMA Ranked ==
  ASSUME NEW K, IsFiniteSet(K), K \subseteq Nat, NEW n \in 1..Cardinality(K)
  PROVE  \E i \in K : Cardinality({j \in K : j < i}) = n - 1
  <1> DEFINE N == Cardinality(K)
             below(i) == {j \in K : j < i}
             place(i) == Cardinality(below(i))
             f == [i \in K |-> place(i) + 1]
  <1>1. N \in Nat /\ IsFiniteSet(1..N) /\ Cardinality(1..N) = N
    <2>1. N \in Nat
      BY FS_CardinalityType
    <2>2. IsFiniteSet(1..N) /\ Cardinality(1..N) = IF 1 > N THEN 0 ELSE N - 1 + 1
      BY <2>1, FS_Interval
    <2> QED
      BY <2>1, <2>2
  <1>2. ASSUME NEW i \in K
        PROVE  IsFiniteSet(below(i)) /\ place(i) \in Nat /\ place(i) < N
    <2>1. below(i) \in SUBSET (K \ {i})
      OBVIOUS
    <2>2. IsFiniteSet(K \ {i}) /\ Cardinality(K \ {i}) = N - 1
      BY FS_RemoveElement
    <2> QED
      BY <1>1, <2>1, <2>2, FS_Subset, FS_CardinalityType
  <1>3. ASSUME NEW i \in K, NEW j \in K, i < j PROVE place(i) < place(j)
    <2>1. below(i) \in SUBSET below(j) /\ i \in below(j) /\ i \notin below(i)
      <3>1. i \in Nat /\ j \in Nat
        OBVIOUS
      <3>2. \A k \in K : k \in Nat /\ (k < i => k < j)
        BY <1>3, <3>1
      <3>3. i \in below(j) /\ i \notin below(i)
        BY <1>3, <3>1
      <3>4. \A k \in below(i) : k \in below(j)
        BY <3>2
      <3> QED
        BY <3>3, <3>4
    <2>2. place(i) <= place(j) /\ (place(i) = place(j) => below(i) = below(j))
      BY <1>2, <2>1, FS_Subset
    <2> QED
      BY <1>2, <2>1, <2>2
  <1>4. f \in Injection(K, 1..N)
    <2>1. f \in [K -> 1..N]
      <3>1. ASSUME NEW i \in K PROVE place(i) + 1 \in 1..N
        <4>1. place(i) \in Nat /\ place(i) < N /\ N \in Nat
          BY <1>1, <1>2
        <4> HIDE DEF place, N
        <4> QED
          BY <4>1
      <3> HIDE DEF place
      <3> QED
        BY <3>1
    <2>2. \A i, j \in K : f[i] = f[j] => i = j
      <3> SUFFICES ASSUME NEW i \in K, NEW j \in K, f[i] = f[j] PROVE i = j
        OBVIOUS
      <3>1. place(i) = place(j) /\ i \in Nat /\ j \in Nat
        BY <1>2
      <3> QED
        BY <1>2, <1>3, <3>1
    <2> QED
      BY <2>1, <2>2 DEF Injection, IsInjective
  <1>5. f \in Surjection(K, 1..N)
    BY <1>1, <1>4, FS_Injection
  <1>6. PICK i \in K : f[i] = n
    BY <1>5 DEF Surjection
  <1> QED
    BY <1>2, <1>6

LEMMA Largest ==
  ASSUME NEW M \in Nat, NEW S, S \subseteq 0..M, S # {}
  PROVE  Max(S) \in S
  <1> DEFINE T == {M - x + 1 : x \in S}
  <1>0. \A x \in S : x \in 0..M /\ M - x + 1 \in T
    OBVIOUS
  <1>1. T \subseteq 1..M + 1 /\ T # {} /\ M + 1 \in Nat
    <2>1. ASSUME NEW t \in T PROVE t \in 1..M + 1
      BY <1>0
    <2>2. PICK x : x \in S
      OBVIOUS
    <2>3. M - x + 1 \in T
      BY <1>0, <2>2
    <2> QED
      BY <2>1, <2>3
  <1>5. \A t \in T : \E x \in S : t = M - x + 1
    OBVIOUS
  <1> HIDE DEF T
  <1>2. PICK m \in T : \A k \in 1..m - 1 : k \notin T
    BY <1>1, Least
  <1>3. PICK x \in S : m = M - x + 1
    BY <1>5
  <1>4. \A y \in S : x >= y
    <2> SUFFICES ASSUME NEW y \in S, y > x PROVE FALSE
      OBVIOUS
    <2>1. M - y + 1 \in T /\ M - y + 1 \in 1..m - 1
      BY <1>0, <1>3
    <2> QED
      BY <1>2, <2>1
  <1> QED
    BY <1>4 DEF Max

\* The values of one, two and three bytes.
Size(n) == 256^n
LEMMA Sizes == Size(1) = 256 /\ Size(2) = 65536 /\ Size(3) = 16777216
  BY SMT DEF Size

LEMMA OptionIs ==
  ASSUME NEW ev, ExportOk(ev), NEW german, NEW opts,
         opts = DedupOptionLabels(EnumOptions(ev, german)), NEW o \in ToSet(opts)
  PROVE  \E i \in DOMAIN ev.values : o[1] = ev.values[i].value /\ o[1] \in Nat
  <1> DEFINE first(i) == \A j \in 1..i - 1 : ev.values[j].value # ev.values[i].value
             kept == {i \in DOMAIN ev.values : ev.values[i].value >= 0 /\ first(i)}
             at(n) == CHOOSE i \in kept : Cardinality({j \in kept : j < i}) = n - 1
             all == EnumOptions(ev, german)
  <1>1. /\ DOMAIN all = 1..Cardinality(kept)
        /\ \A n \in DOMAIN all : all[n][1] = ev.values[at(n)].value
    BY DEF EnumOptions
  <1>2. /\ DOMAIN opts = DOMAIN all
        /\ \A n \in DOMAIN all : opts[n][1] = all[n][1]
    BY DEF DedupOptionLabels
  <1>3. IsFiniteSet(kept) /\ kept \subseteq Nat
    <2>1. PICK N \in Nat : DOMAIN ev.values = 1..N
      BY SeqLen DEF ExportOk
    <2>2. IsFiniteSet(1..N)
      BY FS_Interval
    <2>3. kept \in SUBSET (1..N)
      BY <2>1
    <2> QED
      BY <2>1, <2>2, <2>3, FS_Subset
  <1>4. \A n \in DOMAIN all : at(n) \in kept
    BY <1>1, <1>3, Ranked
  <1>5. PICK n \in DOMAIN opts : o = opts[n]
    BY DEF ToSet
  <1>6. o[1] = ev.values[at(n)].value /\ at(n) \in kept
    BY <1>1, <1>2, <1>4, <1>5
  <1>7. at(n) \in DOMAIN ev.values /\ ev.values[at(n)].value >= 0
    BY <1>6
  <1> HIDE DEF at
  <1>8. ev.values[at(n)].value \in Nat
    BY <1>7 DEF ExportOk
  <1> QED
    BY <1>6, <1>7, <1>8

\* A text of options reads no more bytes than its field has.
LEMMA EnoughBytes ==
  ASSUME NEW ev, RowOk(ev), ExportOk(ev), ev.bitLength = 0, NEW german, NEW opts,
         opts = DedupOptionLabels(EnumOptions(ev, german)), opts # <<>>
  PROVE  /\ FieldLen(ev) \in 1..4 /\ ev.bytePosition + FieldLen(ev) <= BlockLen(ev)
         /\ EnumReadLength(opts, FieldLen(ev)) \in 1..FieldLen(ev)
  <1> DEFINE S == {o[1] : o \in ToSet(opts)}
  <1>1. PICK o : o \in ToSet(opts)
    <2> DEFINE all == EnumOptions(ev, german)
    <2>1. opts = [i \in DOMAIN all |-> opts[i]]
      BY DEF DedupOptionLabels
    <2> HIDE DEF all
    <2>2. DOMAIN all # {}
      BY <2>1
    <2>3. DOMAIN opts = DOMAIN all
      BY <2>1
    <2> QED
      BY <2>2, <2>3 DEF ToSet
  <1>2. ev.values # <<>>
    BY <1>1, OptionIs
  <1>3. PICK width : width = FieldLen(ev)
    OBVIOUS
  <1>4. width \in 1..4 /\ ev.bytePosition + width <= BlockLen(ev)
    BY <1>2, <1>3, LengthsAre DEF ExportOk
  <1>5. MaxRaw(width) \in Nat /\ (width = 1 => MaxRaw(width) = 255)
    <2>1. width = 1 \/ width = 2 \/ width = 3 \/ width = 4
      BY <1>4
    <2>2. MaxRaw(width) = IF width > 3 THEN 2147483647 ELSE Size(width) - 1
      BY SMT DEF MaxRaw, Size
    <2> QED
      BY <2>1, <2>2, Sizes, SMT
  <1>6. S \subseteq 0..MaxRaw(width) /\ S # {}
    <2>1. ASSUME NEW x \in S PROVE x \in 0..MaxRaw(width)
      <3>1. PICK p \in ToSet(opts) : x = p[1]
        OBVIOUS
      <3> QED
        BY <1>2, <1>3, <1>5, <3>1, OptionIs DEF ExportOk
    <2> QED
      BY <1>1, <2>1
  <1>7. PICK hi \in S : hi = Max(S)
    BY <1>5, <1>6, Largest
  <1>8. EnumReadLength(opts, width) = IF hi < 256 THEN 1 ELSE IF hi < 65536 THEN 2 ELSE width
    BY <1>7 DEF EnumReadLength
  <1>9. hi \in Nat /\ hi <= MaxRaw(width)
    BY <1>5, <1>6
  <1> HIDE DEF S
  <1> QED
    BY <1>3, <1>4, <1>5, <1>8, <1>9

----------------------------------------------------------------------------
\* What is read and where.

\* A bit field: the mask of the field, in the byte of its block; a binary sensor reads the
\* block even for its first byte.  A scalar: its bytes, alone or in the block; the text of
\* options may do with the first of them.
BitsShown(e, f) ==
  /\ e.mask = <<f.max * 2^f.shift>> /\ e.blen = <<>>
  /\ \/ e.off = <<f.byte>>
     \/ e.off = <<>> /\ f.byte = 0 /\ (e.length = 1 \/ e.platform = "binary_sensor")
ScalarShown(e, ev) ==
  /\ ev.bitLength = 0 /\ e.mask = <<>> /\ e.platform # "binary_sensor"
  /\ \E len \in 1..FieldLen(ev) :
       /\ e.kind # "enum" => len = FieldLen(ev)
       /\ \/ e.off = <<>> /\ e.length = len /\ ev.bytePosition = 0
          \/ e.off = <<ev.bytePosition>> /\ FieldWidth(e) = len
Shown(e, ev) ==
  /\ e.length # 0
  /\ \/ BitField(ev) # <<>> /\ BitsShown(e, BitField(ev)[1])
     \/ ScalarShown(e, ev)

\* What is written is shown.
LEMMA WrittenIsShown ==
  ASSUME NEW e, e.platform \in Writers, NEW ev, RowOk(ev), NEW protocol, NEW roBlocks,
         Written(e, ev, protocol, roBlocks)
  PROVE  Shown(e, ev)
  <1> DEFINE f == BitField(ev)[1]
  <1>1. BlockLen(ev) \in Nat \ {0} /\ FieldLen(ev) \in Nat \ {0}
    BY LengthsAre
  <1>2. CASE BitField(ev) # <<>> /\ BitsWritten(e, ev, f, protocol, roBlocks)
    <2> HIDE DEF f
    <2>1. BitsShown(e, f) /\ e.length # 0
      BY <1>1, <1>2 DEF BitsWritten, InBlock, BitsShown
    <2> QED
      BY <1>2, <2>1 DEF Shown, f
  <1>3. CASE ScalarWritten(e, ev, protocol, roBlocks)
    <2>1. e.off = <<ev.bytePosition>> => FieldWidth(e) = FieldLen(ev) \/ e.blen # NotOne(FieldLen(ev))
      BY DEF FieldWidth, NotOne
    <2>2. FieldLen(ev) \in 1..FieldLen(ev) /\ e.platform # "binary_sensor"
      BY <1>1 DEF Writers
    <2>3. ScalarShown(e, ev) /\ e.length # 0
      BY <1>1, <1>3, <2>1, <2>2 DEF ScalarWritten, InBlock, ScalarShown
    <2> QED
      BY <2>3 DEF Shown
  <1> QED
    BY <1>2, <1>3 DEF Written

LEMMA StringShown ==
  ASSUME NEW ev, RowOk(ev), ev.bitLength = 0, NEW kind \in {"ascii", "utf16"},
         StringSpec(ev, kind).platform # "comment"
  PROVE  Shown(StringSpec(ev, kind), ev)
  <1> DEFINE e == StringSpec(ev, kind)
             len == FieldLen(ev)
             readLen == IF BlockLen(ev) > ev.bytePosition + len THEN BlockLen(ev)
                        ELSE ev.bytePosition + len
  <1>1. len \in Nat \ {0} /\ BlockLen(ev) \in Nat \ {0} /\ ev.bytePosition \in Nat
    BY LengthsAre DEF RowOk
  <1>2. /\ e.mask = <<>> /\ e.platform = "text_sensor"
        /\ \/ ev.bytePosition = 0 /\ e.length = len /\ e.off = <<>>
           \/ e.length = readLen /\ e.off = <<ev.bytePosition>> /\ e.blen = <<len>>
    BY DEF StringSpec, At, Blank
  <1>3. readLen # 0
    BY <1>1
  <1>4. len \in 1..len
    BY <1>1
  <1> HIDE DEF e, readLen, len
  <1>5. /\ e.length # 0
        /\ \/ ev.bytePosition = 0 /\ e.length = len /\ e.off = <<>>
           \/ e.off = <<ev.bytePosition>> /\ FieldWidth(e) = len
    <2>1. CASE ev.bytePosition = 0 /\ e.length = len /\ e.off = <<>>
      BY <1>1, <2>1
    <2>2. CASE e.length = readLen /\ e.off = <<ev.bytePosition>> /\ e.blen = <<len>>
      <3>1. e.off # <<>> /\ e.blen # <<>> /\ e.blen[1] = len
        BY <2>2
      <3>2. FieldWidth(e) = len
        BY <3>1 DEF FieldWidth
      <3> QED
        BY <1>3, <2>2, <3>2
    <2> QED
      BY <1>2, <2>1, <2>2
  <1>6. ScalarShown(e, ev)
    BY <1>2, <1>4, <1>5 DEF ScalarShown, len
  <1> QED
    BY <1>5, <1>6 DEF Shown, e

\* A read-only bit: 128 over 2 to its position is the mask of that bit.
LEMMA OneBit ==
  ASSUME NEW r \in 0..7
  PROVE  128 \div 2^r = (2^1 - 1) * 2^(8 - r - 1)
  <1>1. r = 0 \/ r = 1 \/ r = 2 \/ r = 3 \/ r = 4 \/ r = 5 \/ r = 6 \/ r = 7
    OBVIOUS
  <1>2. 128 \div Power(r) = (Power(1) - 1) * Power(8 - r - 1)
    BY Powers, <1>1
  <1> QED
    BY <1>2 DEF Power

LEMMA BinarySensorShown ==
  ASSUME NEW ev, RowOk(ev), ev.bitLength = 1, BinarySensorSpec(ev).platform # "comment"
  PROVE  Shown(BinarySensorSpec(ev), ev)
  <1> DEFINE e == BinarySensorSpec(ev)
             f == BitField(ev)[1]
             byte == ev.bitPosition \div 8
             r == ev.bitPosition % 8
  <1>1. byte \in Nat /\ r \in 0..7 /\ BlockLen(ev) \in Nat \ {0}
    BY ByteOf, LengthsAre DEF RowOk
  <1>2. BitField(ev) # <<>>
    <2>1. ev.bitLength \in 1..8 /\ ~(8 - r - ev.bitLength < 0)
      BY <1>1
    <2> QED
      BY <2>1 DEF BitField
  <1>3. f.byte = byte /\ f.max = 2^1 - 1 /\ f.shift = 8 - r - 1
    BY <1>2, FieldIs
  <1>4. 128 \div 2^r = f.max * 2^f.shift
    BY <1>1, <1>3, OneBit
  <1>5. /\ e.platform = "binary_sensor" /\ e.length = BlockLen(ev) /\ e.off = NonZero(byte)
        /\ e.mask = <<128 \div 2^r>> /\ e.blen = <<>>
    BY DEF BinarySensorSpec, At, Blank
  <1> HIDE DEF e, f, byte, r
  <1>6. BitsShown(e, f)
    BY <1>3, <1>4, <1>5 DEF BitsShown, NonZero
  <1> QED
    BY <1>1, <1>2, <1>5, <1>6 DEF Shown, e, f

LEMMA ReadShapeShown ==
  ASSUME NEW ev, RowOk(ev), ev.bitLength = 0, NEW len \in 1..FieldLen(ev), NEW extract,
         extract \in BOOLEAN, ~extract => ev.bytePosition = 0,
         NEW e, e.platform # "binary_sensor", e.kind # "enum" => len = FieldLen(ev),
         LET s == ReadShape(ev, len, extract) IN
           e.off = s.off /\ e.blen = s.blen /\ e.length = s.length /\ e.mask = s.mask
  PROVE  Shown(e, ev)
  <1>1. BlockLen(ev) \in Nat \ {0} /\ FieldLen(ev) \in Nat \ {0} /\ len # 0
    BY LengthsAre
  <1>2. /\ e.mask = <<>>
        /\ IF extract THEN e.off = <<ev.bytePosition>> /\ e.blen = NotOne(len) /\ e.length = BlockLen(ev)
           ELSE e.off = <<>> /\ e.length = len
    BY DEF ReadShape, At, Blank
  <1>3. extract => FieldWidth(e) = len
    <2>1. extract => e.off = <<ev.bytePosition>> /\ e.blen = NotOne(len)
      BY <1>2, Zenon
    <2>2. ASSUME e.off = <<ev.bytePosition>>, e.blen = NotOne(len) PROVE FieldWidth(e) = len
      BY <2>2 DEF FieldWidth, NotOne
    <2> QED
      BY <2>1, <2>2
  <1>4. ScalarShown(e, ev)
    BY <1>2, <1>3 DEF ScalarShown
  <1> QED
    BY <1>1, <1>2, <1>4 DEF Shown

LEMMA BitEnumShown ==
  ASSUME NEW ev, NEW f, NEW opts, NEW pair, NEW shape, Built(shape), NEW writable,
         NEW e, e = BitEnumSpec(ev, f, opts, pair, shape, writable), e.platform # "comment"
  PROVE  /\ e.mask = shape.mask /\ e.blen = shape.blen
         /\ \/ e.off = shape.off /\ e.length = shape.length
            \/ e.platform = "binary_sensor" /\ e.off = NonZero(f.byte) /\ e.length = BlockLen(ev)
  BY DEF BitEnumSpec, Built, At, Blank

LEMMA BitNumberShown ==
  ASSUME NEW ev, NEW f, NEW v, NEW shape, Built(shape), NEW writable,
         NEW e, e = BitNumber(ev, f, v, shape, writable)
  PROVE  e.mask = shape.mask /\ e.blen = shape.blen /\ e.off = shape.off /\ e.length = shape.length
  BY DEF BitNumber, BitNumberSpec, Built, Blank

LEMMA BitFieldShown ==
  ASSUME NEW ev, RowOk(ev), NEW protocol, NEW german, NEW partialWrites, NEW blockMode,
         blockMode \in BOOLEAN, NEW e, e.platform # "comment",
         e = BuildBitField(ev, protocol, german, partialWrites, BitField(ev), blockMode)
  PROVE  Shown(e, ev)
  <1> DEFINE f == BitField(ev)[1]
             whole == blockMode \/ f.byte > 0
             shape == BitShape(ev, f, whole)
             writable == BitWritable(ev, protocol, partialWrites, blockMode)
             opts == DedupOptionLabels(EnumOptions(ev, german))
  <1>1. BitField(ev) # <<>> /\ e = BitFieldSpec(ev, protocol, f, opts, shape, writable)
    <2>1. At(ev).platform = "comment"
      BY DEF At, Blank
    <2>2. ~BitFieldBlocked(ev, BitField(ev))
      BY <2>1 DEF BuildBitField
    <2> QED
      BY <2>2 DEF BuildBitField, BitFieldBlocked
  <1>2. f.byte \in Nat /\ BlockLen(ev) \in Nat \ {0}
    BY <1>1, FieldIs, LengthsAre
  <1>3. Built(shape)
    BY BitShapeBuilt
  <1>4. /\ shape.blen = <<>> /\ shape.mask = <<f.max * 2^f.shift>>
        /\ shape.off = (IF whole THEN <<f.byte>> ELSE <<>>)
        /\ shape.length = (IF whole THEN BlockLen(ev) ELSE 1)
    BY DEF BitShape, At, Blank
  <1>5. ~whole => f.byte = 0
    BY <1>2
  <1> HIDE DEF shape, f, writable, opts, whole
  <1>6. /\ e.mask = shape.mask /\ e.blen = shape.blen
        /\ \/ e.off = shape.off /\ e.length = shape.length
           \/ e.platform = "binary_sensor" /\ e.off = NonZero(f.byte) /\ e.length = BlockLen(ev)
    BY <1>1, <1>3, BitEnumShown, BitNumberShown DEF BitFieldSpec
  <1>7. e.length # 0 /\ BitsShown(e, f)
    BY <1>2, <1>4, <1>5, <1>6 DEF BitsShown, NonZero
  <1> QED
    BY <1>1, <1>7 DEF Shown, f

LEMMA EnumTextShown ==
  ASSUME NEW ev, RowOk(ev), ExportOk(ev), ev.bitLength = 0, NEW german,
         ev.bytePosition = 0 \/ UseBlockExtract(ev),
         NEW opts, opts = DedupOptionLabels(EnumOptions(ev, german)), opts # <<>>
  PROVE  Shown(EnumTextSpec(ev, opts), ev)
  <1> DEFINE width == FieldLen(ev)
             len == EnumReadLength(opts, width)
             extract == /\ ev.bytePosition > 0 /\ ev.bytePosition + len <= BlockLen(ev)
                        /\ BlockLen(ev) <= MaxP300ReadLength
             shape == ReadShape(ev, len, extract)
             e == [shape EXCEPT !.platform = "text_sensor", !.kind = "enum", !.options = opts]
  <1>1. width \in 1..4 /\ ev.bytePosition + width <= BlockLen(ev) /\ len \in 1..width
    BY EnoughBytes
  <1>2. EnumTextSpec(ev, opts) = e
    <2>1. (IF width > 4 THEN 4 ELSE width) = width
      BY <1>1
    <2> QED
      BY <2>1 DEF EnumTextSpec, EnumText
  <1>3. ev.bytePosition \in Nat /\ BlockLen(ev) \in Nat
    BY LengthsAre DEF RowOk
  <1>4. ~extract => ev.bytePosition = 0
    <2> HIDE DEF width, len
    <2> QED
      BY <1>1, <1>3 DEF UseBlockExtract
  <1>5. /\ e.off = shape.off /\ e.blen = shape.blen /\ e.length = shape.length
        /\ e.mask = shape.mask /\ e.platform = "text_sensor" /\ e.kind = "enum"
    BY ReadShapeBuilt DEF Built, Blank
  <1>6. extract \in BOOLEAN
    OBVIOUS
  <1> HIDE DEF e, len, extract
  <1>7. Shown(e, ev)
    BY <1>1, <1>4, <1>5, <1>6, ReadShapeShown
  <1> QED
    BY <1>2, <1>7

LEMMA SensorShown ==
  ASSUME NEW ev, RowOk(ev), ev.bitLength = 0, ev.bytePosition = 0 \/ UseBlockExtract(ev),
         NEW protocol, NEW v, NEW d, ScalarSensor(ev, protocol, v, d).platform # "comment"
  PROVE  Shown(ScalarSensor(ev, protocol, v, d), ev)
  <1> DEFINE e == ScalarSensor(ev, protocol, v, d)
             extract == UseBlockExtract(ev)
             shape == ReadShape(ev, FieldLen(ev), extract)
  <1>1. /\ e.off = shape.off /\ e.blen = shape.blen /\ e.length = shape.length
        /\ e.mask = shape.mask /\ e.platform = "sensor"
    <2>1. At(ev).platform = "comment"
      BY DEF At, Blank
    <2>2. e = SensorSpec(ev, d, RawIsNegative(ev, protocol, d.filters))
      BY <2>1 DEF ScalarSensor
    <2> HIDE DEF e
    <2> QED
      BY <2>2, ReadShapeBuilt DEF SensorSpec, Built, Blank
  <1>2. FieldLen(ev) \in 1..FieldLen(ev) /\ extract \in BOOLEAN
    BY LengthsAre DEF UseBlockExtract
  <1> HIDE DEF e, extract
  <1>3. Shown(e, ev)
    BY <1>1, <1>2, ReadShapeShown DEF extract
  <1> QED
    BY <1>3 DEF e

LEMMA OnlyShown ==
  ASSUME NEW ev, RowOk(ev), ExportOk(ev), NEW protocol, NEW german, NEW partialWrites,
         NEW roBlocks, NEW e, e = BuildEntity(ev, protocol, german, partialWrites, roBlocks),
         e.platform # "comment"
  PROVE  Shown(e, ev)
  <1> DEFINE blockMode == BitBlockMode(ev, protocol, partialWrites, roBlocks)
             bits == BuildBitField(ev, protocol, german, partialWrites, BitField(ev), blockMode)
             v == ScalarValue(ev, protocol)
             opts == DedupOptionLabels(EnumOptions(ev, german))
             scalar == BuildScalar(ev, protocol, german, v, partialWrites, roBlocks)
             poll == PollFor(ev, Preset(ev.conversion)[2], protocol)
             wide == ev.bitLength > 1 \/ (ev.bitLength = 1 /\ IsWritable(ev, protocol))
  <1>1. /\ At(ev).platform = "comment"
        /\ \A s : Built(s) => /\ [s EXCEPT !.poll = poll].platform = s.platform
                              /\ (Shown(s, ev) => Shown([s EXCEPT !.poll = poll], ev))
    <2>1. ASSUME NEW s, Built(s)
          PROVE  LET p == [s EXCEPT !.poll = poll] IN
                 /\ p.platform = s.platform /\ p.kind = s.kind /\ p.mask = s.mask
                 /\ p.off = s.off /\ p.blen = s.blen /\ p.length = s.length
      BY <2>1 DEF Built, Blank
    <2>2. ASSUME NEW s, NEW p, Shown(s, ev),
                 p.platform = s.platform, p.kind = s.kind, p.mask = s.mask,
                 p.off = s.off, p.blen = s.blen, p.length = s.length
          PROVE  Shown(p, ev)
      BY <2>2 DEF Shown, BitsShown, ScalarShown, FieldWidth
    <2> HIDE DEF poll
    <2> QED
      BY <2>1, <2>2 DEF At, Blank
  <1>2. \/ \E kind \in {"ascii", "utf16"} :
             /\ e = [StringSpec(ev, kind) EXCEPT !.poll = poll]
             /\ ev.conversion \in {"HexByte2AsciiByte", "HexByte2UTF16Byte"} /\ ~wide
        \/ e = [bits EXCEPT !.poll = poll]
        \/ /\ e = [scalar EXCEPT !.poll = poll] /\ ~wide
           /\ ev.bytePosition = 0 \/ UseBlockExtract(ev)
    <2>1. e # [At(ev) EXCEPT !.poll = poll]
      BY <1>1, AtBuilt
    <2>2. ~(ev.bytePosition > 0) => ev.bytePosition = 0
      BY DEF RowOk
    <2> HIDE DEF bits, scalar, poll
    <2> QED
      BY <2>1, <2>2 DEF BuildEntity, bits, scalar, poll
  <1>3. CASE e = [bits EXCEPT !.poll = poll]
    <2>1. Built(bits) /\ blockMode \in BOOLEAN
      BY BitFieldBuilt DEF BitBlockMode
    <2>2. bits.platform # "comment"
      BY <1>1, <1>3, <2>1
    <2> HIDE DEF blockMode
    <2>3. Shown(bits, ev)
      BY <2>1, <2>2, BitFieldShown
    <2> QED
      BY <1>1, <1>3, <2>1, <2>3
  <1>4. ~wide => ev.bitLength = 0 \/ (ev.bitLength = 1 /\ ~IsWritable(ev, protocol))
    BY DEF RowOk
  <1>5. ASSUME NEW kind \in {"ascii", "utf16"}, ~wide,
               e = [StringSpec(ev, kind) EXCEPT !.poll = poll],
               ev.conversion \in {"HexByte2AsciiByte", "HexByte2UTF16Byte"}
        PROVE  Shown(e, ev)
    <2>1. ev.bitLength = 0
      BY <1>4, <1>5 DEF ExportOk
    <2>2. StringSpec(ev, kind).platform # "comment" /\ Built(StringSpec(ev, kind))
      BY <1>1, <1>5, StringBuilt
    <2>3. Shown(StringSpec(ev, kind), ev)
      BY <2>1, <2>2, StringShown
    <2> QED
      BY <1>1, <1>5, <2>2, <2>3
  <1>6. CASE /\ e = [scalar EXCEPT !.poll = poll] /\ ~wide
             /\ ev.bytePosition = 0 \/ UseBlockExtract(ev)
    <2>1. Built(scalar)
      BY ScalarBuilt
    <2>2. scalar.platform # "comment"
      BY <1>1, <1>6, <2>1
    <2>3. CASE scalar.platform \in Writers
      <3>1. Written(scalar, ev, protocol, roBlocks)
        BY <1>4, <1>6, <2>3, ScalarWrites
      <3>2. Shown(scalar, ev)
        BY <2>3, <3>1, WrittenIsShown
      <3> QED
        BY <1>1, <1>6, <2>1, <3>2
    <2>4. CASE scalar.platform \notin Writers
      <3> DEFINE d == Decoded(ev, v, ConvScaleOf(v.conv))
      <3>1. \/ scalar = BinarySensorSpec(ev) /\ ev.bitLength = 1
            \/ scalar = EnumTextSpec(ev, opts) /\ opts # <<>> /\ ev.bitLength # 1
            \/ scalar = ScalarSensor(ev, protocol, v, d) /\ ev.bitLength # 1
        <4>1. \A mode, explicit : /\ SwitchOrSelectSpec(ev, opts, EnumBoolPair(ev), mode).platform \in Writers
                                  /\ NumberSpec(ev, v.conv, explicit, mode).platform \in Writers
          BY WriteShapeBuilt DEF SwitchOrSelectSpec, NumberSpec, Writers, Built, Blank
        <4> HIDE DEF v, opts, d
        <4> QED
          BY <1>1, <2>2, <2>4, <4>1 DEF BuildScalar, ScalarSpec, v, opts, d
      <3> HIDE DEF v, d, opts, scalar
      <3>2. Shown(scalar, ev)
        <4>1. CASE scalar = BinarySensorSpec(ev) /\ ev.bitLength = 1
          BY <2>2, <4>1, BinarySensorShown
        <4>2. CASE scalar = EnumTextSpec(ev, opts) /\ opts # <<>> /\ ev.bitLength # 1
          BY <1>4, <1>6, <4>2, EnumTextShown DEF opts
        <4>3. CASE scalar = ScalarSensor(ev, protocol, v, d) /\ ev.bitLength # 1
          BY <1>4, <1>6, <2>2, <4>3, SensorShown
        <4> QED
          BY <3>1, <4>1, <4>2, <4>3
      <3> QED
        BY <1>1, <1>6, <2>1, <3>2
    <2> QED
      BY <2>3, <2>4
  <1> QED
    BY <1>2, <1>3, <1>5, <1>6

----------------------------------------------------------------------------
\* What the compiled entity takes out of the answer.
Readers == {"sensor", "binary_sensor", "text_sensor"} \cup Writers

LEMMA EntityReads ==
  ASSUME NEW e, DOMAIN e = DOMAIN Blank, e.platform \in Readers, e.length # 0,
         e.platform = "binary_sensor" => e.mask # <<>>
  PROVE  LET c == ToCode(e)
             off == IF e.platform = "binary_sensor" /\ e.off = <<>> THEN <<0>> ELSE e.off
         IN /\ c.kind = e.kind /\ c.mask = e.mask
            /\ IF off = <<>> THEN c.extract = <<>> /\ c.read.length = e.length
               ELSE c.extract = <<[off |-> off[1],
                                   width |-> IF e.blen = <<>> THEN 1 ELSE e.blen[1]]>>
  <1> DEFINE d == Defaults(e)
             c == ToCode(e)
             off == IF e.platform = "binary_sensor" /\ e.off = <<>> THEN <<0>> ELSE e.off
  <1>1. /\ d.kind = e.kind /\ d.mask = e.mask /\ d.platform = e.platform /\ d.off = off
        /\ d.length = e.length /\ d.blen = e.blen /\ d.platform \notin {"text", "button"}
    BY DEF Defaults, Readers, Writers, Blank
  <1>2. c.kind = d.kind /\ c.mask = d.mask /\ c.read = ReadTelegram(d) /\ c.extract = Extract(d)
    BY DEF ToCode
  <1> HIDE DEF c, d, off
  <1>3. ReadTelegram(d).length = e.length
    BY <1>1 DEF ReadTelegram, Telegram
  <1>4. off # <<>> => FieldWidth(d) = IF e.blen = <<>> THEN 1 ELSE e.blen[1]
    BY <1>1 DEF FieldWidth
  <1>5. /\ c.kind = e.kind /\ c.mask = e.mask
        /\ IF off = <<>> THEN c.extract = <<>> /\ c.read.length = e.length
           ELSE c.extract = <<[off |-> off[1], width |-> IF e.blen = <<>> THEN 1 ELSE e.blen[1]]>>
    BY <1>1, <1>2, <1>3, <1>4 DEF Extract
  <1> QED
    BY <1>5 DEF c, off

\* The property of one entity.
ReadsField(e, ev) ==
  LET read == CodeBits(ToCode(e))
      row == RowBits(ev)
  IN /\ read \subseteq row
     /\ ToCode(e).kind # "enum" => read = row
     /\ \E b \in read : \A r \in row : b[1] <= r[1]

LEMMA BitsRead ==
  ASSUME NEW e, DOMAIN e = DOMAIN Blank, e.platform \in Readers, e.length # 0,
         NEW ev, RowOk(ev), BitField(ev) # <<>>, BitsShown(e, BitField(ev)[1])
  PROVE  ReadsField(e, ev)
  <1> DEFINE f == BitField(ev)[1]
             c == ToCode(e)
             off == IF e.platform = "binary_sensor" /\ e.off = <<>> THEN <<0>> ELSE e.off
  <1>1. /\ f.byte \in Nat /\ ev.bitLength \in 1..8 /\ f.shift \in 0..8 - ev.bitLength
        /\ RowBits(ev) = {b \in Bits({f.byte}) : b[2] \in f.shift..f.shift + ev.bitLength - 1}
        /\ {b \in Bits({f.byte}) : ((f.max * 2^f.shift) \div 2^b[2]) % 2 = 1} = RowBits(ev)
    BY FieldIs, RowBitsAre, MaskTakesRow
  <1>2. /\ c.mask = e.mask
        /\ IF off = <<>> THEN c.extract = <<>> /\ c.read.length = e.length
           ELSE c.extract = <<[off |-> off[1], width |-> IF e.blen = <<>> THEN 1 ELSE e.blen[1]]>>
    <2>1. e.mask # <<>>
      BY DEF BitsShown
    <2> QED
      BY <2>1, EntityReads
  <1> HIDE DEF f, c
  <1>3. BitsShown(e, f)
    BY DEF f
  <1>4. /\ c.mask # <<>> /\ c.mask[1] = f.max * 2^f.shift
        /\ \/ c.extract = <<>> /\ c.read.length = 1 /\ f.byte = 0
           \/ c.extract = <<[off |-> f.byte, width |-> 1]>>
    <2>1. e.mask = <<f.max * 2^f.shift>> /\ e.blen = <<>>
      BY <1>3 DEF BitsShown
    <2>2. CASE off = <<>>
      <3>1. e.off = <<>> /\ f.byte = 0 /\ e.length = 1
        <4>1. e.off = <<>> /\ e.platform # "binary_sensor"
          BY <2>2
        <4> QED
          BY <1>3, <4>1 DEF BitsShown
      <3> QED
        BY <1>2, <2>1, <2>2, <3>1
    <2>3. CASE off # <<>>
      <3>1. off = <<f.byte>>
        BY <1>3, <2>3 DEF BitsShown
      <3> HIDE DEF off
      <3> QED
        BY <1>2, <2>1, <2>3, <3>1
    <2> QED
      BY <2>2, <2>3
  <1>5. Bits(f.byte..f.byte + 1 - 1) = Bits({f.byte})
    BY <1>1 DEF Bits
  <1>6. CodeBits(c) = {b \in Bits({f.byte}) : (c.mask[1] \div 2^b[2]) % 2 = 1}
    <2>1. CASE c.extract = <<>> /\ c.read.length = 1 /\ f.byte = 0
      BY <1>4, <1>5, <2>1 DEF CodeBits
    <2>2. CASE c.extract = <<[off |-> f.byte, width |-> 1]>>
      BY <1>4, <1>5, <2>2 DEF CodeBits
    <2> QED
      BY <1>4, <2>1, <2>2
  <1>7. CodeBits(c) = RowBits(ev)
    BY <1>1, <1>4, <1>6
  <1>8. <<f.byte, f.shift>> \in RowBits(ev) /\ \A b \in RowBits(ev) : b[1] = f.byte
    <2>1. f.shift \in 0..7 /\ f.shift \in f.shift..f.shift + ev.bitLength - 1
      BY <1>1
    <2> DEFINE s == f.shift
    <2> HIDE DEF s
    <2>2. <<f.byte, s>> \in Bits({f.byte}) /\ <<f.byte, s>>[2] = s
      BY <2>1 DEF Bits, s
    <2> QED
      BY <1>1, <2>1, <2>2 DEF Bits, s
  <1>9. \E b \in RowBits(ev) : \A r \in RowBits(ev) : b[1] <= r[1]
    <2> DEFINE low == <<f.byte, f.shift>>
    <2>1. low \in RowBits(ev) /\ low[1] = f.byte
      BY <1>8
    <2> HIDE DEF low
    <2>2. ASSUME NEW r \in RowBits(ev) PROVE low[1] <= r[1]
      <3>1. r[1] = f.byte /\ low[1] = f.byte
        BY <1>8, <2>1
      <3>2. f.byte \in Nat /\ f.byte <= f.byte
        BY <1>1
      <3> QED
        BY <3>1, <3>2
    <2> QED
      BY <2>1, <2>2
  <1> QED
    BY <1>7, <1>9 DEF ReadsField, c

LEMMA ScalarRead ==
  ASSUME NEW e, DOMAIN e = DOMAIN Blank, e.platform \in Readers, e.length # 0,
         NEW ev, RowOk(ev), ScalarShown(e, ev)
  PROVE  ReadsField(e, ev)
  <1> DEFINE c == ToCode(e)
             first == ev.bytePosition
             full == FieldLen(ev)
  <1>1. PICK len \in 1..full :
          /\ e.kind # "enum" => len = full
          /\ \/ e.off = <<>> /\ e.length = len /\ first = 0
             \/ e.off = <<first>> /\ FieldWidth(e) = len
    BY DEF ScalarShown
  <1>2. /\ c.kind = e.kind /\ c.mask = e.mask
        /\ IF e.off = <<>> THEN c.extract = <<>> /\ c.read.length = e.length
           ELSE c.extract = <<[off |-> e.off[1], width |-> IF e.blen = <<>> THEN 1 ELSE e.blen[1]]>>
    BY EntityReads DEF ScalarShown
  <1>3. /\ first \in Nat /\ full \in Nat \ {0}
        /\ e.mask = <<>> /\ RowBits(ev) = Bits(first..first + full - 1)
    BY LengthsAre DEF ScalarShown, RowOk, RowBits
  <1> HIDE DEF c, first, full
  <1>4. \/ c.extract = <<>> /\ c.read.length = len /\ first = 0
        \/ c.extract = <<[off |-> first, width |-> len]>>
    <2>1. CASE e.off = <<>> /\ e.length = len /\ first = 0
      BY <1>2, <2>1
    <2>2. CASE e.off = <<first>> /\ FieldWidth(e) = len
      <3>1. e.off # <<>> /\ e.off[1] = first /\ len = IF e.blen = <<>> THEN 1 ELSE e.blen[1]
        BY <2>2 DEF FieldWidth
      <3> QED
        BY <1>2, <3>1
    <2> QED
      BY <1>1, <2>1, <2>2
  <1>5. CodeBits(c) = Bits(first..first + len - 1)
    <2>1. c.mask = <<>>
      BY <1>2, <1>3
    <2>2. CASE c.extract = <<>> /\ c.read.length = len /\ first = 0
      BY <2>1, <2>2 DEF CodeBits
    <2>3. CASE c.extract = <<[off |-> first, width |-> len]>>
      BY <2>1, <2>3 DEF CodeBits
    <2> QED
      BY <1>4, <2>2, <2>3
  <1>6. CodeBits(c) \subseteq RowBits(ev)
    <2>1. first..first + len - 1 \subseteq first..first + full - 1
      BY <1>3
    <2> QED
      BY <1>3, <1>5, <2>1 DEF Bits
  <1>7. c.kind # "enum" => CodeBits(c) = RowBits(ev)
    BY <1>1, <1>2, <1>3, <1>5
  <1>8. \E b \in CodeBits(c) : \A r \in RowBits(ev) : b[1] <= r[1]
    <2>1. first \in first..first + len - 1 /\ \A i \in first..first + full - 1 : first <= i
      BY <1>3
    <2>2. <<first, 0>> \in CodeBits(c) /\ \A r \in RowBits(ev) : first <= r[1]
      BY <1>3, <1>5, <2>1 DEF Bits
    <2> QED
      BY <2>2
  <1> QED
    BY <1>6, <1>7, <1>8 DEF ReadsField, c

\* An entity shows the bits of its row and no others (ReadsItsField, build_entity_spec()
\* against the platforms' to_code()): for every export whose options fit their field.
THEOREM ReadsItsRow ==
  ASSUME NEW Jobs, \A j \in Jobs : JobOk(j) /\ \A r \in ToSet(j.rows) : ExportOk(r)
  PROVE  (\E j \in Jobs : Init(j)) /\ [][Next]_vars => []ReadsItsField
  <1> DEFINE Exported == \A r \in ToSet(job.rows) : ExportOk(r)
  <1>1. (\E j \in Jobs : Init(j)) => ConfigInv /\ Exported
    BY InitConfig DEF Init
  <1>2. Exported /\ [Next]_vars => Exported'
    <2>1. [Next]_vars => job' = job
      BY DEF Next, vars, SkipIdentification, DropWideAddress, DeferHistory, FanOutSchaltzeiten,
             FanOutHydro, EmitAction, EmitEntity, RowsDone, EmitHistory, WritePackage,
             LoadConfiguration, ToCodeEntity, SetUp, Take
    <2> QED
      BY <2>1
  <1>3. ConfigInv /\ Exported => ReadsItsField
    <2> SUFFICES ASSUME ConfigInv, Exported, NEW n \in OfRows
                 PROVE  LET read == CodeBits(CodeOf(n))
                            row == RowBits(RowOf(n))
                        IN /\ read \subseteq row
                           /\ CodeOf(n).kind # "enum" => read = row
                           /\ \E b \in read : \A r \in row : b[1] <= r[1]
      BY DEF ReadsItsField
    <2> DEFINE e == EntityOf(n)
               ev == RowOf(n)
    <2>1. stage = "written" /\ n \in DOMAIN output /\ output[n].chunk.row # <<>>
      BY DEF OfRows
    <2>2. PICK k : ChunkOk(k) /\ LineOf(output[n], k)
      <3>1. Packaged(output, gen.chunks) /\ ChunksOk(gen.chunks)
        BY <2>1 DEF ConfigInv, OutInv, GenInv, GenOk, ChunksOk
      <3> QED
        BY <2>1, <3>1 DEF Packaged, ChunksOk, Injection
    <2>3. k.row # <<>>
      BY <2>1, <2>2 DEF LineOf
    <2> DEFINE made == Of(ev)
               placed == ReadBy(made, k.entity.access, k.entity.prefix)
    <2>4. /\ ev = k.row[1] /\ RowOk(ev) /\ ExportOk(ev) /\ e = Rendered(placed)
          /\ k.entity = placed /\ k.entity.platform # "comment" /\ Built(made)
      <3>1. ev = k.row[1] /\ e = Rendered(placed)
        BY <2>2, <2>3, RowLine
      <3>2. /\ RowOk(k.row[1]) /\ k.row[1] \in ToSet(job.rows)
            /\ k.entity = ReadBy(Of(k.row[1]), k.entity.access, k.entity.prefix)
        BY <2>2, <2>3 DEF ChunkOk, ReadBy
      <3>3. k.entity.platform # "comment"
        BY <2>2 DEF ChunkOk, Emitted, BuiltPlatforms
      <3>4. Built(made)
        BY EntityBuilt DEF Of
      <3> HIDE DEF ev, e
      <3> QED
        BY <3>1, <3>2, <3>3, <3>4
    <2> HIDE DEF ev, made, e
    <2>5. /\ DOMAIN e = DOMAIN Blank /\ SamePlace(e, made) /\ e.platform = made.platform
          /\ made.platform # "comment"
      BY <2>4 DEF Rendered, ReadBy, SamePlace, Built, Blank
    <2>6. Shown(made, ev)
      BY <2>4, <2>5, OnlyShown DEF made, Of
    <2>7. e.platform \in Readers
      BY <2>4, <2>5 DEF Built, BuiltPlatforms, Readers, Writers
    <2>8. Shown(e, ev)
      BY <2>5, <2>6 DEF SamePlace, Shown, BitsShown, ScalarShown, FieldWidth
    <2>9. ReadsField(e, ev)
      BY <2>4, <2>5, <2>7, <2>8, BitsRead, ScalarRead DEF Shown
    <2> QED
      BY <2>9 DEF ReadsField, CodeOf, e, ev
  <1> QED
    BY <1>1, <1>2, <1>3, ConfigStep, PTL

----------------------------------------------------------------------------
\* Values: a fold over at most two filters, unfolded by the function it chooses.

\* The largest of one index, and of two.
LEMMA LargestIndex == Max({1}) = 1 /\ Max({2}) = 2 /\ Max({1, 2}) = 2
  BY DEF Max

ThroughFilters(v, filters) == FoldLeft(Filtered1, v, filters)

\* h is the fold of s from base, over the sets of its indices.
Folds(h, base, s) ==
  h = [t \in SUBSET DOMAIN s |->
         IF t = {} THEN base ELSE Filtered1(h[t \ {Max(t)}], s[Max(t)])]

\* FoldLeft over a sequence whose indices are D: any function with the fold's equation
\* gives its value.
LEMMA FoldIs ==
  ASSUME NEW base, NEW s, NEW g, Folds(g, base, s)
  PROVE  \E h : Folds(h, base, s) /\ ThroughFilters(base, s) = h[DOMAIN s]
  <1> DEFINE it == CHOOSE h : Folds(h, base, s)
  <1>1. ThroughFilters(base, s) = it[DOMAIN s]
    BY DEF ThroughFilters, FoldLeft, MapThenFoldSet, Folds
  <1>2. Folds(it, base, s)
    OBVIOUS
  <1> QED
    BY <1>1, <1>2

LEMMA FoldTwo ==
  ASSUME NEW base, NEW s, DOMAIN s = {} \/ DOMAIN s = {1} \/ DOMAIN s = {1, 2}
  PROVE  ThroughFilters(base, s) =
           IF DOMAIN s = {} THEN base
           ELSE IF DOMAIN s = {1} THEN Filtered1(base, s[1])
           ELSE Filtered1(Filtered1(base, s[1]), s[2])
  <1> DEFINE one(i) == Filtered1(base, s[i])
             g == [t \in SUBSET DOMAIN s |->
                     IF t = {} THEN base ELSE IF t = {1} THEN one(1) ELSE IF t = {2} THEN one(2)
                     ELSE Filtered1(one(1), s[2])]
  <1>1. \A t \in SUBSET DOMAIN s : t = {} \/ t = {1} \/ t = {2} \/ t = {1, 2}
    OBVIOUS
  <1>2. Folds(g, base, s)
    <2> SUFFICES ASSUME NEW t \in SUBSET DOMAIN s, t # {}
                 PROVE  g[t] = Filtered1(g[t \ {Max(t)}], s[Max(t)])
      BY DEF Folds
    <2>1. CASE t = {1}
      <3>1. t \ {Max(t)} = {} /\ Max(t) = 1
        BY <2>1, LargestIndex
      <3> QED
        BY <2>1, <3>1
    <2>2. CASE t = {2}
      <3>1. t \ {Max(t)} = {} /\ Max(t) = 2 /\ t # {1}
        BY <2>2, LargestIndex
      <3> QED
        BY <2>2, <3>1
    <2>3. CASE t = {1, 2}
      <3>1. t \ {Max(t)} = {1} /\ Max(t) = 2 /\ t # {1} /\ t # {2} /\ {1} \in SUBSET DOMAIN s
        BY <2>3, LargestIndex
      <3>2. g[{1}] = one(1)
        BY <3>1
      <3> QED
        BY <2>3, <3>1, <3>2
    <2> QED
      BY <1>1, <2>1, <2>2, <2>3
  <1> HIDE DEF g
  <1>3. PICK h : Folds(h, base, s) /\ ThroughFilters(base, s) = h[DOMAIN s]
    BY <1>2, FoldIs
  <1>4. CASE DOMAIN s = {}
    BY <1>3, <1>4 DEF Folds
  <1>5. CASE DOMAIN s = {1}
    <2>1. {1} \ {1} = {} /\ {} \in SUBSET {1} /\ {1} \in SUBSET {1}
      OBVIOUS
    <2> QED
      BY <1>3, <1>5, <2>1, LargestIndex DEF Folds
  <1>6. CASE DOMAIN s = {1, 2}
    <2>1. {1} \ {1} = {} /\ {1, 2} \ {2} = {1} /\ {{}, {1}, {1, 2}} \subseteq SUBSET {1, 2}
      OBVIOUS
    <2>2. h[{}] = base
      BY <1>3, <1>6, <2>1 DEF Folds
    <2>4. h[{1}] = Filtered1(h[{1} \ {Max({1})}], s[Max({1})])
      BY <1>3, <1>6, <2>1 DEF Folds
    <2>5. h[{1}] = Filtered1(base, s[1])
      BY <2>1, <2>2, <2>4, LargestIndex DEF Folds
    <2>3. h[{1, 2}] = Filtered1(h[{1}], s[2])
      BY <1>3, <1>6, <2>1, LargestIndex DEF Folds
    <2> QED
      BY <1>3, <1>6, <2>3, <2>5
  <1> QED
    BY <1>4, <1>5, <1>6

\* Division by a divisor, however it is written.
LEMMA DividesOut == ASSUME NEW a \in Int, NEW d \in Nat \ {0} PROVE (a * d) \div d = a
  <1>1. a * d = d * a + 0 /\ 0 \in 0..d - 1
    OBVIOUS
  <1> QED
    BY <1>1, Z3

LEMMA Quotient ==
  ASSUME NEW a \in Int, NEW d \in Nat \ {0}, a % d = 0
  PROVE  a \div d \in Int /\ a = (a \div d) * d
  OBVIOUS

\* Thousandths of a raw number scaled by thousandths: exact, whatever the factor.
LEMMA ScaledByThousandths ==
  ASSUME NEW raw \in Int, NEW k \in Int
  PROVE  ScaledBy(1000 * raw, <<k, 1000>>) = raw * k
  <1> DEFINE d == 1000 \div k
             q == k \div 1000
             f == <<k, 1000>>
  <1>1. f[1] = k /\ f[2] = 1000
    OBVIOUS
  <1>2. CASE k > 0 /\ 1000 % k = 0
    <2>1. d \in Int /\ 1000 = d * k
      BY <1>2, Quotient
    <2>2. d > 0
      BY <1>2, <2>1
    <2>3. 1000 * raw = (raw * k) * d /\ raw * k \in Int
      BY <2>1
    <2>4. ((raw * k) * d) \div d = raw * k
      BY <2>2, <2>1, <2>3, DividesOut
    <2> QED
      BY <1>1, <1>2, <2>3, <2>4 DEF ScaledBy
  <1>3. CASE ~(k > 0 /\ 1000 % k = 0) /\ k % 1000 = 0
    <2>1. q \in Int /\ k = q * 1000
      BY <1>3, Quotient
    <2>2. 1000 * raw * q = raw * k
      BY <2>1
    <2> QED
      BY <1>1, <1>3, <2>2 DEF ScaledBy
  <1>4. CASE ~(k > 0 /\ 1000 % k = 0) /\ ~(k % 1000 = 0)
    <2>1. (1000 * raw) * k = (raw * k) * 1000 /\ raw * k \in Int
      OBVIOUS
    <2>2. ((raw * k) * 1000) \div 1000 = raw * k
      BY <2>1, DividesOut
    <2> QED
      BY <1>1, <1>4, <2>1, <2>2 DEF ScaledBy
  <1> QED
    BY <1>2, <1>3, <1>4

LEMMA ScaledByOne == ASSUME NEW v \in Int PROVE ScaledBy(v, One) = v
  BY DEF ScaledBy, One

LEMMA NothingAdded == ASSUME NEW S, NEW s \in Seq(S) PROVE <<>> \o s = s /\ s \o <<>> = s
  OBVIOUS
LEMMA OneThenOne ==
  ASSUME NEW m, NEW o
  PROVE  <<m>> \o <<o>> = <<m, o>>
  <1> DEFINE S == {m, o}
             c == <<m>> \o <<o>>
  <1>1. /\ <<m>> \in Seq(S) /\ Len(<<m>>) = 1 /\ <<m>>[1] = m
        /\ <<o>> \in Seq(S) /\ Len(<<o>>) = 1 /\ <<o>>[1] = o
    OBVIOUS
  <1>2. c \in Seq(S) /\ Len(c) = 2 /\ c[1] = m /\ c[2] = o
    BY <1>1
  <1>3. <<m, o>> \in Seq(S) /\ Len(<<m, o>>) = 2 /\ <<m, o>>[1] = m /\ <<m, o>>[2] = o
    OBVIOUS
  <1> HIDE DEF c
  <1> DEFINE d == <<m, o>>
  <1> HIDE DEF d
  <1>4. c = d
    <2>1. d \in Seq(S) /\ Len(d) = 2 /\ d[1] = m /\ d[2] = o
      BY <1>3 DEF d
    <2>2. /\ DOMAIN c = 1..2 /\ c = [i \in 1..2 |-> c[i]]
          /\ DOMAIN d = 1..2 /\ d = [i \in 1..2 |-> d[i]]
      BY <1>2, <2>1
    <2> QED
      BY <2>1, <1>2, <2>2
  <1> QED
    BY <1>4 DEF c, d

\* A raw number, as the value a scale is applied to.
Thousandths(raw) == 1000 * raw

LEMMA ScaledByMilli ==
  ASSUME NEW raw \in Int, NEW k \in Int
  PROVE  ScaledBy(Thousandths(raw), Milli(k)) = raw * k
  BY ScaledByThousandths DEF Thousandths, Milli

LEMMA ScaledByOneIs ==
  ASSUME NEW raw \in Int
  PROVE  ScaledBy(Thousandths(raw), One) = Thousandths(raw)
  BY ScaledByOne DEF Thousandths

LEMMA ThousandthsAre ==
  ASSUME NEW raw \in Int
  PROVE  Thousandths(raw) \in Int /\ Thousandths(raw) = raw * 1000
  BY DEF Thousandths

\* What an answer's raw number becomes behind a converter and filters.
Decode(conv, filters, raw) == ThroughFilters(ScaledBy(Thousandths(raw), Scale[conv]), filters)

LEMMA PairIs == ASSUME NEW x, NEW y
  PROVE  DOMAIN <<x, y>> = {1, 2} /\ <<x, y>>[1] = x /\ <<x, y>>[2] = y
  OBVIOUS

LEMMA NoFilter == ASSUME NEW v PROVE ThroughFilters(v, <<>>) = v
  <1>1. DOMAIN <<>> = {}
    OBVIOUS
  <1> QED
    BY <1>1, FoldTwo

LEMMA OneFilter == ASSUME NEW v, NEW f PROVE ThroughFilters(v, <<f>>) = Filtered1(v, f)
  <1> DEFINE s == <<f>>
  <1>1. DOMAIN s = {1} /\ s[1] = f
    OBVIOUS
  <1> HIDE DEF s
  <1>2. ThroughFilters(v, s) = Filtered1(v, f)
    BY <1>1, FoldTwo
  <1> QED
    BY <1>2 DEF s

LEMMA TwoFilters ==
  ASSUME NEW v, NEW f, NEW g
  PROVE  ThroughFilters(v, <<f, g>>) = Filtered1(Filtered1(v, f), g)
  <1> DEFINE s == <<f, g>>
  <1>1. DOMAIN s = {1, 2} /\ s[1] = f /\ s[2] = g
    BY PairIs
  <1> HIDE DEF s
  <1>2. ThroughFilters(v, s) = Filtered1(Filtered1(v, f), g)
    BY <1>1, FoldTwo
  <1> QED
    BY <1>2 DEF s

LEMMA FilterIs ==
  ASSUME NEW v, NEW x, NEW y
  PROVE  /\ Filtered1(v, Multiply(<<x, y>>)) = ScaledBy(v, <<x, y>>)
         /\ Filtered1(v, Offset(x)) = v + x
  BY DEF Filtered1, Multiply, Offset

\* The filters of a factor and an offset: neither, one or both.
LEMMA TransformIs ==
  ASSUME NEW factor, NEW offset
  PROVE  LET m == Multiply(Milli(factor))
             o == Offset(offset)
         IN TransformOf(factor, offset) =
              IF factor = 1000 THEN IF offset = 0 THEN <<>> ELSE <<o>>
              ELSE IF offset = 0 THEN <<m>> ELSE <<m, o>>
  <1>1. ASSUME NEW m, NEW o
        PROVE  /\ <<>> \o <<>> = <<>> /\ <<m>> \o <<>> = <<m>>
               /\ <<>> \o <<o>> = <<o>> /\ <<m>> \o <<o>> = <<m, o>>
    <2>1. <<m>> \in Seq({m}) /\ <<o>> \in Seq({o}) /\ <<>> \in Seq({m})
      OBVIOUS
    <2> QED
      BY <2>1, NothingAdded, OneThenOne
  <1> DEFINE m == Multiply(Milli(factor))
             o == Offset(offset)
  <1> HIDE DEF m, o
  <1>2. TransformOf(factor, offset) = (IF factor = 1000 THEN <<>> ELSE <<m>>)
                                         \o (IF offset = 0 THEN <<>> ELSE <<o>>)
    BY DEF TransformOf, m, o
  <1>3. TransformOf(factor, offset) = IF factor = 1000 THEN IF offset = 0 THEN <<>> ELSE <<o>>
              ELSE IF offset = 0 THEN <<m>> ELSE <<m, o>>
    BY <1>1, <1>2
  <1> QED
    BY <1>3 DEF m, o

LEMMA TransformSeq ==
  ASSUME NEW factor, NEW offset
  PROVE  IsSeq(TransformOf(factor, offset))
  <1>1. ASSUME NEW m, NEW o PROVE IsSeq(<<>>) /\ IsSeq(<<m>>) /\ IsSeq(<<m, o>>)
    <2>1. <<m, o>> \in Seq({m, o})
      OBVIOUS
    <2> QED
      BY <2>1, EmptyIs, SingleIs, SeqFrom
  <1> QED
    BY <1>1, TransformIs

LEMMA TransformDecodes ==
  ASSUME NEW raw \in Int, NEW factor \in Int, NEW offset \in Int
  PROVE  Decode("noconv", TransformOf(factor, offset), raw) = raw * factor + offset
  <1> DEFINE v == Thousandths(raw)
             m == Multiply(Milli(factor))
             o == Offset(offset)
  <1>1. Decode("noconv", TransformOf(factor, offset), raw)
          = ThroughFilters(v, TransformOf(factor, offset))
    <2>1. Scale["noconv"] = One
      BY DEF Scale
    <2> QED
      BY <2>1, ScaledByOneIs DEF Decode
  <1>2. /\ Filtered1(v, m) = raw * factor /\ Filtered1(v, o) = v + offset
        /\ Filtered1(raw * factor, o) = raw * factor + offset
    <2>1. Filtered1(v, Multiply(<<factor, 1000>>)) = ScaledBy(v, <<factor, 1000>>)
      BY FilterIs
    <2>2. Filtered1(v, m) = raw * factor
      BY <2>1, ScaledByMilli DEF Milli
    <2>3. \A x, n : Filtered1(x, Offset(n)) = x + n
      BY FilterIs
    <2>4. Filtered1(v, o) = v + offset
      BY <2>3
    <2>5. Filtered1(raw * factor, o) = raw * factor + offset
      BY <2>3
    <2> QED
      BY <2>2, <2>4, <2>5
  <1>3. v = raw * 1000
    BY ThousandthsAre
  <1>4. v \in Int /\ raw * factor \in Int
    BY ThousandthsAre
  <1>5. TransformOf(factor, offset) =
              IF factor = 1000 THEN IF offset = 0 THEN <<>> ELSE <<o>>
              ELSE IF offset = 0 THEN <<m>> ELSE <<m, o>>
    BY TransformIs
  <1> HIDE DEF v, m, o
  <1> QED
    BY <1>1, <1>2, <1>3, <1>4, <1>5, NoFilter, OneFilter, TwoFilters


----------------------------------------------------------------------------
\* The tables of presets, and the value of a row behind each.

\* The tables of both sides agree: every preset is scaled as its conversion, a factor's
\* preset as the factor.
LEMMA TablesAgree == \A conv \in Converter : ConvScaleOf(conv) = Scale[conv]
  BY DEF Converter, ByScale, ConvScaleOf, ConvScale, Scale

LEMMA PresetsAgree ==
  /\ \A c \in DOMAIN VitosoftScale :
       Preset(c)[1] \in Converter /\ VitosoftScale[c] = Scale[Preset(c)[1]]
  /\ Preset("MultOffset")[1] = "" /\ {"MultOffset", "NoConversion"} \cap DOMAIN VitosoftScale = {}
  /\ "" \notin Converter
  <1>1. DOMAIN VitosoftScale = {"Div2", "Div10", "Div100", "Div1000", "Mult2", "Mult5", "Mult10",
                                "Mult100", "Sec2Hour", "RotateBytes"}
    BY DEF VitosoftScale
  <1>2. ASSUME NEW c \in DOMAIN VitosoftScale
        PROVE  c \in DOMAIN ConversionMap /\ Preset(c) = ConversionMap[c]
    BY <1>1 DEF ConversionMap, Preset
  <1>3. ASSUME NEW c \in DOMAIN VitosoftScale
        PROVE  ConversionMap[c][1] \in Converter /\ VitosoftScale[c] = Scale[ConversionMap[c][1]]
    <2>1. \A x, y : <<x, y>>[1] = x
      OBVIOUS
    <2>2. /\ ConversionMap["Div2"][1] = "div2"
          /\ ConversionMap["Div10"][1] = "div10"
          /\ ConversionMap["Div100"][1] = "div100"
          /\ ConversionMap["Div1000"][1] = "div1000"
          /\ ConversionMap["Mult2"][1] = "mult2"
          /\ ConversionMap["Mult5"][1] = "mult5"
          /\ ConversionMap["Mult10"][1] = "mult10"
          /\ ConversionMap["Mult100"][1] = "mult100"
          /\ ConversionMap["Sec2Hour"][1] = "sec2hour"
          /\ ConversionMap["RotateBytes"][1] = "rotatebytes"
      BY <2>1 DEF ConversionMap
    <2>3. /\ VitosoftScale["Div2"] = Scale["div2"]
          /\ VitosoftScale["Div10"] = Scale["div10"]
          /\ VitosoftScale["Div100"] = Scale["div100"]
          /\ VitosoftScale["Div1000"] = Scale["div1000"]
          /\ VitosoftScale["Mult2"] = Scale["mult2"]
          /\ VitosoftScale["Mult5"] = Scale["mult5"]
          /\ VitosoftScale["Mult10"] = Scale["mult10"]
          /\ VitosoftScale["Mult100"] = Scale["mult100"]
          /\ VitosoftScale["Sec2Hour"] = Scale["sec2hour"]
          /\ VitosoftScale["RotateBytes"] = Scale["rotatebytes"]
      BY DEF VitosoftScale, Scale
    <2> QED
      BY <1>1, <2>2, <2>3 DEF Converter, ByScale
  <1> QED
    BY <1>1, <1>2, <1>3 DEF Preset, ConversionMap, Converter, ByScale

LEMMA FactorPresetIs ==
  ASSUME NEW p \in FactorPresets, NEW raw \in Int
  PROVE  p[2] \in ByScale /\ p[1] \in Int /\ ScaledBy(Thousandths(raw), Scale[p[2]]) = raw * p[1]
  <1>1. \/ p = <<2000, "mult2">> \/ p = <<5000, "mult5">> \/ p = <<10000, "mult10">>
        \/ p = <<100000, "mult100">> \/ p = <<500, "div2">> \/ p = <<100, "div10">>
        \/ p = <<10, "div100">> \/ p = <<1, "div1000">>
    BY DEF FactorPresets
  <1>2. \A x, y : <<x, y>>[1] = x /\ <<x, y>>[2] = y
    OBVIOUS
  <1>3. /\ Scale["mult2"] = <<2, 1>> /\ Scale["mult5"] = <<5, 1>> /\ Scale["mult10"] = <<10, 1>>
        /\ Scale["mult100"] = <<100, 1>> /\ Scale["div2"] = <<1, 2>> /\ Scale["div10"] = <<1, 10>>
        /\ Scale["div100"] = <<1, 100>> /\ Scale["div1000"] = <<1, 1000>>
    BY DEF Scale
  <1>4. ASSUME NEW k \in {2, 5, 10, 100}
        PROVE  ScaledBy(1000 * raw, <<k, 1>>) = raw * (k * 1000)
    BY <1>2, <1>4 DEF ScaledBy
  <1>5. ASSUME NEW k \in {2, 10, 100, 1000}
        PROVE  ScaledBy(1000 * raw, <<1, k>>) = raw * (1000 \div k)
    BY <1>2, <1>5 DEF ScaledBy
  <1>6. p[1] \in Int /\ p[2] \in ByScale
    BY <1>1, <1>2 DEF ByScale
  <1> QED
    BY <1>1, <1>2, <1>3, <1>4, <1>5, <1>6 DEF Thousandths

\* A converter and filters give the value of a row.
Decodable == DOMAIN VitosoftScale \cup {"MultOffset"}
ValueIs(conv, filters, ev) ==
  /\ conv \in Converter /\ (filters = <<>> \/ conv = "noconv") /\ IsSeq(filters)
  /\ \A raw \in Int : Decode(conv, filters, raw) = VitosoftValue(ev, raw)

LEMMA PresetOfIs ==
  ASSUME NEW k, PresetOf(k) # ""
  PROVE  \E p \in FactorPresets : p[1] = k /\ PresetOf(k) = p[2]
  <1> DEFINE q == CHOOSE p \in FactorPresets : p[1] = k
  <1>1. (\E p \in FactorPresets : p[1] = k) /\ PresetOf(k) = q[2]
    BY DEF PresetOf
  <1>2. q \in FactorPresets /\ q[1] = k
    BY <1>1
  <1> QED
    BY <1>1, <1>2

\* The factor of a row, k.
HasFactor(ev, k) ==
  /\ FactorOf(ev) = <<k>> /\ FactorOf(ev)[1] = k /\ ev.factor[1] = k /\ FactorOf(ev) # <<>>
  /\ k # 0

LEMMA FactorIs ==
  ASSUME NEW ev, NumbersOk(ev), FactorOf(ev) # <<>>
  PROVE  \E k \in Int : HasFactor(ev, k)
  <1> DEFINE k == ev.factor[1]
  <1>1. FactorOf(ev) = ev.factor /\ ev.factor # <<0>>
    BY DEF FactorOf
  <1>2. ev.factor = <<k>> /\ k \in Int
    BY <1>1 DEF NumbersOk, AtMostOne
  <1> HIDE DEF k
  <1>3. <<k>>[1] = k /\ k # 0 /\ <<k>> # <<>>
    BY <1>1, <1>2
  <1> QED
    BY <1>1, <1>2, <1>3 DEF HasFactor

LEMMA VitosoftPlain ==
  ASSUME NEW ev, ev.conversion = "MultOffset", FactorOf(ev) = <<>>, NEW raw \in Int
  PROVE  VitosoftValue(ev, raw) = raw * 1000
  <1>1. VitosoftValue(ev, raw) = ScaledBy(Thousandths(raw), One) + 0
    BY DEF VitosoftValue, Thousandths
  <1> QED
    BY <1>1, ScaledByOneIs, ThousandthsAre

LEMMA VitosoftFactor ==
  ASSUME NEW ev, ev.conversion = "MultOffset", NEW k \in Int, HasFactor(ev, k), NEW raw \in Int
  PROVE  VitosoftValue(ev, raw) = raw * k + ev.offset
  <1>1. ScaledBy(Thousandths(raw), Milli(k)) = raw * k
    BY ScaledByMilli
  <1>2. VitosoftValue(ev, raw) = ScaledBy(Thousandths(raw), Milli(ev.factor[1])) + ev.offset
    BY DEF VitosoftValue, HasFactor, Thousandths, Milli
  <1>3. ev.factor[1] = k
    BY DEF HasFactor
  <1> QED
    BY <1>1, <1>2, <1>3

\* The preset of a factor without an offset.
LEMMA PresetDecodes ==
  ASSUME NEW ev, ev.conversion = "MultOffset", NEW k \in Int, HasFactor(ev, k),
         ev.offset = 0, NEW p \in FactorPresets, p[1] = k
  PROVE  ValueIs(p[2], <<>>, ev)
  <1>1. ASSUME NEW raw \in Int
        PROVE  Decode(p[2], <<>>, raw) = VitosoftValue(ev, raw)
    <2>1. ScaledBy(Thousandths(raw), Scale[p[2]]) = raw * k
      BY FactorPresetIs
    <2>2. VitosoftValue(ev, raw) = raw * k + ev.offset
      BY VitosoftFactor
    <2>3. raw * k + 0 = raw * k
      OBVIOUS
    <2> QED
      BY <2>1, <2>2, <2>3, NoFilter DEF Decode
  <1>2. p[2] \in Converter
    <2>1. 0 \in Int
      OBVIOUS
    <2> QED
      BY <2>1, FactorPresetIs DEF Converter
  <1> QED
    BY <1>1, <1>2, EmptyIs DEF ValueIs

\* Its filters, and no filter for a row without a factor.
LEMMA FiltersDecode ==
  ASSUME NEW ev, NumbersOk(ev), ev.conversion = "MultOffset",
         NEW k \in Int, HasFactor(ev, k) \/ (k = 1000 /\ FactorOf(ev) = <<>>)
  PROVE  ValueIs("noconv", TransformOf(k, ev.offset), ev)
  <1> DEFINE o == ev.offset
  <1>1. o \in Int /\ (FactorOf(ev) = <<>> => o = 0)
    BY DEF NumbersOk
  <1>2. ASSUME NEW raw \in Int
        PROVE  VitosoftValue(ev, raw) = raw * k + o
    <2>1. CASE k = 1000 /\ FactorOf(ev) = <<>>
      <3>1. VitosoftValue(ev, raw) = raw * 1000 /\ raw * 1000 + 0 = raw * 1000
        BY <2>1, VitosoftPlain
      <3> QED
        BY <1>1, <2>1, <3>1
    <2>2. CASE HasFactor(ev, k)
      BY <2>2, VitosoftFactor
    <2> QED
      BY <2>1, <2>2
  <1> HIDE DEF o
  <1>3. \A raw \in Int : Decode("noconv", TransformOf(k, o), raw) = raw * k + o
    BY <1>1, TransformDecodes
  <1>4. "noconv" \in Converter
    BY DEF Converter, ByScale
  <1>5. ValueIs("noconv", TransformOf(k, o), ev)
    BY <1>2, <1>3, <1>4, TransformSeq DEF ValueIs
  <1> QED
    BY <1>5 DEF o

\* The preset of a conversion that has one.
LEMMA ConversionDecodes ==
  ASSUME NEW ev, ev.conversion \in DOMAIN VitosoftScale
  PROVE  /\ ValueIs(Preset(ev.conversion)[1], <<>>, ev) /\ Preset(ev.conversion)[1] # ""
         /\ ev.conversion \notin {"MultOffset", "NoConversion"}
  <1>1. ev.conversion # "MultOffset"
    BY PresetsAgree
  <1>2. VitosoftScale[ev.conversion] = Scale[Preset(ev.conversion)[1]]
    BY PresetsAgree
  <1>3. \A raw \in Int : Decode(Preset(ev.conversion)[1], <<>>, raw) = VitosoftValue(ev, raw)
    BY <1>1, <1>2, NoFilter DEF Decode, VitosoftValue, Thousandths
  <1> QED
    BY <1>3, PresetsAgree, EmptyIs DEF ValueIs

\* A converter that becomes a filter leaves the value as it is.
LEMMA AsFilter ==
  ASSUME NEW conv \in Converter
  PROVE  LET scale == ConvScaleOf(conv)
             filters == IF scale = One THEN <<>> ELSE <<Multiply(scale)>>
         IN /\ IsSeq(filters)
            /\ \A raw \in Int : Decode("noconv", filters, raw) = Decode(conv, <<>>, raw)
  <1> DEFINE scale == Scale[conv]
             filters == IF scale = One THEN <<>> ELSE <<Multiply(scale)>>
  <1>1. ConvScaleOf(conv) = scale
    BY TablesAgree
  <1>2. scale = <<scale[1], scale[2]>>
    <2>1. \A x, y : <<x, y>>[1] = x /\ <<x, y>>[2] = y
      OBVIOUS
    <2> QED
      BY <2>1 DEF Scale, Converter, ByScale, One
  <1>3. Scale["noconv"] = One
    BY DEF Scale
  <1> HIDE DEF scale
  <1>4. ASSUME NEW raw \in Int
        PROVE  Decode("noconv", filters, raw) = Decode(conv, <<>>, raw)
    <2>1. Decode(conv, <<>>, raw) = ScaledBy(Thousandths(raw), scale)
      BY NoFilter DEF Decode, scale
    <2>2. Decode("noconv", filters, raw) = ThroughFilters(Thousandths(raw), filters)
      BY <1>3, ScaledByOneIs DEF Decode
    <2>3. CASE scale = One
      BY <2>1, <2>2, <2>3, ScaledByOneIs, NoFilter
    <2>4. CASE scale # One
      <3>1. Filtered1(Thousandths(raw), Multiply(scale)) = ScaledBy(Thousandths(raw), scale)
        BY <1>2, FilterIs
      <3> QED
        BY <2>1, <2>2, <2>4, <3>1, OneFilter
    <2> QED
      BY <2>3, <2>4
  <1> HIDE DEF filters
  <1>5. IsSeq(filters)
    BY EmptyIs, SingleIs DEF filters
  <1> QED
    BY <1>1, <1>4, <1>5 DEF filters

LEMMA AsFilterDecodes ==
  ASSUME NEW conv, NEW ev, ValueIs(conv, <<>>, ev)
  PROVE  LET scale == ConvScaleOf(conv) IN
         ValueIs("noconv", IF scale = One THEN <<>> ELSE <<Multiply(scale)>>, ev)
  <1> DEFINE scale == ConvScaleOf(conv)
             filters == IF scale = One THEN <<>> ELSE <<Multiply(scale)>>
  <1>1. /\ IsSeq(filters)
        /\ \A raw \in Int : Decode("noconv", filters, raw) = Decode(conv, <<>>, raw)
    BY AsFilter DEF ValueIs
  <1>2. "noconv" \in Converter
    BY DEF Converter, ByScale
  <1> HIDE DEF filters
  <1>3. ValueIs("noconv", filters, ev)
    BY <1>1, <1>2 DEF ValueIs
  <1> QED
    BY <1>3 DEF filters


----------------------------------------------------------------------------
\* The value of a bit field and of a scalar.

\* A field of bits is decoded as one byte.
LEMMA OneByteDecodes ==
  ASSUME NEW ev, NEW v, ValueIs(v.conv, v.filters, ev)
  PROVE  /\ ValueIs(InOneByte(v).conv, InOneByte(v).filters, ev)
         /\ InOneByte(v).encodes => InOneByte(v) = v
  <1> DEFINE scale == ConvScaleOf(v.conv)
             filters == IF scale = One THEN <<>> ELSE <<Multiply(scale)>>
             kept == v.conv # "" /\ 1 \in ConvLengths[v.conv]
  <1>1. CASE kept
    BY <1>1 DEF InOneByte
  <1>2. CASE ~kept
    <2>1. v.conv # "" /\ 1 \notin ConvLengths[v.conv] /\ v.conv # "noconv"
      <3>1. v.conv # ""
        BY PresetsAgree DEF ValueIs
      <3>2. 1 \in ConvLengths["noconv"]
        BY DEF ConvLengths
      <3> QED
        BY <1>2, <3>1, <3>2
    <2>2. v.filters = <<>>
      BY <2>1 DEF ValueIs
    <2>3. filters \o <<>> = filters
      <3>1. \A x : <<x>> \in Seq({x}) /\ <<>> \in Seq({x})
        OBVIOUS
      <3> QED
        BY <3>1, NothingAdded
    <2>4. InOneByte(v) = Encoding("noconv", FALSE, filters)
      BY <1>2, <2>2, <2>3 DEF InOneByte
    <2>5. ValueIs("noconv", filters, ev)
      BY <2>2, AsFilterDecodes
    <2> HIDE DEF filters
    <2> QED
      BY <2>4, <2>5 DEF Encoding
  <1> QED
    BY <1>1, <1>2

\* A value that is written has no filters: a number has none.
BitGives(v, ev) == ValueIs(v.conv, v.filters, ev) /\ (v.encodes => v.filters = <<>>)
ScalarGives(v, ev) == ValueIs(v.conv, v.filters, ev) /\ (v.writable => v.filters = <<>>)

LEMMA EncodingGives ==
  ASSUME NEW conv, NEW encodes, NEW filters, NEW ev, ValueIs(conv, filters, ev),
         encodes => filters = <<>>
  PROVE  BitGives(Encoding(conv, encodes, filters), ev)
  BY DEF BitGives, Encoding

LEMMA ValueGives ==
  ASSUME NEW conv, NEW writable, NEW filters, NEW ev, ValueIs(conv, filters, ev),
         writable => filters = <<>>
  PROVE  ScalarGives(Value(conv, filters, writable), ev)
  BY DEF ScalarGives, Value

LEMMA BitValueDecodes ==
  ASSUME NEW ev, NumbersOk(ev), ev.conversion \in Decodable, NEW scaled
  PROVE  BitGives(BitValue(ev, scaled, FactorOf(ev)), ev)
  <1> DEFINE f == FactorOf(ev)
             v == BitValue(ev, scaled, f)
  <1>1. CASE ev.conversion \in DOMAIN VitosoftScale
    <2>1. v = Encoding(Preset(ev.conversion)[1], TRUE, <<>>)
      BY <1>1, ConversionDecodes DEF BitValue
    <2>2. ValueIs(Preset(ev.conversion)[1], <<>>, ev)
      BY <1>1, ConversionDecodes
    <2> HIDE DEF v
    <2>3. BitGives(v, ev)
      BY <2>1, <2>2, EncodingGives, Zenon
    <2> QED
      BY <2>3 DEF v
  <1>2. CASE ev.conversion = "MultOffset"
    <2> DEFINE preset == IF f # <<>> /\ ev.offset = 0 THEN PresetOf(f[1]) ELSE ""
               k == IF f = <<>> THEN 1000 ELSE f[1]
               transform == TransformOf(k, ev.offset)
    <2>1. v = ByFactor(preset, transform)
      BY <1>2 DEF BitValue
    <2>2. k \in Int /\ (HasFactor(ev, k) \/ (k = 1000 /\ f = <<>>))
      BY FactorIs DEF HasFactor
    <2>3. ValueIs("noconv", transform, ev)
      BY <1>2, <2>2, FiltersDecode
    <2>4. CASE preset # ""
      <3>1. f # <<>> /\ ev.offset = 0 /\ PresetOf(f[1]) # "" /\ preset = PresetOf(f[1])
        BY <2>4
      <3>2. PICK p \in FactorPresets : p[1] = f[1] /\ PresetOf(f[1]) = p[2]
        BY <3>1, PresetOfIs
      <3>3. k = f[1]
        BY <3>1
      <3>4. ValueIs(p[2], <<>>, ev)
        <4> HIDE DEF k
        <4>1. HasFactor(ev, k)
          BY <2>2, <3>1 DEF f
        <4> QED
          BY <1>2, <2>2, <3>1, <3>2, <3>3, <4>1, PresetDecodes
      <3>5. v = Encoding(preset, TRUE, <<>>)
        BY <2>1, <2>4 DEF ByFactor
      <3> HIDE DEF v, preset
      <3>6. BitGives(v, ev)
        BY <3>1, <3>2, <3>4, <3>5, EncodingGives
      <3> QED
        BY <3>6 DEF v
    <2>5. CASE preset = ""
      <3>1. v = Encoding("noconv", transform = <<>>, transform)
        BY <2>1, <2>5 DEF ByFactor
      <3> HIDE DEF v, transform
      <3>2. BitGives(v, ev)
        BY <2>3, <3>1, EncodingGives
      <3> QED
        BY <3>2 DEF v
    <2> QED
      BY <2>4, <2>5
  <1> QED
    BY <1>1, <1>2 DEF Decodable

\* What an entity shows of its row.
ShownFilters(e) == IF e.platform = "sensor" THEN e.filters ELSE <<>>

LEMMA BitNumberDecodes ==
  ASSUME NEW ev, NumbersOk(ev), ev.conversion \in Decodable, NEW protocol, NEW f, NEW opts,
         NEW shape, Built(shape), NEW writable, NEW e,
         e = BitFieldSpec(ev, protocol, f, opts, shape, writable),
         e.platform \in {"sensor", "number"}
  PROVE  ValueIs(e.conv, ShownFilters(e), ev)
  <1> DEFINE w == BitValue(ev, ScaleFromBounds(ev, protocol), FactorOf(ev))
             v == InOneByte(w)
  <1>1. opts = <<>> /\ e = BitNumber(ev, f, v, shape, writable)
    <2>1. BitEnumSpec(ev, f, opts, EnumBoolPair(ev), shape, writable).platform
            \in {"comment", "switch", "select", "binary_sensor", "text_sensor"}
      BY DEF BitEnumSpec, Built, At, Blank
    <2> HIDE DEF v
    <2> QED
      BY <2>1 DEF BitFieldSpec, v
  <1>2. BitGives(w, ev)
    BY BitValueDecodes
  <1> HIDE DEF w
  <1>3. ValueIs(v.conv, v.filters, ev) /\ (v.encodes => v.filters = <<>>)
    BY <1>2, OneByteDecodes DEF BitGives
  <1> HIDE DEF v
  <1>4. /\ e.conv = v.conv
        /\ IF ~writable \/ ~v.encodes THEN e.platform = "sensor" /\ e.filters = v.filters
           ELSE e.platform = "number"
    <2> DEFINE scale == ConvScaleOf(v.conv)
    <2>1. e = BitNumberSpec(ev, f, v, scale, shape, writable)
      BY <1>1 DEF BitNumber
    <2> HIDE DEF scale
    <2> QED
      BY <2>1 DEF BitNumberSpec, Built, Blank
  <1> QED
    BY <1>3, <1>4 DEF ShownFilters

----------------------------------------------------------------------------
LEMMA ScalarValueDecodes ==
  ASSUME NEW ev, NumbersOk(ev), ev.conversion \in Decodable, NEW protocol
  PROVE  ScalarGives(ScalarValue(ev, protocol), ev)
  <1> DEFINE f == FactorOf(ev)
             row == IsWritable(ev, protocol)
             v == ScalarValue(ev, protocol)
  <1>1. ScaleFromBounds(ev, protocol) = NoBounds /\ NoBounds.kind # "ambiguous"
    <2>1. ev.conversion # "NoConversion"
      BY PresetsAgree DEF Decodable
    <2> QED
      BY <2>1 DEF ScaleFromBounds, NoBounds
  <1>2. CASE ev.conversion \in DOMAIN VitosoftScale
    <2>1. ~Driven(ev)
      BY <1>2, ConversionDecodes DEF Driven
    <2>2. v = Value(Preset(ev.conversion)[1], <<>>, row)
      BY <1>1, <1>2, <2>1, ConversionDecodes DEF ScalarValue, ScalarValueOf, ValueByPreset
    <2>3. ValueIs(Preset(ev.conversion)[1], <<>>, ev)
      BY <1>2, ConversionDecodes
    <2> HIDE DEF v
    <2>4. ScalarGives(v, ev)
      BY <2>2, <2>3, ValueGives, Zenon
    <2> QED
      BY <2>4 DEF v
  <1>3. CASE ev.conversion = "MultOffset"
    <2> DEFINE k == IF f = <<>> THEN 1000 ELSE f[1]
               preset == IF ev.offset = 0 THEN PresetOf(f[1]) ELSE ""
               transform == TransformOf(k, ev.offset)
    <2>1. k \in Int /\ (HasFactor(ev, k) \/ (k = 1000 /\ f = <<>>))
      BY FactorIs DEF HasFactor
    <2>2. ValueIs("noconv", transform, ev)
      BY <1>3, <2>1, FiltersDecode
    <2>3. CASE f # <<>> /\ (f # <<1000>> \/ ev.offset # 0)
      <3>1. v = ValueByFactor(ev, f, preset, row) /\ k = f[1]
        BY <1>1, <1>3, <2>3 DEF ScalarValue, ScalarValueOf, Driven
      <3>2. CASE preset # ""
        <4>1. ev.offset = 0 /\ PresetOf(f[1]) # "" /\ preset = PresetOf(f[1])
          BY <3>2
        <4>2. PICK p \in FactorPresets : p[1] = f[1] /\ PresetOf(f[1]) = p[2]
          BY <4>1, PresetOfIs
        <4>3. ValueIs(p[2], <<>>, ev)
          <5> HIDE DEF k
          <5>1. HasFactor(ev, k)
            BY <2>1, <2>3 DEF f
          <5> QED
            BY <1>3, <2>1, <3>1, <4>1, <4>2, <5>1, PresetDecodes
        <4>4. v = Value(preset, <<>>, row)
          BY <3>1, <3>2 DEF ValueByFactor
        <4> HIDE DEF v, preset
        <4>5. ScalarGives(v, ev)
          BY <4>1, <4>2, <4>3, <4>4, ValueGives
        <4> QED
          BY <4>5 DEF v
      <3>3. CASE preset = ""
        <4>1. v = Value("noconv", transform, FALSE)
          <5> HIDE DEF v, k
          <5> QED
            BY <1>3, <3>1, <3>3 DEF ValueByFactor
        <4> HIDE DEF v, transform
        <4>2. ScalarGives(v, ev)
          BY <2>2, <4>1, ValueGives
        <4> QED
          BY <4>2 DEF v
      <3> QED
        BY <3>2, <3>3
    <2>4. CASE ~(f # <<>> /\ (f # <<1000>> \/ ev.offset # 0))
      <3>1. k = 1000 /\ ev.offset = 0
        <4>1. f = <<>> => ev.offset = 0
          BY <1>3 DEF NumbersOk
        <4>2. <<1000>>[1] = 1000
          OBVIOUS
        <4> QED
          BY <2>4, <4>1, <4>2
      <3>2. transform = <<>>
        BY <3>1, TransformIs
      <3>3. v = Value("noconv", <<>>, row /\ ev.conversion = "MultOffset")
        <4>1. v = ValueByPreset(ev, Preset(ev.conversion)[1], row)
          BY <1>1, <2>4 DEF ScalarValue, ScalarValueOf
        <4> HIDE DEF v
        <4> QED
          BY <1>3, <4>1, PresetsAgree DEF ValueByPreset
      <3> HIDE DEF v, transform
      <3>4. ScalarGives(v, ev)
        BY <2>2, <3>2, <3>3, ValueGives
      <3> QED
        BY <3>4 DEF v
    <2> QED
      BY <2>3, <2>4
  <1> QED
    BY <1>2, <1>3 DEF Decodable

\* What a scalar is decoded with, when the platform has no such width.
LEMMA DecodedGives ==
  ASSUME NEW ev, NEW v, ScalarGives(v, ev), FieldLen(ev) \in 1..4,
         NEW d, d = Decoded(ev, v, ConvScaleOf(v.conv))
  PROVE  ValueIs(d.conv, d.filters, ev)
  <1> DEFINE scale == ConvScaleOf(v.conv)
             filters == IF scale = One THEN <<>> ELSE <<Multiply(scale)>>
  <1>1. CASE ~Fallback(v, FieldLen(ev))
    BY <1>1 DEF Decoded, ScalarGives
  <1>2. CASE Fallback(v, FieldLen(ev))
    <2>1. v.conv # "noconv"
      <3>1. ConvLengths["noconv"] = {1, 2, 3, 4}
        BY DEF ConvLengths
      <3> QED
        BY <1>2, <3>1 DEF Fallback
    <2>2. v.filters = <<>> /\ ValueIs(v.conv, <<>>, ev)
      BY <2>1 DEF ScalarGives, ValueIs
    <2>3. ValueIs("noconv", filters, ev)
      BY <2>2, AsFilterDecodes
    <2>4. <<>> \o filters = filters
      <3>1. filters \in Seq(ToSet(filters))
        BY <2>3 DEF ValueIs, IsSeq
      <3> QED
        BY <3>1, NothingAdded
    <2>5. d.conv = "noconv" /\ d.filters = filters
      BY <1>2, <2>2, <2>4 DEF Decoded
    <2> HIDE DEF filters
    <2> QED
      BY <2>3, <2>5
  <1> QED
    BY <1>1, <1>2

\* Of a scalar row, a sensor is decoded by Decoded, a number by the value itself.
LEMMA ScalarNumeric ==
  ASSUME NEW ev, RowOk(ev), NEW protocol, NEW german, NEW v, NEW partialWrites, NEW roBlocks,
         NEW e, e = BuildScalar(ev, protocol, german, v, partialWrites, roBlocks)
  PROVE  LET d == Decoded(ev, v, ConvScaleOf(v.conv)) IN
         /\ e.platform = "sensor" =>
              e = SensorSpec(ev, d, RawIsNegative(ev, protocol, d.filters)) /\ FieldLen(ev) \in 1..4
         /\ e.platform = "number" =>
              /\ e.conv = v.conv /\ v.writable
              /\ e.signed = ExplicitSign(ev, ev.lower # <<>> /\ ev.lower[1] < 0,
                                         v.conv \in DefaultSigned)
  <1> DEFINE len == FieldLen(ev)
             opts == DedupOptionLabels(EnumOptions(ev, german))
             blockMode == ScalarBlockMode(ev, v, protocol, partialWrites, roBlocks)
             writable == Encodes(v) /\ (IsPart(ev) => blockMode)
             d == Decoded(ev, v, ConvScaleOf(v.conv))
             negative == ev.lower # <<>> /\ ev.lower[1] < 0
             explicit == ExplicitSign(ev, negative, v.conv \in DefaultSigned)
  <1>1. len \in Nat \ {0}
    BY LengthsAre
  <1>2. \A mode, sign : /\ SwitchOrSelectSpec(ev, opts, EnumBoolPair(ev), mode).platform
                             \in {"switch", "select"}
                        /\ NumberSpec(ev, v.conv, sign, mode).platform = "number"
                        /\ NumberSpec(ev, v.conv, sign, mode).conv = v.conv
                        /\ NumberSpec(ev, v.conv, sign, mode).signed = sign
    BY WriteShapeBuilt DEF SwitchOrSelectSpec, NumberSpec, Built, Blank
  <1>3. /\ At(ev).platform = "comment" /\ BinarySensorSpec(ev).platform \in {"comment", "binary_sensor"}
        /\ EnumTextSpec(ev, opts).platform = "text_sensor"
    BY ReadShapeBuilt DEF BinarySensorSpec, EnumTextSpec, EnumText, Built, At, Blank
  <1> HIDE DEF opts
  <1>4. SensorSpec(ev, d, RawIsNegative(ev, protocol, d.filters)).platform = "sensor"
    BY ReadShapeBuilt DEF SensorSpec, Built, Blank
  <1> HIDE DEF len, d, explicit
  <1>5. \/ e = At(ev)
        \/ e = SwitchOrSelectSpec(ev, opts, EnumBoolPair(ev), blockMode)
        \/ e = NumberSpec(ev, v.conv, explicit, blockMode) /\ v.writable
        \/ e = BinarySensorSpec(ev) \/ e = EnumTextSpec(ev, opts)
        \/ e = SensorSpec(ev, d, RawIsNegative(ev, protocol, d.filters)) /\ ~(len > 4)
    <2>1. e = ScalarSpec(ev, protocol, v, opts, len, blockMode)
      BY DEF BuildScalar, opts, len
    <2> HIDE DEF blockMode
    <2>2. writable => v.writable
      BY DEF Encodes
    <2> HIDE DEF writable, negative
    <2>3. \/ e = At(ev)
          \/ e = SwitchOrSelectSpec(ev, opts, EnumBoolPair(ev), blockMode)
          \/ e = NumberSpec(ev, v.conv, explicit, blockMode) /\ writable
          \/ e = BinarySensorSpec(ev) \/ e = EnumTextSpec(ev, opts)
          \/ e = ScalarSensor(ev, protocol, v, d) /\ ~(len > 4)
      BY <2>1 DEF ScalarSpec, writable, explicit, negative, d
    <2>4. ScalarSensor(ev, protocol, v, d)
            \in {At(ev), SensorSpec(ev, d, RawIsNegative(ev, protocol, d.filters))}
      BY DEF ScalarSensor
    <2> QED
      BY <2>2, <2>3, <2>4
  <1>6. ~(len > 4) => len \in 1..4
    BY <1>1
  <1> QED
    BY <1>2, <1>3, <1>4, <1>5, <1>6 DEF len, d, explicit

LEMMA SensorFilters ==
  ASSUME NEW ev, ~ev.negUnit, NEW d, IsSeq(d.filters), NEW negative
  PROVE  /\ SensorSpec(ev, d, negative).conv = d.conv
         /\ SensorSpec(ev, d, negative).filters = d.filters
  <1>1. d.filters \o <<>> = d.filters
    BY NothingAdded DEF IsSeq
  <1> QED
    BY <1>1, ReadShapeBuilt DEF SensorSpec, Built, Blank

LEMMA SensorSigned ==
  ASSUME NEW ev, NEW d, NEW negative
  PROVE  /\ SensorSpec(ev, d, negative).platform = "sensor"
         /\ SensorSpec(ev, d, negative).signed
              = ExplicitSign(ev, d.forced \/ negative, d.conv \in DefaultSigned)
  BY ReadShapeBuilt DEF SensorSpec, Built, Blank

\* The entity of a row, a number or a sensor.
LEMMA NumericIs ==
  ASSUME NEW ev, RowOk(ev), NEW protocol, NEW german, NEW partialWrites, NEW roBlocks,
         NEW e, e = BuildEntity(ev, protocol, german, partialWrites, roBlocks),
         e.platform \in {"sensor", "number"}
  PROVE  LET poll == PollFor(ev, Preset(ev.conversion)[2], protocol)
             wide == ev.bitLength > 1 \/ (ev.bitLength = 1 /\ IsWritable(ev, protocol))
         IN \/ /\ wide
               /\ \E blockMode : e = [BuildBitField(ev, protocol, german, partialWrites, BitField(ev),
                                                    blockMode) EXCEPT !.poll = poll]
            \/ /\ ~wide
               /\ e = [BuildScalar(ev, protocol, german, ScalarValue(ev, protocol), partialWrites,
                                   roBlocks) EXCEPT !.poll = poll]
               /\ ev.bytePosition = 0 \/ UseBlockExtract(ev)
  <1> DEFINE poll == PollFor(ev, Preset(ev.conversion)[2], protocol)
             blockMode == BitBlockMode(ev, protocol, partialWrites, roBlocks)
             bits == BuildBitField(ev, protocol, german, partialWrites, BitField(ev), blockMode)
             scalar == BuildScalar(ev, protocol, german, ScalarValue(ev, protocol), partialWrites,
                                   roBlocks)
             wide == ev.bitLength > 1 \/ (ev.bitLength = 1 /\ IsWritable(ev, protocol))
  <1>1. e # [At(ev) EXCEPT !.poll = poll]
    <2> HIDE DEF poll
    <2> QED
      BY DEF At, Blank
  <1>2. \A kind : e # [StringSpec(ev, kind) EXCEPT !.poll = poll]
    <2>1. \A kind : /\ Built(StringSpec(ev, kind))
                    /\ StringSpec(ev, kind).platform \in {"comment", "text_sensor"}
      BY StringBuilt DEF StringSpec, At, Blank
    <2> HIDE DEF poll
    <2> QED
      BY <2>1 DEF Built, Blank
  <1>3. ~(ev.bytePosition > 0) => ev.bytePosition = 0
    BY DEF RowOk
  <1>4. \/ e = [bits EXCEPT !.poll = poll] /\ wide
        \/ e = [scalar EXCEPT !.poll = poll] /\ ~wide /\ (ev.bytePosition = 0 \/ UseBlockExtract(ev))
    <2> HIDE DEF bits, scalar, poll
    <2> QED
      BY <1>1, <1>2, <1>3 DEF BuildEntity, bits, scalar, poll
  <1> HIDE DEF poll, scalar
  <1> QED
    BY <1>4 DEF poll, scalar

LEMMA EntityGives ==
  ASSUME NEW ev, RowOk(ev), NumbersOk(ev), ~ev.negUnit, ev.conversion \in Decodable,
         NEW protocol, NEW german, NEW partialWrites, NEW roBlocks,
         NEW e, e = BuildEntity(ev, protocol, german, partialWrites, roBlocks),
         e.platform \in {"sensor", "number"}
  PROVE  ValueIs(e.conv, ShownFilters(e), ev)
  <1> DEFINE poll == PollFor(ev, Preset(ev.conversion)[2], protocol)
             v == ScalarValue(ev, protocol)
             scalar == BuildScalar(ev, protocol, german, v, partialWrites, roBlocks)
             wide == ev.bitLength > 1 \/ (ev.bitLength = 1 /\ IsWritable(ev, protocol))
             polled(s) == [s EXCEPT !.poll = poll]
  <1>1. ASSUME NEW s, Built(s)
        PROVE  /\ polled(s).platform = s.platform /\ polled(s).conv = s.conv
               /\ ShownFilters(polled(s)) = ShownFilters(s)
    BY <1>1 DEF Built, Blank, ShownFilters
  <1>2. \/ \E mode : e = polled(BuildBitField(ev, protocol, german, partialWrites, BitField(ev), mode))
        \/ e = polled(scalar)
    BY NumericIs
  <1> HIDE DEF polled
  <1>3. ASSUME NEW mode,
               e = polled(BuildBitField(ev, protocol, german, partialWrites, BitField(ev), mode))
        PROVE  ValueIs(e.conv, ShownFilters(e), ev)
    <2> DEFINE field == BitField(ev)
               f == field[1]
               opts == DedupOptionLabels(EnumOptions(ev, german))
               shape == BitShape(ev, f, mode \/ f.byte > 0)
               writable == BitWritable(ev, protocol, partialWrites, mode)
               s == BuildBitField(ev, protocol, german, partialWrites, field, mode)
    <2>1. Built(s) /\ e.platform = s.platform /\ e.conv = s.conv /\ ShownFilters(e) = ShownFilters(s)
      BY <1>1, <1>3, BitFieldBuilt
    <2>2. s = BitFieldSpec(ev, protocol, f, opts, shape, writable)
      <3>1. At(ev).platform = "comment"
        BY DEF At, Blank
      <3> QED
        BY <2>1, <3>1 DEF BuildBitField
    <2>3. Built(shape)
      BY BitShapeBuilt
    <2> HIDE DEF s, shape, opts, writable, f
    <2>4. ValueIs(s.conv, ShownFilters(s), ev)
      BY <2>1, <2>2, <2>3, BitNumberDecodes
    <2> QED
      BY <2>1, <2>4
  <1>4. ASSUME e = polled(scalar)
        PROVE  ValueIs(e.conv, ShownFilters(e), ev)
    <2> DEFINE d == Decoded(ev, v, ConvScaleOf(v.conv))
               negative == RawIsNegative(ev, protocol, d.filters)
    <2>1. Built(scalar) /\ e.platform = scalar.platform /\ e.conv = scalar.conv
          /\ ShownFilters(e) = ShownFilters(scalar)
      BY <1>1, <1>4, ScalarBuilt
    <2>2. ScalarGives(v, ev)
      BY ScalarValueDecodes
    <2> HIDE DEF v
    <2>3. /\ scalar.platform = "sensor" => scalar = SensorSpec(ev, d, negative) /\ FieldLen(ev) \in 1..4
          /\ scalar.platform = "number" => scalar.conv = v.conv /\ v.writable
      BY ScalarNumeric
    <2> HIDE DEF scalar, negative
    <2>4. CASE e.platform = "sensor"
      <3>1. ValueIs(d.conv, d.filters, ev)
        BY <2>1, <2>2, <2>3, <2>4, DecodedGives
      <3>2. IsSeq(d.filters)
        BY <3>1 DEF ValueIs
      <3> HIDE DEF d
      <3>3. scalar.conv = d.conv /\ scalar.filters = d.filters
        <4>1. scalar = SensorSpec(ev, d, negative)
          BY <2>1, <2>3, <2>4
        <4>2. /\ SensorSpec(ev, d, negative).conv = d.conv
              /\ SensorSpec(ev, d, negative).filters = d.filters
          BY <3>2, SensorFilters
        <4> QED
          BY <4>1, <4>2
      <3> QED
        BY <2>1, <2>4, <3>1, <3>3 DEF ShownFilters
    <2>5. CASE e.platform = "number"
      BY <2>1, <2>2, <2>3, <2>5 DEF ScalarGives, ShownFilters
    <2> QED
      BY <2>4, <2>5
  <1> QED
    BY <1>2, <1>3, <1>4

\* The compiled entity of a number or a sensor.
LEMMA NumericCode ==
  ASSUME NEW made, Built(made), made.platform \in {"sensor", "number"}, made.conv \in Converter,
         NEW access, NEW prefix, NEW e, e = Rendered(ReadBy(made, access, prefix))
  PROVE  /\ ToCode(e).platform = made.platform
         /\ ToCode(e).signed <=> ResolveSigned(made.signed, made.conv)
         /\ ToCode(e).signed \in BOOLEAN
         /\ \A raw : CodeValue(ToCode(e), raw) = Decode(made.conv, ShownFilters(made), raw)
  <1> DEFINE d == Defaults(e)
  <1>1. /\ DOMAIN e = DOMAIN Blank /\ e.platform = made.platform /\ e.conv = made.conv
        /\ e.filters = ShownFilters(made) /\ e.signed = made.signed
    <2>1. /\ DOMAIN ReadBy(made, access, prefix) = DOMAIN Blank
          /\ ReadBy(made, access, prefix).platform = made.platform
          /\ ReadBy(made, access, prefix).conv = made.conv
          /\ ReadBy(made, access, prefix).filters = made.filters
          /\ ReadBy(made, access, prefix).signed = made.signed
      BY DEF ReadBy, Built, Blank
    <2> QED
      BY <2>1 DEF Rendered, ShownFilters, Blank
  <1>2. d.platform = e.platform /\ d.conv = e.conv /\ d.filters = e.filters /\ d.signed = e.signed
    <2>1. e.conv # ""
      BY <1>1, PresetsAgree
    <2> QED
      BY <1>1, <2>1 DEF Defaults, Blank
  <1> HIDE DEF d
  <1>3. /\ ToCode(e).platform = d.platform /\ ToCode(e).filters = d.filters
        /\ ToCode(e).scale = IF d.platform \in {"sensor", "number"} THEN Scale[d.conv] ELSE One
        /\ ToCode(e).signed = (d.platform \in {"sensor", "number"} /\ ResolveSigned(d.signed, d.conv))
    BY DEF ToCode, d
  <1>4. ASSUME NEW raw
        PROVE  CodeValue(ToCode(e), raw) = Decode(made.conv, ShownFilters(made), raw)
    BY <1>1, <1>2, <1>3 DEF CodeValue, Decode, ThroughFilters, Thousandths
  <1>5. d.signed = made.signed /\ d.conv = made.conv /\ d.platform \in {"sensor", "number"}
    BY <1>1, <1>2
  <1>6. /\ ToCode(e).signed <=> ResolveSigned(made.signed, made.conv)
        /\ ToCode(e).signed \in BOOLEAN
    BY <1>3, <1>5, Zenon
  <1> QED
    BY <1>1, <1>2, <1>3, <1>4, <1>6


----------------------------------------------------------------------------
\* The row of a line of the package.

\* The job stays what it was.
LEMMA JobStays == [Next]_vars => job' = job
  BY DEF Next, vars, SkipIdentification, DropWideAddress, DeferHistory, FanOutSchaltzeiten,
         FanOutHydro, EmitAction, EmitEntity, RowsDone, EmitHistory, WritePackage,
         LoadConfiguration, ToCodeEntity, SetUp, Take

\* The line of a row in the finished package, by the row.
LEMMA LineOfRow ==
  ASSUME ConfigInv, NEW n \in OfRows
  PROVE  \E access, prefix :
           LET ev == RowOf(n) IN
           /\ RowOk(ev) /\ ev \in ToSet(job.rows) /\ Built(Of(ev))
           /\ EntityOf(n) = Rendered(ReadBy(Of(ev), access, prefix))
  <1>1. stage = "written" /\ n \in DOMAIN output /\ output[n].chunk.row # <<>>
    BY DEF OfRows
  <1>2. PICK k : ChunkOk(k) /\ LineOf(output[n], k)
    <2>1. Packaged(output, gen.chunks) /\ ChunksOk(gen.chunks)
      BY <1>1 DEF ConfigInv, OutInv, GenInv, GenOk, ChunksOk
    <2> QED
      BY <1>1, <2>1 DEF Packaged, ChunksOk, Injection
  <1>3. k.row # <<>>
    BY <1>1, <1>2 DEF LineOf
  <1>4. /\ RowOf(n) = k.row[1]
        /\ EntityOf(n) = Rendered(ReadBy(Of(k.row[1]), k.entity.access, k.entity.prefix))
    BY <1>2, <1>3, RowLine
  <1>5. RowOk(k.row[1]) /\ k.row[1] \in ToSet(job.rows)
    BY <1>2, <1>3 DEF ChunkOk
  <1>6. Built(Of(k.row[1]))
    BY EntityBuilt DEF Of
  <1> QED
    BY <1>4, <1>5, <1>6

LEMMA RenderedPlatform ==
  ASSUME NEW made, Built(made), NEW access, NEW prefix,
         NEW e, e = Rendered(ReadBy(made, access, prefix))
  PROVE  ToCode(e).platform = made.platform
  BY DEF ToCode, Defaults, Rendered, ReadBy, Built, Blank

\* A number or a sensor decodes to the value of its row (DecodesTheValue,
\* build_entity_spec() against VITOSOFT's Conversion, ConversionFactor and
\* ConversionOffset): for every row whose offset comes with a factor, and, the lemmas say,
\* for every raw number.
THEOREM DecodesItsRow ==
  ASSUME NEW Jobs, \A j \in Jobs : JobOk(j) /\ \A r \in ToSet(j.rows) : NumbersOk(r)
  PROVE  (\E j \in Jobs : Init(j)) /\ [][Next]_vars => []DecodesTheValue
  <1> DEFINE Numbers == \A r \in ToSet(job.rows) : NumbersOk(r)
  <1>1. (\E j \in Jobs : Init(j)) => ConfigInv /\ Numbers
    BY InitConfig DEF Init
  <1>2. Numbers /\ [Next]_vars => Numbers'
    BY JobStays
  <1>3. ConfigInv /\ Numbers => DecodesTheValue
    <2> SUFFICES ASSUME ConfigInv, Numbers, NEW n \in OfRows,
                        CodeOf(n).platform \in {"sensor", "number"}, ~RowOf(n).negUnit,
                        RowOf(n).conversion \in Decodable, NEW raw \in {0, 360}
                 PROVE  CodeValue(CodeOf(n), raw) = VitosoftValue(RowOf(n), raw)
      BY DEF DecodesTheValue, Decodable
    <2> DEFINE ev == RowOf(n)
               made == Of(ev)
               e == EntityOf(n)
    <2>1. PICK access, prefix :
            /\ RowOk(ev) /\ ev \in ToSet(job.rows) /\ Built(made)
            /\ e = Rendered(ReadBy(made, access, prefix))
      BY LineOfRow
    <2>2. made.platform \in {"sensor", "number"}
      <3> HIDE DEF e, made
      <3>1. ToCode(e).platform = made.platform
        BY <2>1, RenderedPlatform
      <3> QED
        BY <3>1 DEF CodeOf, e
    <2>3. ValueIs(made.conv, ShownFilters(made), ev)
      <3>1. NumbersOk(ev) /\ ~ev.negUnit /\ ev.conversion \in Decodable
        BY <2>1
      <3> HIDE DEF ev
      <3> QED
        BY <2>1, <2>2, <3>1, EntityGives DEF Of
    <2> HIDE DEF e, made
    <2>4. CodeValue(ToCode(e), raw) = Decode(made.conv, ShownFilters(made), raw)
      BY <2>1, <2>2, <2>3, NumericCode DEF ValueIs
    <2>5. raw \in Int
      OBVIOUS
    <2> QED
      BY <2>3, <2>4, <2>5 DEF ValueIs, CodeOf, e, ev
  <1> QED
    BY <1>1, <1>2, <1>3, ConfigStep, PTL


----------------------------------------------------------------------------
\* Signs.

\* What FilterArg() finds among the filters of a transform.
LEMMA NoArg == ASSUME NEW name, NEW default PROVE FilterArg(<<>>, name, default) = default
  BY DEF FilterArg, ToSet

LEMMA ArgOf ==
  ASSUME NEW filters, NEW name, NEW default, NEW f \in ToSet(filters), f[1] = name,
         \A g \in ToSet(filters) : g[1] = name => g = f
  PROVE  FilterArg(filters, name, default) = f[2]
  BY DEF FilterArg

LEMMA SetsOf ==
  ASSUME NEW x, NEW y
  PROVE  ToSet(<<>>) = {} /\ ToSet(<<x>>) = {x} /\ ToSet(<<y>>) = {y} /\ ToSet(<<x, y>>) = {x, y}
  <1>1. ASSUME NEW s, NEW D, DOMAIN s = D PROVE ToSet(s) = {s[i] : i \in D}
    BY <1>1 DEF ToSet
  <1>2. ToSet(<<>>) = {}
    BY <1>1, EmptyIs
  <1>3. ASSUME NEW z PROVE ToSet(<<z>>) = {z}
    <2>1. ToSet(<<z>>) = {<<z>>[i] : i \in {1}} /\ <<z>>[1] = z
      BY <1>1, SingleIs
    <2> QED
      BY <2>1
  <1>4. ToSet(<<x, y>>) = {x, y}
    <2> DEFINE p == <<x, y>>
    <2>1. DOMAIN p = {1, 2} /\ p[1] = x /\ p[2] = y
      BY PairIs
    <2> HIDE DEF p
    <2>2. ToSet(p) = {p[i] : i \in {1, 2}}
      BY <1>1, <2>1
    <2>3. ToSet(p) = {x, y}
      BY <2>1, <2>2
    <2> QED
      BY <2>3 DEF p
  <1> QED
    BY <1>2, <1>3, <1>4

LEMMA TransformArgs ==
  ASSUME NEW factor, NEW offset
  PROVE  LET filters == TransformOf(factor, offset) IN
         /\ FilterArg(filters, "offset", 0) = offset
         /\ FilterArg(filters, "multiply", 1) = IF factor = 1000 THEN 1 ELSE factor
  <1> DEFINE m == Multiply(Milli(factor))
             o == Offset(offset)
             filters == TransformOf(factor, offset)
             M == IF factor = 1000 THEN {} ELSE {m}
             O == IF offset = 0 THEN {} ELSE {o}
  <1>1. m[1] = "multiply" /\ m[2] = factor /\ o[1] = "offset" /\ o[2] = offset
    BY DEF Multiply, Milli, Offset
  <1>2. filters = IF factor = 1000 THEN IF offset = 0 THEN <<>> ELSE <<o>>
                  ELSE IF offset = 0 THEN <<m>> ELSE <<m, o>>
    BY TransformIs
  <1> HIDE DEF m, o, filters
  <1>3. ToSet(filters) = M \cup O
    <2>1. ToSet(<<>>) = {} /\ ToSet(<<m>>) = {m} /\ ToSet(<<o>>) = {o} /\ ToSet(<<m, o>>) = {m, o}
      BY SetsOf
    <2> QED
      BY <1>2, <2>1
  <1>4. FilterArg(filters, "offset", 0) = offset
    <2>1. CASE offset = 0
      <3>1. ~\E f \in ToSet(filters) : f[1] = "offset"
        BY <1>1, <1>3, <2>1
      <3> QED
        BY <2>1, <3>1 DEF FilterArg
    <2>2. CASE offset # 0
      <3>1. o \in ToSet(filters) /\ \A g \in ToSet(filters) : g[1] = "offset" => g = o
        BY <1>1, <1>3, <2>2
      <3> QED
        BY <1>1, <3>1, ArgOf
    <2> QED
      BY <2>1, <2>2
  <1>5. FilterArg(filters, "multiply", 1) = IF factor = 1000 THEN 1 ELSE factor
    <2>1. CASE factor = 1000
      <3>1. ~\E f \in ToSet(filters) : f[1] = "multiply"
        BY <1>1, <1>3, <2>1
      <3> QED
        BY <2>1, <3>1 DEF FilterArg
    <2>2. CASE factor # 1000
      <3>1. m \in ToSet(filters) /\ \A g \in ToSet(filters) : g[1] = "multiply" => g = m
        BY <1>1, <1>3, <2>2
      <3> QED
        BY <1>1, <2>2, <3>1, ArgOf
    <2> QED
      BY <2>1, <2>2
  <1> QED
    BY <1>4, <1>5 DEF filters

LEMMA ScaleArgs ==
  ASSUME NEW scale
  PROVE  /\ FilterArg(<<Multiply(scale)>>, "offset", 0) = 0
         /\ FilterArg(<<Multiply(scale)>>, "multiply", 1) = scale[1]
  <1> DEFINE m == Multiply(scale)
  <1>1. m[1] = "multiply" /\ m[2] = scale[1]
    BY DEF Multiply
  <1> HIDE DEF m
  <1>2. ToSet(<<m>>) = {m}
    BY DEF ToSet
  <1>3. FilterArg(<<m>>, "offset", 0) = 0
    BY <1>1, <1>2 DEF FilterArg
  <1>4. FilterArg(<<m>>, "multiply", 1) = m[2]
    <2>1. m \in ToSet(<<m>>) /\ \A g \in ToSet(<<m>>) : g[1] = "multiply" => g = m
      BY <1>2
    <2> QED
      BY <1>1, <2>1, ArgOf
  <1> QED
    BY <1>1, <1>3, <1>4 DEF m

\* The sign an entity is read with, of a row with a negative lower border.
LEMMA SignIs ==
  ASSUME NEW ev, ~DeclaredUnsigned(ev), NEW negative \in BOOLEAN, NEW conv
  PROVE  ResolveSigned(ExplicitSign(ev, negative, conv \in DefaultSigned), conv)
           <=> negative \/ conv \in DefaultSigned
  <1> DEFINE default == conv \in DefaultSigned
             explicit == ExplicitSign(ev, negative, default)
  <1>1. explicit = IF negative /\ ~default THEN <<TRUE>> ELSE <<>>
    BY DEF ExplicitSign
  <1>2. <<TRUE>> # <<>> /\ <<TRUE>>[1] = TRUE
    OBVIOUS
  <1>3. CASE negative /\ ~default
    <2>1. explicit # <<>> /\ explicit[1] = TRUE
      BY <1>1, <1>2, <1>3
    <2>2. ResolveSigned(explicit, conv) = explicit[1]
      BY <2>1 DEF ResolveSigned
    <2> QED
      BY <1>3, <2>1, <2>2
  <1>4. CASE ~(negative /\ ~default)
    <2>1. explicit = <<>>
      BY <1>1, <1>4
    <2>2. ResolveSigned(explicit, conv) = default
      BY <2>1 DEF ResolveSigned
    <2> QED
      BY <1>4, <2>2
  <1> QED
    BY <1>3, <1>4, Zenon

\* The sign of a product.
LEMMA ProductSign ==
  ASSUME NEW x \in Int, NEW k \in Int
  PROVE  /\ k > 0 => (x * k < 0 <=> x < 0)
         /\ k < 0 => (x * k < 0 <=> x > 0)
  OBVIOUS

\* A value whose raw number is negative, behind a converter and filters.
Negative(conv, filters, v) ==
  IF Decode(conv, filters, 0) < Decode(conv, filters, 360)
  THEN v < Decode(conv, filters, 0) ELSE v > Decode(conv, filters, 0)

\* What a scalar with a negative lower border means: the generator finds the raw number of
\* the border negative when it is.
Border(conv, filters, ev, protocol) ==
  /\ conv \in Converter /\ IsSeq(filters)
  /\ RawIsNegative(ev, protocol, filters) <=> Negative(conv, filters, ev.lower[1])

NegativeRow(ev, protocol) ==
  /\ NumbersOk(ev) /\ ev.lower # <<>> /\ ev.lower[1] < 0
  /\ ScaleFromBounds(ev, protocol).kind # "ambiguous"

LEMMA BorderIs ==
  ASSUME NEW ev, NEW protocol, NegativeRow(ev, protocol)
  PROVE  ev.lower[1] \in Int /\ ev.offset \in Int /\ ~DeclaredUnsigned(ev)
  BY DEF NegativeRow, NumbersOk, DeclaredUnsigned

\* Behind a preset the raw number has the sign of the value.
LEMMA PresetRises ==
  ASSUME NEW conv \in Converter
  PROVE  Decode(conv, <<>>, 0) = 0 /\ Decode(conv, <<>>, 360) \in Int /\ Decode(conv, <<>>, 360) > 0
  <1>1. \A raw : Decode(conv, <<>>, raw) = ScaledBy(1000 * raw, Scale[conv])
    BY NoFilter DEF Decode, Thousandths
  <1>2. \/ \E k \in {2, 5, 10, 100} : Scale[conv] = <<k, 1>>
        \/ \E k \in {1, 2, 10, 100, 1000, 3600} : Scale[conv] = <<1, k>>
    BY SMT DEF Scale, Converter, ByScale, One
  <1>3. \A x, y : <<x, y>>[1] = x /\ <<x, y>>[2] = y
    OBVIOUS
  <1>4. ASSUME NEW v \in Nat
        PROVE  /\ ScaledBy(v, Scale[conv]) \in Int
               /\ v = 0 => ScaledBy(v, Scale[conv]) = 0
               /\ v >= 3600 => ScaledBy(v, Scale[conv]) > 0
    <2>1. ASSUME NEW k \in {2, 5, 10, 100} PROVE ScaledBy(v, <<k, 1>>) = v * k
      BY <1>3, <2>1, SMT DEF ScaledBy
    <2>2. ASSUME NEW k \in {1, 2, 10, 100, 1000, 3600} PROVE ScaledBy(v, <<1, k>>) = v \div k
      BY <1>3, <2>2, SMT DEF ScaledBy
    <2>3. ASSUME NEW k \in {2, 5, 10, 100}
          PROVE  v * k \in Int /\ (v = 0 => v * k = 0) /\ (v >= 3600 => v * k > 0)
      BY SMT
    <2>4. ASSUME NEW k \in {1, 2, 10, 100, 1000, 3600}
          PROVE  v \div k \in Int /\ (v = 0 => v \div k = 0) /\ (v >= 3600 => v \div k > 0)
      BY SMT
    <2>5. ASSUME NEW k \in {2, 5, 10, 100}, Scale[conv] = <<k, 1>>
          PROVE  ScaledBy(v, Scale[conv]) = v * k
      BY <2>1, <2>5
    <2>6. ASSUME NEW k \in {1, 2, 10, 100, 1000, 3600}, Scale[conv] = <<1, k>>
          PROVE  ScaledBy(v, Scale[conv]) = v \div k
      BY <2>2, <2>6
    <2> DEFINE shown == ScaledBy(v, Scale[conv])
    <2>7. \/ \E k \in {2, 5, 10, 100} : shown = v * k
          \/ \E k \in {1, 2, 10, 100, 1000, 3600} : shown = v \div k
      <3> HIDE DEF shown
      <3> QED
        BY <1>2, <2>5, <2>6 DEF shown
    <2> HIDE DEF shown
    <2>8. shown \in Int /\ (v = 0 => shown = 0) /\ (v >= 3600 => shown > 0)
      BY <2>3, <2>4, <2>7, SMT
    <2> QED
      BY <2>8 DEF shown
  <1>5. 1000 * 0 = 0 /\ 1000 * 360 \in Nat /\ 1000 * 360 >= 3600
    BY SMT
  <1> QED
    BY <1>1, <1>4, <1>5, SMT

LEMMA PresetNegative ==
  ASSUME NEW conv \in Converter, NEW v \in Int
  PROVE  Negative(conv, <<>>, v) <=> v < 0
  BY PresetRises DEF Negative

\* Behind a factor and an offset the offset is taken away, and a factor may turn the sign.
LEMMA TransformNegative ==
  ASSUME NEW k \in Int, k # 0, NEW offset \in Int, NEW v \in Int
  PROVE  Negative("noconv", TransformOf(k, offset), v) <=> (v - offset) * k < 0
  <1> DEFINE filters == TransformOf(k, offset)
             zero == Decode("noconv", filters, 0)
             far == Decode("noconv", filters, 360)
  <1>1. zero = 0 * k + offset /\ far = 360 * k + offset
    BY TransformDecodes
  <1> HIDE DEF filters, zero, far
  <1>2. zero = offset /\ far \in Int /\ (k > 0 <=> zero < far)
    BY <1>1
  <1>3. Negative("noconv", filters, v) <=> IF k > 0 THEN v < offset ELSE v > offset
    BY <1>2 DEF Negative, zero, far
  <1>4. v - offset \in Int /\ (v - offset < 0 <=> v < offset) /\ (v - offset > 0 <=> v > offset)
    OBVIOUS
  <1>5. /\ k > 0 => ((v - offset) * k < 0 <=> v < offset)
        /\ k < 0 => ((v - offset) * k < 0 <=> v > offset)
    BY <1>4, ProductSign
  <1>6. Negative("noconv", filters, v) <=> (v - offset) * k < 0
    BY <1>3, <1>5
  <1> QED
    BY <1>6 DEF filters

\* Without a filter, and behind a scale, the raw number of the border is found negative.
LEMMA PlainBorder ==
  ASSUME NEW ev, NEW protocol, NegativeRow(ev, protocol), ScaleFromBounds(ev, protocol) = NoBounds
  PROVE  RawIsNegative(ev, protocol, <<>>)
  <1> DEFINE lo == ev.lower[1]
  <1>1. lo \in Int /\ lo < 0 /\ ev.lower # <<>>
    BY BorderIs DEF NegativeRow
  <1>2. FilterArg(<<>>, "offset", 0) = 0 /\ FilterArg(<<>>, "multiply", 1) = 1
    BY NoArg
  <1>3. (lo - 0) * 1 < 0
    BY <1>1
  <1> QED
    BY <1>1, <1>2, <1>3 DEF RawIsNegative

LEMMA ScaledBorder ==
  ASSUME NEW ev, NEW protocol, NegativeRow(ev, protocol), ScaleFromBounds(ev, protocol) = NoBounds,
         NEW scale, scale[1] \in Nat \ {0}
  PROVE  RawIsNegative(ev, protocol, <<Multiply(scale)>>)
  <1> DEFINE lo == ev.lower[1]
             k == scale[1]
  <1>1. lo \in Int /\ lo < 0 /\ ev.lower # <<>>
    BY BorderIs DEF NegativeRow
  <1>2. /\ FilterArg(<<Multiply(scale)>>, "offset", 0) = 0
        /\ FilterArg(<<Multiply(scale)>>, "multiply", 1) = k
    BY ScaleArgs
  <1>3. (lo - 0) * k < 0
    BY <1>1, SMT
  <1> QED
    BY <1>1, <1>2, <1>3 DEF RawIsNegative

\* Behind a factor and an offset it is found so when it is.
LEMMA TransformBorder ==
  ASSUME NEW ev, NEW protocol, NegativeRow(ev, protocol), ScaleFromBounds(ev, protocol) = NoBounds,
         NEW k \in Int, k # 0
  PROVE  Border("noconv", TransformOf(k, ev.offset), ev, protocol)
  <1> DEFINE lo == ev.lower[1]
             o == ev.offset
             filters == TransformOf(k, o)
             m == IF k = 1000 THEN 1 ELSE k
  <1>1. lo \in Int /\ lo < 0 /\ ev.lower # <<>> /\ o \in Int
    BY BorderIs DEF NegativeRow
  <1>2. FilterArg(filters, "offset", 0) = o /\ FilterArg(filters, "multiply", 1) = m
    BY TransformArgs
  <1>3. IsSeq(filters) /\ "noconv" \in Converter
    BY TransformSeq DEF Converter, ByScale
  <1>4. Negative("noconv", filters, lo) <=> (lo - o) * k < 0
    BY <1>1, TransformNegative
  <1>5. RawIsNegative(ev, protocol, filters) <=> (lo - o) * m < 0
    BY <1>1, <1>2 DEF RawIsNegative
  <1> HIDE DEF filters, lo, o
  <1>6. (lo - o) * m < 0 <=> (lo - o) * k < 0
    <2>1. lo - o \in Int
      BY <1>1
    <2>2. CASE k = 1000
      <3>1. (lo - o) * 1000 < 0 <=> lo - o < 0
        BY <2>1
      <3>2. (lo - o) * 1 = lo - o
        BY <2>1
      <3> QED
        BY <2>2, <3>1, <3>2
    <2> QED
      BY <2>2
  <1> HIDE DEF m
  <1>7. RawIsNegative(ev, protocol, filters) <=> Negative("noconv", filters, lo)
    BY <1>4, <1>5, <1>6, Zenon
  <1>8. Border("noconv", filters, ev, protocol)
    BY <1>3, <1>7, Zenon DEF Border, lo
  <1> QED
    BY <1>8 DEF filters, o

\* A border that is the offset itself: the raw number is 0, and none is found negative.
LEMMA AffineBorder ==
  ASSUME NEW ev, NEW protocol, NegativeRow(ev, protocol), ScaleFromBounds(ev, protocol) # NoBounds
  PROVE  Border("noconv", FromBounds(ScaleFromBounds(ev, protocol)), ev, protocol)
  <1> DEFINE lo == ev.lower[1]
             st == ev.stepping[1]
             scaled == ScaleFromBounds(ev, protocol)
  <1>1. lo \in Int /\ lo < 0 /\ lo # 0
    BY BorderIs DEF NegativeRow
  <1>2. /\ scaled.scale = <<st, 1000>> /\ scaled.offset = lo
        /\ ev.stepping # <<>> /\ ~(st <= 0) /\ st % 1000 # 0
    <2>1. scaled.kind # "ambiguous" /\ scaled # NoBounds /\ ~(lo >= 0)
      BY <1>1 DEF NegativeRow
    <2> DEFINE kind == IF lo >= 0 THEN "scale" ELSE IF protocol = "GWG" THEN "affine" ELSE "ambiguous"
               base == IF kind = "scale" THEN 0 ELSE lo
    <2> DEFINE width == Or(Or(ev.byteLength, ev.blockLength), 1)
               hi == ev.upper[1]
               rawMax == IF ev.bitLength > 1 THEN 2^ev.bitLength - 1 ELSE MaxRaw(width)
               absent == <<>> \in {ev.lower, ev.upper, ev.stepping}
               other == \/ ev.conversion # "NoConversion" \/ ev.bitLength = 1 \/ ev.rohwert
                        \/ width \notin 1..4 \/ absent
               whole == st % 1000 = 0
               refuted == \/ st <= 0 \/ whole \/ hi <= lo
                          \/ (lo - base) % st # 0 \/ (hi - base) % st # 0
                          \/ (hi - base) \div st > rawMax
               made == [kind |-> kind, scale |-> <<st, 1000>>, offset |-> base]
    <2>4. scaled = IF other THEN NoBounds ELSE IF refuted THEN NoBounds ELSE made
      BY DEF ScaleFromBounds
    <2>5. ~other /\ ~refuted /\ scaled = made
      <3> HIDE DEF other, refuted, made, scaled
      <3> QED
        BY <2>1, <2>4
    <2>6. ~absent /\ ~(st <= 0) /\ ~whole
      <3> HIDE DEF absent, whole
      <3> QED
        BY <2>5, Zenon
    <2>2. /\ scaled = [kind |-> kind, scale |-> <<st, 1000>>, offset |-> base]
          /\ ev.stepping # <<>> /\ ~(st <= 0) /\ ~(st % 1000 = 0)
      <3> HIDE DEF scaled, made, kind, base, st
      <3> QED
        BY <2>5, <2>6, Zenon DEF made
    <2>3. kind # "scale"
      BY <2>1
    <2> HIDE DEF kind, scaled
    <2> QED
      BY <2>2, <2>3
  <1>3. st \in Int
    BY <1>2 DEF NegativeRow, NumbersOk
  <1> HIDE DEF scaled, st, lo
  <1>4. st # 1000
    BY <1>2, <1>3
  <1>5. FromBounds(scaled) = TransformOf(st, lo)
    BY <1>1, <1>2, <1>4 DEF FromBounds, TransformOf, Milli
  <1>6. IsSeq(TransformOf(st, lo)) /\ "noconv" \in Converter
    BY TransformSeq DEF Converter, ByScale
  <1>7. ~Negative("noconv", TransformOf(st, lo), lo)
    <2>1. ~((lo - lo) * st < 0) /\ st # 0
      BY <1>1, <1>2, <1>3
    <2> QED
      BY <1>1, <1>3, <2>1, TransformNegative
  <1>8. Border("noconv", TransformOf(st, lo), ev, protocol)
    <2>1. ~RawIsNegative(ev, protocol, TransformOf(st, lo))
      BY DEF RawIsNegative
    <2> QED
      BY <1>6, <1>7, <2>1 DEF Border, lo
  <1> QED
    BY <1>5, <1>8 DEF scaled

\* The value of a scalar: with a border of its own, or by a converter alone.
BorderValue(v, ev, protocol) ==
  \/ v.conv = "noconv" /\ Border("noconv", v.filters, ev, protocol)
  \/ v.conv \in Converter /\ v.filters = <<>> /\ ScaleFromBounds(ev, protocol) = NoBounds

LEMMA BorderValueIs ==
  ASSUME NEW ev, NEW protocol, NEW conv, NEW filters, NEW writable,
         \/ conv = "noconv" /\ Border("noconv", filters, ev, protocol)
         \/ conv \in Converter /\ filters = <<>> /\ ScaleFromBounds(ev, protocol) = NoBounds
  PROVE  BorderValue(Value(conv, filters, writable), ev, protocol)
  BY DEF BorderValue, Value

LEMMA DeclaredIs ==
  ASSUME NEW conversion
  PROVE  Preset(conversion)[1] = "" \/ Preset(conversion)[1] \in Converter
  <1> DEFINE p == ConversionMap[conversion]
  <1>1. ASSUME conversion \in DOMAIN ConversionMap PROVE p[1] = "" \/ p[1] \in Converter
    <2>1. \A x, y : <<x, y>>[1] = x
      OBVIOUS
    <2>2. ConversionMap["NoConversion"][1] = "noconv" /\ ConversionMap["Sec2Minute"][1] = ""
      BY <2>1 DEF ConversionMap
    <2>3. DOMAIN ConversionMap = DOMAIN VitosoftScale \cup {"NoConversion", "Sec2Minute"}
      BY DEF ConversionMap, VitosoftScale
    <2>4. \A c \in DOMAIN VitosoftScale : ConversionMap[c][1] \in Converter
      BY <2>3, PresetsAgree DEF Preset
    <2> QED
      BY <1>1, <2>2, <2>3, <2>4 DEF Converter, ByScale
  <1>2. <<"", "plain">>[1] = ""
    OBVIOUS
  <1> HIDE DEF p
  <1>3. Preset(conversion) = IF conversion \in DOMAIN ConversionMap THEN p ELSE <<"", "plain">>
    BY DEF Preset, p
  <1> QED
    BY <1>1, <1>2, <1>3

LEMMA ScalarBorder ==
  ASSUME NEW ev, NEW protocol, NegativeRow(ev, protocol)
  PROVE  BorderValue(ScalarValue(ev, protocol), ev, protocol)
  <1> DEFINE scaled == ScaleFromBounds(ev, protocol)
             f == FactorOf(ev)
             row == IsWritable(ev, protocol)
             declared == Preset(ev.conversion)[1]
             preset == IF ev.offset = 0 THEN PresetOf(f[1]) ELSE ""
             v == ScalarValue(ev, protocol)
             driven == Driven(ev) /\ f # <<>> /\ (f # <<1000>> \/ ev.offset # 0)
             good(w) == BorderValue(w, ev, protocol)
  <1>1. scaled.kind # "ambiguous"
    BY DEF NegativeRow
  <1>2. v = IF scaled # NoBounds THEN Value("noconv", FromBounds(scaled), FALSE)
            ELSE IF driven THEN ValueByFactor(ev, f, preset, row)
            ELSE ValueByPreset(ev, declared, row)
    BY <1>1 DEF ScalarValue, ScalarValueOf
  <1>3. "noconv" \in Converter
    BY DEF Converter, ByScale
  <1>4. CASE scaled # NoBounds
    <2>1. Border("noconv", FromBounds(scaled), ev, protocol)
      BY <1>4, AffineBorder
    <2> HIDE DEF v, scaled
    <2>2. good(v)
      BY <1>2, <1>4, <2>1, BorderValueIs
    <2> QED
      BY <2>2 DEF v
  <1>5. CASE scaled = NoBounds /\ driven
    <2>1. PICK k \in Int : HasFactor(ev, k)
      BY <1>5, FactorIs DEF NegativeRow
    <2>2. k # 0 /\ f[1] = k
      BY <2>1 DEF HasFactor
    <2>3. Border("noconv", TransformOf(k, ev.offset), ev, protocol)
      BY <1>5, <2>2, TransformBorder
    <2>4. CASE preset # ""
      <3>1. PresetOf(f[1]) # "" /\ preset = PresetOf(f[1])
        BY <2>4
      <3>2. PICK p \in FactorPresets : preset = p[2]
        BY <3>1, PresetOfIs
      <3>3. p[2] \in Converter
        <4>1. 0 \in Int
          OBVIOUS
        <4> QED
          BY <4>1, FactorPresetIs DEF Converter
      <3>4. v = Value(preset, <<>>, row)
        BY <1>2, <1>5, <2>4 DEF ValueByFactor
      <3> HIDE DEF v, preset, scaled, driven
      <3>5. good(v)
        BY <1>5, <3>2, <3>3, <3>4, BorderValueIs DEF scaled
      <3> QED
        BY <3>5 DEF v
    <2>5. CASE preset = ""
      <3> DEFINE raw == row /\ ev.conversion # "MultOffset"
      <3>1. v = Value("noconv", IF raw THEN <<>> ELSE TransformOf(k, ev.offset), raw)
        BY <1>2, <1>5, <2>2, <2>5 DEF ValueByFactor
      <3> HIDE DEF v, preset, scaled, driven, raw
      <3>2. CASE raw
        <4>1. v = Value("noconv", <<>>, raw)
          BY <3>1, <3>2
        <4>2. good(v)
          BY <1>3, <1>5, <4>1, BorderValueIs DEF scaled
        <4> QED
          BY <4>2 DEF v
      <3>3. CASE ~raw
        <4>1. v = Value("noconv", TransformOf(k, ev.offset), raw)
          BY <3>1, <3>3
        <4>2. good(v)
          BY <2>3, <4>1, BorderValueIs
        <4> QED
          BY <4>2 DEF v
      <3> QED
        BY <3>2, <3>3
    <2> QED
      BY <2>4, <2>5
  <1>6. CASE scaled = NoBounds /\ ~driven
    <2>1. \/ declared \in Converter /\ v = Value(declared, <<>>, row)
          \/ v = Value("noconv", <<>>, row /\ ev.conversion = "MultOffset")
      <3>1. v = ValueByPreset(ev, declared, row)
        BY <1>2, <1>6
      <3> HIDE DEF v
      <3> QED
        BY <3>1, DeclaredIs DEF ValueByPreset
    <2> HIDE DEF v, scaled, driven, declared
    <2>2. good(v)
      BY <1>3, <1>6, <2>1, BorderValueIs DEF scaled
    <2> QED
      BY <2>2 DEF v
  <1> QED
    BY <1>4, <1>5, <1>6

\* What it is decoded with: a converter that is signed by itself, or that hands its sign on,
\* decodes a border found negative.
LEMMA DecodedBorder ==
  ASSUME NEW ev, NEW protocol, NegativeRow(ev, protocol), FieldLen(ev) \in 1..4,
         NEW v, BorderValue(v, ev, protocol), NEW d, d = Decoded(ev, v, ConvScaleOf(v.conv))
  PROVE  /\ Border(d.conv, d.filters, ev, protocol)
         /\ d.forced \/ d.conv \in DefaultSigned => RawIsNegative(ev, protocol, d.filters)
  <1> DEFINE scale == ConvScaleOf(v.conv)
             filters == IF scale = One THEN <<>> ELSE <<Multiply(scale)>>
  <1>1. "noconv" \in Converter /\ ConvLengths["noconv"] = 1..4 /\ "noconv" \notin DefaultSigned
    BY DEF ConvLengths, Converter, ByScale, DefaultSigned
  <1>2. CASE v.conv = "noconv" /\ Border("noconv", v.filters, ev, protocol)
    <2>1. d.conv = "noconv" /\ d.filters = v.filters /\ ~d.forced
      BY <1>1, <1>2 DEF Decoded, Fallback
    <2> QED
      BY <1>1, <1>2, <2>1
  <1>3. CASE /\ v.conv \in Converter /\ v.filters = <<>>
             /\ ScaleFromBounds(ev, protocol) = NoBounds
    <2>1. RawIsNegative(ev, protocol, <<>>) /\ ev.lower[1] \in Int /\ ev.lower[1] < 0
      BY <1>3, PlainBorder, BorderIs DEF NegativeRow
    <2>2. scale[1] \in Nat \ {0}
      BY <1>3 DEF ConvScaleOf, ConvScale, Converter, ByScale, One
    <2>3. RawIsNegative(ev, protocol, filters)
      BY <1>3, <2>1, <2>2, ScaledBorder
    <2>4. /\ IsSeq(filters)
          /\ \A raw \in Int : Decode("noconv", filters, raw) = Decode(v.conv, <<>>, raw)
      BY <1>3, AsFilter
    <2>5. Negative(v.conv, <<>>, ev.lower[1]) /\ Negative("noconv", filters, ev.lower[1])
      <3> HIDE DEF filters
      <3>1. Negative(v.conv, <<>>, ev.lower[1])
        BY <1>3, <2>1, PresetNegative
      <3>2. 0 \in Int /\ 360 \in Int
        OBVIOUS
      <3>3. /\ Decode("noconv", filters, 0) = Decode(v.conv, <<>>, 0)
            /\ Decode("noconv", filters, 360) = Decode(v.conv, <<>>, 360)
        BY <2>4, <3>2
      <3> QED
        BY <3>1, <3>3, Zenon DEF Negative
    <2>6. <<>> \o filters = filters
      BY <2>4, NothingAdded DEF IsSeq
    <2>7. \/ d.conv = v.conv /\ d.filters = <<>>
          \/ d.conv = "noconv" /\ d.filters = filters
      <3>1. d.conv = (IF Fallback(v, FieldLen(ev)) THEN "noconv" ELSE v.conv)
            /\ d.filters = IF Fallback(v, FieldLen(ev)) THEN <<>> \o filters ELSE <<>>
        BY <1>3 DEF Decoded
      <3> HIDE DEF filters
      <3> QED
        BY <2>6, <3>1
    <2> HIDE DEF filters
    <2>8. CASE d.conv = v.conv /\ d.filters = <<>>
      BY <1>3, <2>1, <2>5, <2>8, EmptyIs DEF Border
    <2>9. CASE d.conv = "noconv" /\ d.filters = filters
      BY <1>1, <2>3, <2>4, <2>5, <2>9 DEF Border
    <2> QED
      BY <2>7, <2>8, <2>9
  <1> QED
    BY <1>2, <1>3 DEF BorderValue

\* The sensor or number of a row with a negative border.
LEMMA EntityBorder ==
  ASSUME NEW ev, RowOk(ev), ev.bitLength = 0, ~ev.negUnit, NEW protocol, NegativeRow(ev, protocol),
         NEW german, NEW partialWrites, NEW roBlocks,
         NEW e, e = BuildEntity(ev, protocol, german, partialWrites, roBlocks),
         e.platform \in {"sensor", "number"}
  PROVE  /\ e.conv \in Converter
         /\ ResolveSigned(e.signed, e.conv) <=> Negative(e.conv, ShownFilters(e), ev.lower[1])
  <1> DEFINE v == ScalarValue(ev, protocol)
             s == BuildScalar(ev, protocol, german, v, partialWrites, roBlocks)
             d == Decoded(ev, v, ConvScaleOf(v.conv))
             found == RawIsNegative(ev, protocol, d.filters)
             poll == PollFor(ev, Preset(ev.conversion)[2], protocol)
  <1>1. e = [s EXCEPT !.poll = poll]
    <2>1. ~(ev.bitLength > 1 \/ (ev.bitLength = 1 /\ IsWritable(ev, protocol)))
      OBVIOUS
    <2> HIDE DEF s, poll
    <2> QED
      BY <2>1, NumericIs DEF s, v, poll
  <1>2. Built(s)
    BY ScalarBuilt
  <1> HIDE DEF poll
  <1>3. /\ e.platform = s.platform /\ e.conv = s.conv /\ e.filters = s.filters
        /\ e.signed = s.signed
    <2> HIDE DEF s
    <2> QED
      BY <1>1, <1>2 DEF Built, Blank
  <1>4. BorderValue(v, ev, protocol) /\ v.conv \in Converter
    <2>1. BorderValue(v, ev, protocol)
      BY ScalarBorder
    <2> HIDE DEF v
    <2> QED
      BY <2>1 DEF BorderValue, Border
  <1> HIDE DEF v
  <1>5. ~DeclaredUnsigned(ev) /\ ev.lower[1] \in Int /\ ev.lower # <<>> /\ ev.lower[1] < 0
    BY BorderIs DEF NegativeRow
  <1>6. /\ s.platform = "sensor" => s = SensorSpec(ev, d, found) /\ FieldLen(ev) \in 1..4
        /\ s.platform = "number" =>
             /\ s.conv = v.conv
             /\ s.signed = ExplicitSign(ev, ev.lower # <<>> /\ ev.lower[1] < 0,
                                        v.conv \in DefaultSigned)
    BY ScalarNumeric
  <1>7. CASE e.platform = "sensor"
    <2>1. s = SensorSpec(ev, d, found) /\ FieldLen(ev) \in 1..4
      BY <1>3, <1>6, <1>7
    <2> HIDE DEF s
    <2>2. /\ Border(d.conv, d.filters, ev, protocol)
          /\ d.forced \/ d.conv \in DefaultSigned => found
      BY <1>4, <2>1, DecodedBorder
    <2> HIDE DEF d
    <2>3. s.conv = d.conv /\ s.filters = d.filters
      BY <2>1, <2>2, SensorFilters DEF Border
    <2>4. s.signed = ExplicitSign(ev, d.forced \/ found, d.conv \in DefaultSigned)
      BY <2>1, SensorSigned
    <2>5. (d.forced \/ found) \in BOOLEAN
      BY Zenon
    <2>6. ResolveSigned(s.signed, d.conv) <=> (d.forced \/ found) \/ d.conv \in DefaultSigned
      BY <1>5, <2>4, <2>5, SignIs, Zenon
    <2>7. ResolveSigned(s.signed, d.conv) <=> Negative(d.conv, d.filters, ev.lower[1])
      BY <2>2, <2>6, Zenon DEF Border
    <2>8. ShownFilters(e) = d.filters /\ e.conv = d.conv /\ e.signed = s.signed
      BY <1>3, <1>7, <2>3 DEF ShownFilters
    <2> QED
      BY <2>2, <2>7, <2>8, Zenon DEF Border
  <1>8. CASE e.platform = "number"
    <2>1. s.conv = v.conv /\ s.signed = ExplicitSign(ev, TRUE, v.conv \in DefaultSigned)
      <3>1. (ev.lower # <<>> /\ ev.lower[1] < 0) = TRUE
        BY <1>5
      <3> HIDE DEF s
      <3> QED
        BY <1>3, <1>6, <1>8, <3>1
    <2> HIDE DEF s
    <2>2. ResolveSigned(s.signed, v.conv)
      <3>1. TRUE \in BOOLEAN
        OBVIOUS
      <3> QED
        BY <1>5, <2>1, <3>1, SignIs, Zenon
    <2>3. Negative(v.conv, <<>>, ev.lower[1])
      BY <1>4, <1>5, PresetNegative
    <2>4. ShownFilters(e) = <<>> /\ e.conv = v.conv /\ e.signed = s.signed
      BY <1>3, <1>8, <2>1 DEF ShownFilters
    <2> QED
      BY <1>4, <2>2, <2>3, <2>4, Zenon
  <1> QED
    BY <1>7, <1>8

\* A number or a sensor whose lower border is negative is read as signed exactly when the
\* raw number of the border is negative (SignFitsBorder, the sign build_entity_spec() writes
\* against the value decode.h gives): for every export with its numbers, every converter,
\* factor, offset and width.
THEOREM SignsFitBorders ==
  ASSUME NEW Jobs, \A j \in Jobs : JobOk(j) /\ \A r \in ToSet(j.rows) : NumbersOk(r)
  PROVE  (\E j \in Jobs : Init(j)) /\ [][Next]_vars => []SignFitsBorder
  <1> DEFINE Numbers == \A r \in ToSet(job.rows) : NumbersOk(r)
  <1>1. (\E j \in Jobs : Init(j)) => ConfigInv /\ Numbers
    BY InitConfig DEF Init
  <1>2. Numbers /\ [Next]_vars => Numbers'
    BY JobStays
  <1>3. ConfigInv /\ Numbers => SignFitsBorder
    <2> SUFFICES ASSUME ConfigInv, Numbers, NEW n \in OfRows,
                        CodeOf(n).platform \in {"sensor", "number"}, ~RowOf(n).negUnit,
                        RowOf(n).lower # <<>>, RowOf(n).lower[1] < 0, RowOf(n).bitLength = 0,
                        ScaleFromBounds(RowOf(n), job.protocol).kind # "ambiguous"
                 PROVE  CodeOf(n).signed <=> RawNegative(CodeOf(n), RowOf(n).lower[1])
      BY DEF SignFitsBorder
    <2> DEFINE ev == RowOf(n)
               made == Of(ev)
               e == EntityOf(n)
               code == ToCode(e)
    <2>1. PICK access, prefix :
            /\ RowOk(ev) /\ ev \in ToSet(job.rows) /\ Built(made)
            /\ e = Rendered(ReadBy(made, access, prefix))
      BY LineOfRow
    <2>2. made.platform \in {"sensor", "number"}
      <3> HIDE DEF e, made
      <3>1. ToCode(e).platform = made.platform
        BY <2>1, RenderedPlatform
      <3> QED
        BY <3>1 DEF CodeOf, e
    <2>3. /\ made.conv \in Converter
          /\ ResolveSigned(made.signed, made.conv)
               <=> Negative(made.conv, ShownFilters(made), ev.lower[1])
      <3>1. NegativeRow(ev, job.protocol) /\ ~ev.negUnit /\ ev.bitLength = 0
        BY <2>1 DEF NegativeRow
      <3> HIDE DEF ev
      <3> QED
        BY <2>1, <2>2, <3>1, EntityBorder DEF Of
    <2> HIDE DEF e, made
    <2>4. /\ code.signed <=> ResolveSigned(made.signed, made.conv)
          /\ \A raw : CodeValue(code, raw) = Decode(made.conv, ShownFilters(made), raw)
      BY <2>1, <2>2, <2>3, NumericCode
    <2> HIDE DEF code, ev
    <2>5. RawNegative(code, ev.lower[1]) <=> Negative(made.conv, ShownFilters(made), ev.lower[1])
      <3>1. /\ CodeValue(code, 0) = Decode(made.conv, ShownFilters(made), 0)
            /\ CodeValue(code, 360) = Decode(made.conv, ShownFilters(made), 360)
        BY <2>4
      <3> QED
        BY <3>1, SMT DEF RawNegative, Negative
    <2>6. code.signed <=> RawNegative(code, ev.lower[1])
      BY <2>3, <2>4, <2>5, Zenon
    <2> QED
      BY <2>6, Zenon DEF CodeOf, code, e, ev
  <1> QED
    BY <1>1, <1>2, <1>3, ConfigStep, PTL
=============================================================================
