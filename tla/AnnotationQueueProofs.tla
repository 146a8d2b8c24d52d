----------------------- MODULE AnnotationQueueProofs -----------------------
(***************************************************************************)
(* Theorems about AnnotationQueue, for any annotations and any capacities: *)
(* its type invariant, that no accepted annotation is lost and none is     *)
(* doubled but by a lost answer, and that each of its steps is one of the  *)
(* abstract outbox, or none at all.                                        *)
(***************************************************************************)
EXTENDS AnnotationQueue, TLAPS, FiniteSetTheorems, SequenceTheorems, WellFoundedInduction

Lists ==
    /\ ready \in Seq(Payload) /\ unacked \in Seq(Payload) /\ rejected \in Seq(Payload)
    /\ deliveries \in Seq(Payload) /\ batch \in Seq(Payload)
    /\ Len(deliveries) <= UnackedLimit /\ Len(batch) <= MaxBatchSize

\* A batch is settled from its beginning, and what is to be returned is there:
\* others only add to the rejected ones.
Going ==
    /\ consumer \in {"collect", "post", "reject", "ack"}
    /\ redo \in {"first", "second", "redo"} /\ tick \in BOOLEAN
    /\ next \in 0..Len(batch) /\ (consumer \in {"collect", "post"} => next = 0)
    /\ left \in 0..Len(rejected) /\ (redo # "redo" => left = 0)

Counts ==
    /\ accepted \in [Payload -> 0..MaxAccepted]
    /\ sent \in [Payload -> Nat] /\ dropped \in [Payload -> Nat]
    /\ again \in [Payload -> Nat]

\* Where an accepted annotation is as long as it waits.
Places(p) ==
    Count(ready, p) + Count(rejected, p) + Count(deliveries, p) + Count(Unsettled, p)

Kept == \A p \in Payload : accepted[p] + again[p] = sent[p] + dropped[p] + Places(p)

\* An answer can be lost only of what the cloud was sent.
Heard == \A p \in Payload : again[p] <= sent[p]

\* The inductive invariant.
Inv == Lists /\ Going /\ Counts /\ Kept /\ Heard

-----------------------------------------------------------------------------
(* Lemmas on Count. *)

LEMMA CountType ==
    ASSUME NEW S, NEW l \in Seq(S), NEW p
    PROVE  /\ IsFiniteSet({i \in 1..Len(l) : l[i] = p})
           /\ Count(l, p) = Cardinality({i \in 1..Len(l) : l[i] = p})
           /\ Count(l, p) \in 0..Len(l)
<1> DEFINE T == {i \in 1..Len(l) : l[i] = p}
<1>1. Len(l) \in Nat /\ DOMAIN l = 1..Len(l)
    BY LenProperties
<1>2. IsFiniteSet(1..Len(l)) /\ Cardinality(1..Len(l)) = Len(l)
  <2>1. IsFiniteSet(1..Len(l)) /\ Cardinality(1..Len(l)) = IF 1 > Len(l) THEN 0 ELSE Len(l) - 1 + 1
    BY <1>1, FS_Interval
  <2>2. QED
    BY <1>1, <2>1
<1>3. IsFiniteSet(T) /\ Cardinality(T) <= Len(l) /\ Cardinality(T) \in Nat
    BY <1>2, FS_Subset, FS_CardinalityType
<1>4. Count(l, p) = Cardinality(T)
    BY <1>1 DEF Count
<1>5. QED
    BY <1>1, <1>3, <1>4

LEMMA CountEmpty == \A p : Count(<<>>, p) = 0
<1>1. SUFFICES ASSUME NEW p PROVE Count(<<>>, p) = 0
    OBVIOUS
<1>2. DOMAIN <<>> = {}
    OBVIOUS
<1>3. {i \in DOMAIN <<>> : <<>>[i] = p} = {}
    BY <1>2
<1>4. QED
    BY <1>3, FS_EmptySet DEF Count

LEMMA CountOne == \A q, p : Count(<<q>>, p) = IF q = p THEN 1 ELSE 0
<1> SUFFICES ASSUME NEW q, NEW p PROVE Count(<<q>>, p) = IF q = p THEN 1 ELSE 0
    OBVIOUS
<1>1. DOMAIN <<q>> = {1} /\ <<q>>[1] = q
    OBVIOUS
<1>2. {i \in DOMAIN <<q>> : <<q>>[i] = p} = IF q = p THEN {1} ELSE {}
    BY <1>1
<1>3. QED
    BY <1>2, FS_EmptySet, FS_Singleton DEF Count

LEMMA CountConcat ==
    ASSUME NEW S, NEW l \in Seq(S), NEW m \in Seq(S), NEW p
    PROVE  Count(l \o m, p) = Count(l, p) + Count(m, p)
<1> DEFINE n == l \o m
<1> DEFINE A == {i \in 1..Len(l) : l[i] = p}
<1> DEFINE B == {i \in 1..Len(m) : m[i] = p}
<1> DEFINE N == {i \in 1..Len(n) : n[i] = p}
<1> DEFINE C == {i \in N : i > Len(l)}
<1>1. n \in Seq(S) /\ Len(n) = Len(l) + Len(m)
      /\ \A i \in 1..(Len(l) + Len(m)) : n[i] = IF i <= Len(l) THEN l[i] ELSE m[i - Len(l)]
    BY ConcatProperties, Zenon
<1>2. Len(l) \in Nat /\ Len(m) \in Nat
    BY LenProperties
<1> HIDE DEF n
<1>3. /\ IsFiniteSet(A) /\ Count(l, p) = Cardinality(A)
      /\ IsFiniteSet(B) /\ Count(m, p) = Cardinality(B)
      /\ IsFiniteSet(N) /\ Count(n, p) = Cardinality(N)
    BY <1>1, CountType
<1>4. N = A \cup C /\ A \cap C = {}
  <2>1. \A i \in 1..Len(l) : i \in 1..Len(n) /\ n[i] = l[i] /\ ~(i > Len(l))
    BY <1>1, <1>2
  <2>2. \A i \in 1..Len(n) : i > Len(l) \/ i \in 1..Len(l)
    BY <1>1, <1>2
  <2>3. QED
    BY <2>1, <2>2
<1>5. ExistsBijection(B, C)
  <2> DEFINE f == [i \in B |-> i + Len(l)]
  <2>1. ASSUME NEW i \in B PROVE f[i] \in C
    <3>1. i + Len(l) \in 1..Len(n) /\ i + Len(l) > Len(l) /\ ~(i + Len(l) <= Len(l))
          /\ (i + Len(l)) - Len(l) = i
      BY <1>1, <1>2
    <3>2. n[i + Len(l)] = m[i]
      BY <1>1, <3>1
    <3>3. QED
      BY <3>1, <3>2
  <2>2. \A i, j \in B : f[i] = f[j] => i = j
    BY <1>2
  <2>3. ASSUME NEW j \in C PROVE \E i \in B : f[i] = j
    <3>1. j \in 1..(Len(l) + Len(m)) /\ j > Len(l) /\ n[j] = p
      BY <1>1
    <3>2. j - Len(l) \in 1..Len(m) /\ ~(j <= Len(l)) /\ (j - Len(l)) + Len(l) = j
      BY <1>2, <3>1
    <3>3. m[j - Len(l)] = p
      BY <1>1, <3>1, <3>2
    <3>4. j - Len(l) \in B /\ f[j - Len(l)] = j
      BY <3>2, <3>3
    <3>5. QED
      BY <3>4
  <2> HIDE DEF B, C
  <2>4. f \in [B -> C]
    BY <2>1
  <2> HIDE DEF f
  <2>5. f \in Bijection(B, C)
    BY <2>2, <2>3, <2>4 DEF Bijection, Injection, Surjection, IsInjective
  <2>6. QED
    BY <2>5 DEF ExistsBijection
<1>6. IsFiniteSet(C) /\ Cardinality(C) = Cardinality(B)
    BY <1>3, <1>5, FS_Bijection
<1>7. Cardinality(N) = Cardinality(A) + Cardinality(C)
  <2> HIDE DEF A, B, C, N
  <2>1. Cardinality(A \cup C) = Cardinality(A) + Cardinality(C) - Cardinality(A \cap C)
    BY <1>3, <1>6, FS_Union
  <2>2. Cardinality(A) \in Nat /\ Cardinality(C) \in Nat /\ Cardinality(A \cap C) = 0
    BY <1>3, <1>4, <1>6, FS_CardinalityType, FS_EmptySet
  <2>3. QED
    BY <1>4, <2>1, <2>2
<1>8. QED
    BY <1>3, <1>6, <1>7 DEF n

One(q, p) == IF q = p THEN 1 ELSE 0

LEMMA CountCons ==
    ASSUME NEW S, NEW l \in Seq(S), NEW q \in S
    PROVE  /\ Cons(q, l) \in Seq(S) /\ Len(Cons(q, l)) = Len(l) + 1
           /\ \A p : Count(Cons(q, l), p) = One(q, p) + Count(l, p)
<1>1. <<q>> \in Seq(S) /\ Len(<<q>>) = 1 /\ Len(l) \in Nat
    BY LenProperties
<1>2. <<q>> \o l \in Seq(S) /\ Len(<<q>> \o l) = 1 + Len(l)
    BY <1>1, ConcatProperties, Zenon
<1>3. \A p : Count(<<q>> \o l, p) = Count(<<q>>, p) + Count(l, p)
    BY <1>1, CountConcat, Zenon
<1>4. \A p : Count(<<q>>, p) = One(q, p)
    BY CountOne DEF One
<1>5. QED
    BY <1>1, <1>2, <1>3, <1>4 DEF Cons

LEMMA CountAppend ==
    ASSUME NEW S, NEW l \in Seq(S), NEW q \in S
    PROVE  /\ Append(l, q) \in Seq(S) /\ Len(Append(l, q)) = Len(l) + 1
           /\ \A p : Count(Append(l, q), p) = Count(l, p) + One(q, p)
<1>1. <<q>> \in Seq(S) /\ Len(<<q>>) = 1
    OBVIOUS
<1>2. Append(l, q) = l \o <<q>>
    BY AppendIsConcat, Zenon
<1>3. l \o <<q>> \in Seq(S) /\ Len(l \o <<q>>) = Len(l) + Len(<<q>>)
    BY <1>1, ConcatProperties, Zenon
<1>4. \A p : Count(l \o <<q>>, p) = Count(l, p) + Count(<<q>>, p)
    BY <1>1, CountConcat, Zenon
<1>5. \A p : Count(<<q>>, p) = One(q, p)
    BY CountOne DEF One
<1>6. QED
    BY <1>1, <1>2, <1>3, <1>4, <1>5, Zenon

LEMMA CountRest ==
    ASSUME NEW S, NEW l \in Seq(S), NEW i \in 0..(Len(l) - 1)
    PROVE  /\ l[i + 1] \in S
           /\ SubSeq(l, i + 1, Len(l)) \in Seq(S)
           /\ SubSeq(l, (i + 1) + 1, Len(l)) \in Seq(S)
           /\ \A p : Count(SubSeq(l, i + 1, Len(l)), p)
                     = One(l[i + 1], p) + Count(SubSeq(l, (i + 1) + 1, Len(l)), p)
<1>1. Len(l) \in Nat /\ \A j \in 1..Len(l) : l[j] \in S
    BY LenProperties, ElementOfSeq
<1> DEFINE j == i + 1
<1> DEFINE rest == SubSeq(l, j + 1, Len(l))
<1>2. j \in 1..Len(l) /\ Len(l) \in j..Len(l) /\ j + 1 \in Int /\ j \in Int
    BY <1>1
<1>3. l[j] \in S /\ <<l[j]>> \in Seq(S)
    BY <1>1, <1>2
<1>4. rest \in Seq(S)
  <2>1. \A k \in (j + 1)..Len(l) : l[k] \in S
    BY <1>1, <1>2
  <2>2. QED
    BY <1>1, <1>2, <2>1, SubSeqProperties
<1> HIDE DEF j
<1>5. SubSeq(l, j, Len(l)) = <<l[j]>> \o rest
    BY <1>2, SubSeqRecursiveFirst
<1> HIDE DEF rest
<1>6. <<l[j]>> \o rest \in Seq(S)
    BY <1>3, <1>4, ConcatProperties, Zenon
<1>7. \A p : Count(<<l[j]>> \o rest, p) = Count(<<l[j]>>, p) + Count(rest, p)
    BY <1>3, <1>4, CountConcat, Zenon
<1>8. \A p : Count(<<l[j]>>, p) = One(l[j], p)
    BY CountOne DEF One
<1>9. QED
    BY <1>3, <1>4, <1>5, <1>6, <1>7, <1>8 DEF j, rest

LEMMA CountHead ==
    ASSUME NEW S, NEW l \in Seq(S), l # <<>>
    PROVE  /\ Head(l) \in S /\ Tail(l) \in Seq(S) /\ Len(l) = Len(Tail(l)) + 1
           /\ \A p : Count(l, p) = One(Head(l), p) + Count(Tail(l), p)
<1>1. Len(l) \in Nat /\ (Len(l) # 0)
    BY LenProperties, EmptySeq
<1>2. Head(l) \in S /\ Tail(l) \in Seq(S) /\ Len(Tail(l)) = Len(l) - 1
    BY HeadTailProperties, Zenon
<1>3. 0 \in 0..(Len(l) - 1) /\ 0 + 1 = 1 /\ 1 + 1 = 2
    BY <1>1
<1>4. \A p : Count(SubSeq(l, 1, Len(l)), p) = One(l[1], p) + Count(SubSeq(l, 2, Len(l)), p)
    BY <1>3, CountRest
<1>5. SubSeq(l, 1, Len(l)) = l /\ SubSeq(l, 2, Len(l)) = Tail(l)
    BY SubSeqFull, TailIsSubSeq, Zenon
<1>6. Head(l) = l[1]
    OBVIOUS
<1>7. \A p : Count(l, p) = One(Head(l), p) + Count(Tail(l), p)
    BY <1>4, <1>5, <1>6, Zenon
<1>8. Len(l) = Len(Tail(l)) + 1
    BY <1>1, <1>2
<1>9. QED
    BY <1>2, <1>7, <1>8

LEMMA CountLast ==
    ASSUME NEW S, NEW l \in Seq(S), l # <<>>
    PROVE  /\ Last(l) \in S /\ Front(l) \in Seq(S) /\ Len(l) = Len(Front(l)) + 1
           /\ \A p : Count(l, p) = Count(Front(l), p) + One(Last(l), p)
<1>1. /\ Len(l) \in Nat /\ Len(l) # 0 /\ (\A j \in 1..Len(l) : l[j] \in S)
    BY LenProperties, EmptySeq, ElementOfSeq
<1> DEFINE n == Len(l)
<1> DEFINE front == SubSeq(l, 1, n - 1)
<1>2. n \in 1..n /\ 1 \in 1..n /\ n - 1 \in Int /\ 1 \in Int
    BY <1>1
<1>3. l[n] \in S /\ <<l[n]>> \in Seq(S)
    BY <1>1, <1>2
<1>4. front \in Seq(S) /\ Len(front) = n - 1
  <2>1. \A k \in 1..(n - 1) : l[k] \in S
    BY <1>1
  <2>2. front \in Seq(S) /\ Len(front) = IF 1 <= n - 1 THEN n - 1 - 1 + 1 ELSE 0
    BY <1>2, <2>1, SubSeqProperties
  <2> HIDE DEF front, n
  <2>3. n \in Nat /\ n # 0
    BY <1>1 DEF n
  <2>4. QED
    BY <2>2, <2>3
<1>5. l = front \o <<l[n]>>
  <2>1. SubSeq(l, 1, Len(l)) = front \o <<l[Len(l)]>>
    BY <1>2, SubSeqRecursiveSecond
  <2>2. QED
    BY <2>1, SubSeqFull, Zenon
<1> HIDE DEF front
<1>6. \A p : Count(front \o <<l[n]>>, p) = Count(front, p) + Count(<<l[n]>>, p)
    BY <1>3, <1>4, CountConcat, Zenon
<1>7. \A p : Count(<<l[n]>>, p) = One(l[n], p)
    BY CountOne DEF One
<1>8. \A p : Count(l, p) = Count(front, p) + One(l[n], p)
    BY <1>5, <1>6, <1>7, Zenon
<1>9. QED
    BY <1>1, <1>3, <1>4, <1>8 DEF front, Front, Last

LEMMA CountFour ==
    ASSUME NEW S, NEW a \in Seq(S), NEW b \in Seq(S), NEW c \in Seq(S), NEW d \in Seq(S), NEW p
    PROVE  /\ Count(a, p) \in Nat /\ Count(b, p) \in Nat
           /\ Count(c, p) \in Nat /\ Count(d, p) \in Nat
           /\ Count(a \o b \o c \o d, p)
              = Count(a, p) + Count(b, p) + Count(c, p) + Count(d, p)
<1>1. a \o b \in Seq(S) /\ a \o b \o c \in Seq(S)
    BY ConcatProperties, Zenon
<1>2. /\ Count(a \o b, p) = Count(a, p) + Count(b, p)
      /\ Count(a \o b \o c, p) = Count(a \o b, p) + Count(c, p)
      /\ Count(a \o b \o c \o d, p) = Count(a \o b \o c, p) + Count(d, p)
    BY <1>1, CountConcat, Zenon
<1>3. \A l \in Seq(S) : Count(l, p) \in Nat
  <2>1. ASSUME NEW l \in Seq(S) PROVE Count(l, p) \in Nat
    <3>1. Count(l, p) \in 0..Len(l) /\ Len(l) \in Nat
      BY CountType, LenProperties
    <3>2. QED
      BY <3>1
  <2>2. QED
    BY <2>1
<1>4. QED
    BY <1>2, <1>3

\* LREM takes one element out, or none.
LEMMA RemoveFirstType ==
    ASSUME NEW S, NEW l \in Seq(S), NEW e
    PROVE  RemoveFirst(l, e) \in Seq(S)
<1>1. CASE ~ \E i \in 1..Len(l) : l[i] = e
    BY <1>1 DEF RemoveFirst
<1>2. CASE \E i \in 1..Len(l) : l[i] = e
  <2> DEFINE I == {i \in 1..Len(l) : l[i] = e}
  <2>1. Len(l) \in Nat /\ \A j \in 1..Len(l) : l[j] \in S
    BY LenProperties, ElementOfSeq
  <2>2. I # {} /\ I \subseteq Nat
    BY <1>2, <2>1
  <2>3. \E x \in I : \A y \in I : x =< y
    <3>1. \E x \in I : \A y \in I : ~(<<y, x>> \in OpToRel(<, Nat))
      BY <2>2, NatLessThanWellFounded, WFMin, Zenon
    <3>2. ASSUME NEW x \in Nat, NEW y \in Nat, ~(<<y, x>> \in OpToRel(<, Nat)) PROVE x =< y
      BY <3>2 DEF OpToRel
    <3>3. QED
      BY <2>2, <3>1, <3>2
  <2>4. Min(I) \in I
    BY <2>3, Zenon DEF Min
  <2>5. RemoveFirst(l, e) = RemoveAt(l, Min(I))
    BY <1>2, <2>2 DEF RemoveFirst, SelectInSeq
  <2> HIDE DEF I
  <2>6. RemoveAt(l, Min(I)) \in Seq(S)
    <3>1. PICK j \in 1..Len(l) : j = Min(I)
      BY <2>4 DEF I
    <3>2. SubSeq(l, 1, j - 1) \in Seq(S)
      <4>1. \A k \in 1..(j - 1) : l[k] \in S
        BY <2>1
      <4>2. 1 \in Int /\ j - 1 \in Int
        BY <2>1
      <4>3. QED
        BY <4>1, <4>2, SubSeqProperties
    <3>3. SubSeq(l, j + 1, Len(l)) \in Seq(S)
      <4>1. \A k \in (j + 1)..Len(l) : l[k] \in S
        BY <2>1
      <4>2. j + 1 \in Int /\ Len(l) \in Int
        BY <2>1
      <4>3. QED
        BY <4>1, <4>2, SubSeqProperties
    <3>4. QED
      BY <3>1, <3>2, <3>3, ConcatProperties DEF RemoveAt
  <2>7. QED
    BY <2>5, <2>6
<1>3. QED
    BY <1>1, <1>2

\* A sum of counts bounds each of them.
LEMMA TotalBounds ==
    ASSUME NEW counts \in [Payload -> 0..MaxAccepted], NEW p \in Payload,
           Total(counts) < MaxAccepted
    PROVE  counts[p] < MaxAccepted
<1> DEFINE All == Payload \X (1..MaxAccepted)
<1> DEFINE T == {x \in All : x[2] <= counts[x[1]]}
<1> DEFINE Row == {p} \X (1..MaxAccepted)
<1>1. MaxAccepted \in Nat \ {0} /\ IsFiniteSet(Payload)
    BY QueueAssumption
<1>2. IsFiniteSet(1..MaxAccepted) /\ Cardinality(1..MaxAccepted) = MaxAccepted
  <2>1. IsFiniteSet(1..MaxAccepted)
        /\ Cardinality(1..MaxAccepted) = IF 1 > MaxAccepted THEN 0 ELSE MaxAccepted - 1 + 1
    BY <1>1, FS_Interval
  <2>2. QED
    BY <1>1, <2>1
<1>3. IsFiniteSet(All)
    BY <1>1, <1>2, FS_Product
<1>4. IsFiniteSet(T) /\ Cardinality(T) \in Nat
    BY <1>3, FS_Subset, FS_CardinalityType
<1>5. Cardinality(Row) = MaxAccepted
  <2>1. IsFiniteSet({p}) /\ Cardinality({p}) = 1
    BY FS_Singleton
  <2>2. Cardinality(Row) = Cardinality({p}) * Cardinality(1..MaxAccepted)
    BY <1>2, <2>1, FS_Product
  <2>3. QED
    BY <1>1, <1>2, <2>1, <2>2
<1>6. SUFFICES ASSUME ~(counts[p] < MaxAccepted) PROVE FALSE
    OBVIOUS
<1>7. counts[p] = MaxAccepted
    BY <1>1, <1>6
<1>8. Row \subseteq T
    BY <1>1, <1>7
<1>9. Cardinality(Row) <= Cardinality(T)
  <2> HIDE DEF Row, T
  <2>1. QED
    BY <1>4, <1>8, FS_Subset
<1>10. Cardinality(T) = Total(counts)
    BY DEF Total
<1> HIDE DEF Row, T
<1>11. QED
    BY <1>1, <1>4, <1>5, <1>9, <1>10

-----------------------------------------------------------------------------
(* What the places of the annotations are. *)

Settled ==
    /\ consumer \in {"collect", "post"} => Unsettled = batch
    /\ consumer = "reject" => Unsettled = SubSeq(batch, next + 1, Len(batch))
    /\ consumer = "ack" => Unsettled = <<>>

LEMMA UnsettledIs == Settled
<1>1. consumer \in {"collect", "post"} => Unsettled = batch
    BY DEF Unsettled
<1>2. consumer = "reject" => Unsettled = SubSeq(batch, next + 1, Len(batch))
    BY DEF Unsettled
<1>3. consumer = "ack" => Unsettled = <<>>
    BY DEF Unsettled
<1>4. QED
    BY <1>1, <1>2, <1>3 DEF Settled

LEMMA CountNat == \A l \in Seq(Payload) : \A p : Count(l, p) \in Nat
<1>1. ASSUME NEW l \in Seq(Payload), NEW p PROVE Count(l, p) \in Nat
  <2>1. Count(l, p) \in 0..Len(l) /\ Len(l) \in Nat
    BY CountType, LenProperties
  <2>2. QED
    BY <2>1
<1>2. QED
    BY <1>1

UnsettledTyped == Unsettled \in Seq(Payload)

LEMMA UnsettledType ==
    ASSUME Lists, Going
    PROVE  UnsettledTyped
<1>1. CASE consumer \in {"collect", "post"}
    BY <1>1, UnsettledIs DEF Settled, Lists, UnsettledTyped
<1>2. CASE consumer = "ack"
    BY <1>2, UnsettledIs DEF Settled, Lists, UnsettledTyped
<1>3. CASE consumer = "reject"
  <2>1. Len(batch) \in Nat /\ next \in Nat /\ batch \in Seq(Payload)
        /\ \A j \in 1..Len(batch) : batch[j] \in Payload
    BY LenProperties, ElementOfSeq DEF Lists, Going
  <2>2. \A k \in (next + 1)..Len(batch) : batch[k] \in Payload
    BY <2>1
  <2>3. next + 1 \in Int /\ Len(batch) \in Int
    BY <2>1
  <2>4. SubSeq(batch, next + 1, Len(batch)) \in Seq(Payload)
    BY <2>2, <2>3, SubSeqProperties
  <2>5. QED
    BY <1>3, <2>4, UnsettledIs DEF Settled, UnsettledTyped
<1>4. QED
    BY <1>1, <1>2, <1>3 DEF Going

LEMMA PlacesType ==
    ASSUME Inv
    PROVE  \A p \in Payload :
             /\ Count(ready, p) \in Nat /\ Count(rejected, p) \in Nat
             /\ Count(deliveries, p) \in Nat /\ Count(Unsettled, p) \in Nat
             /\ Count(batch, p) \in Nat
             /\ Places(p) \in Nat
<1>1. UnsettledTyped
    BY UnsettledType DEF Inv
<1>2. /\ ready \in Seq(Payload) /\ rejected \in Seq(Payload)
      /\ deliveries \in Seq(Payload) /\ batch \in Seq(Payload)
    BY DEF Inv, Lists
<1>3. QED
    BY <1>1, <1>2, CountNat DEF Places, UnsettledTyped

LEMMA WaitingIs ==
    ASSUME Lists, Going
    PROVE  Waiting = [p \in Payload |-> Places(p)]
<1>1. UnsettledTyped
    BY UnsettledType
<1>2. \A p \in Payload :
        Count(ready \o rejected \o deliveries \o Unsettled, p) = Places(p)
    BY <1>1, CountFour DEF Lists, UnsettledTyped, Places
<1>3. QED
    BY <1>2 DEF Waiting

\* A step that moves annotations from one place to another.
Moves == UNCHANGED history /\ \A p \in Payload : Places(p)' = Places(p)

LEMMA MovesKeeps ==
    ASSUME Inv, Moves
    PROVE  Counts' /\ Kept' /\ Heard'
<1>1. accepted' = accepted /\ sent' = sent /\ dropped' = dropped /\ again' = again
    BY DEF Moves, history
<1>2. Counts' /\ Heard'
    BY <1>1 DEF Inv, Counts, Heard
<1>3. Kept'
    BY <1>1 DEF Inv, Kept, Moves
<1>4. QED
    BY <1>2, <1>3

-----------------------------------------------------------------------------
(* One lemma for each action. *)

LEMMA InitInv == Init => Inv
<1> SUFFICES ASSUME Init PROVE Inv
    OBVIOUS
<1> USE DEF Init
<1>0. <<>> \in Seq(Payload) /\ Len(<<>>) = 0
    OBVIOUS
<1>1. UnackedLimit \in Nat /\ MaxBatchSize \in Nat /\ MaxAccepted \in Nat
    BY QueueAssumption
<1>2. Lists
    BY <1>0, <1>1 DEF Lists
<1>3. Going
  <2>1. Len(batch) = 0 /\ Len(rejected) = 0 /\ 0 \in 0..0
    BY <1>0
  <2>2. tick \in BOOLEAN
    BY Zenon
  <2>3. /\ consumer \in {"collect", "post", "reject", "ack"} /\ redo \in {"first", "second", "redo"}
        /\ next = 0 /\ left = 0
    OBVIOUS
  <2>4. QED
    BY <2>1, <2>2, <2>3 DEF Going
<1>4. Counts
    BY <1>1 DEF Counts, Zero
<1>5. Unsettled = <<>>
    BY UnsettledIs DEF Settled
<1>6. \A p \in Payload : Places(p) = 0
    BY <1>5, CountEmpty DEF Places
<1>7. Kept
    BY <1>6 DEF Kept, Zero
<1>8. Heard
    BY DEF Heard, Zero
<1>9. QED
    BY <1>2, <1>3, <1>4, <1>7, <1>8 DEF Inv

Accepts(q) ==
    /\ \A p \in Payload : Places(p)' = Places(p) + One(q, p)
    /\ accepted' = [p \in Payload |-> accepted[p] + One(q, p)]
    /\ UNCHANGED <<sent, dropped, again>>

LEMMA AnnotateKeeps ==
    ASSUME Inv, NEW q \in Payload, Annotate(q)
    PROVE  Inv' /\ Accepts(q)
<1> USE DEF Annotate
<1>1. UNCHANGED <<unacked, rejected, deliveries, batch, next, consumer, redo, left, tick>>
      /\ sent' = sent /\ dropped' = dropped /\ again' = again /\ ready' = Cons(q, ready)
    BY DEF ticker
<1>2. Cons(q, ready) \in Seq(Payload)
      /\ \A p : Count(Cons(q, ready), p) = One(q, p) + Count(ready, p)
    BY CountCons DEF Inv, Lists
<1>3. Lists' /\ Going'
    BY <1>1, <1>2 DEF Inv, Lists, Going
<1>4. Unsettled' = Unsettled
    BY <1>1 DEF Unsettled
<1>5. \A p \in Payload : One(q, p) \in 0..1
    BY DEF One
<1>6. ASSUME NEW p \in Payload PROVE Places(p)' = Places(p) + One(q, p)
  <2>1. /\ Count(ready, p) \in Nat /\ Count(rejected, p) \in Nat
        /\ Count(deliveries, p) \in Nat /\ Count(Unsettled, p) \in Nat
    BY PlacesType
  <2>2. /\ Count(ready', p) = One(q, p) + Count(ready, p)
        /\ Count(rejected', p) = Count(rejected, p)
        /\ Count(deliveries', p) = Count(deliveries, p)
        /\ Count(Unsettled', p) = Count(Unsettled, p)
    BY <1>1, <1>2, <1>4
  <2>3. Places(p)' = Count(ready', p) + Count(rejected', p) + Count(deliveries', p)
                     + Count(Unsettled', p)
    BY DEF Places
  <2>4. QED
    BY <1>5, <2>1, <2>2, <2>3 DEF Places
<1>7. accepted' = [p \in Payload |-> accepted[p] + One(q, p)]
  <2>1. \A p : Count(<<q>>, p) = One(q, p)
    BY CountOne DEF One
  <2>2. QED
    BY <2>1 DEF Plus
<1>8. accepted' \in [Payload -> 0..MaxAccepted]
  <2>1. ASSUME NEW p \in Payload PROVE accepted[p] + One(q, p) \in 0..MaxAccepted
    <3>1. accepted \in [Payload -> 0..MaxAccepted] /\ MaxAccepted \in Nat
      BY QueueAssumption DEF Inv, Counts
    <3>2. accepted[q] < MaxAccepted
      BY <3>1, TotalBounds
    <3>3. QED
      BY <3>1, <3>2 DEF One
  <2>2. QED
    BY <1>7, <2>1
<1>9. Counts' /\ Heard'
    BY <1>1, <1>8 DEF Inv, Counts, Heard
<1>10. Kept'
  <2>1. ASSUME NEW p \in Payload
        PROVE  accepted'[p] + again'[p] = sent'[p] + dropped'[p] + Places(p)'
    <3>1. accepted[p] + again[p] = sent[p] + dropped[p] + Places(p) /\ again[p] \in Nat
          /\ accepted[p] \in 0..MaxAccepted /\ sent[p] \in Nat /\ dropped[p] \in Nat
          /\ Places(p) \in Nat /\ One(q, p) \in 0..1
      BY <1>5, PlacesType DEF Inv, Kept, Counts
    <3>2. accepted'[p] = accepted[p] + One(q, p) /\ Places(p)' = Places(p) + One(q, p)
      BY <1>6, <1>7
    <3>3. QED
      BY <1>1, <3>1, <3>2
  <2>2. QED
    BY <2>1 DEF Kept
<1>11. QED
    BY <1>1, <1>3, <1>6, <1>7, <1>9, <1>10 DEF Inv, Accepts

LEMMA FetchKeeps ==
    ASSUME Inv, Fetch
    PROVE  Inv' /\ Moves
<1> USE DEF Fetch
<1>1. /\ rejected' = rejected /\ batch' = batch /\ next' = next /\ consumer' = consumer
      /\ redo' = redo /\ left' = left /\ tick' = tick /\ UNCHANGED history
    BY DEF ticker
<1> DEFINE q == Last(ready)
<1>2. /\ ready' = Front(ready) /\ unacked' = Cons(q, unacked)
      /\ deliveries' = Append(deliveries, q) /\ Len(deliveries) < UnackedLimit
    BY DEF HasRoom
<1>3. /\ q \in Payload /\ Front(ready) \in Seq(Payload)
      /\ \A p : Count(ready, p) = Count(Front(ready), p) + One(q, p)
    BY CountLast DEF Inv, Lists
<1>4. Cons(q, unacked) \in Seq(Payload)
    BY <1>3, CountCons DEF Inv, Lists
<1> HIDE DEF q
<1>5. /\ Append(deliveries, q) \in Seq(Payload)
      /\ Len(Append(deliveries, q)) = Len(deliveries) + 1
      /\ \A p : Count(Append(deliveries, q), p) = Count(deliveries, p) + One(q, p)
    BY <1>3, CountAppend DEF Inv, Lists
<1>6. Len(deliveries') <= UnackedLimit
  <2>1. Len(deliveries) \in Nat /\ UnackedLimit \in Nat
    BY QueueAssumption, LenProperties DEF Inv, Lists
  <2>2. Len(deliveries') = Len(deliveries) + 1
    BY <1>2, <1>5
  <2>3. QED
    BY <1>2, <2>1, <2>2
<1>7. Lists'
    BY <1>1, <1>2, <1>3, <1>4, <1>5, <1>6 DEF Inv, Lists
<1>8. Going'
    BY <1>1 DEF Inv, Going
<1>9. Unsettled' = Unsettled
    BY <1>1 DEF Unsettled
<1>10. ASSUME NEW p \in Payload PROVE Places(p)' = Places(p)
  <2>1. /\ Count(ready, p) \in Nat /\ Count(rejected, p) \in Nat
        /\ Count(deliveries, p) \in Nat /\ Count(Unsettled, p) \in Nat
        /\ Count(ready', p) \in Nat /\ One(q, p) \in 0..1
    BY <1>7, PlacesType, CountNat DEF Lists, One
  <2>2. /\ Count(ready, p) = Count(ready', p) + One(q, p)
        /\ Count(rejected', p) = Count(rejected, p)
        /\ Count(deliveries', p) = Count(deliveries, p) + One(q, p)
        /\ Count(Unsettled', p) = Count(Unsettled, p)
    BY <1>1, <1>2, <1>3, <1>5, <1>9
  <2>3. Places(p)' = Count(ready', p) + Count(rejected', p) + Count(deliveries', p)
                     + Count(Unsettled', p)
    BY DEF Places
  <2>4. QED
    BY <2>1, <2>2, <2>3 DEF Places
<1>11. Moves
    BY <1>1, <1>10 DEF Moves
<1>12. QED
    BY <1>7, <1>8, <1>11, MovesKeeps DEF Inv

LEMMA CollectKeeps ==
    ASSUME Inv, Collect
    PROVE  Inv' /\ Moves
<1> USE DEF Collect
<1>1. /\ ready' = ready /\ unacked' = unacked /\ rejected' = rejected
      /\ next' = next /\ consumer' = consumer /\ consumer = "collect"
      /\ redo' = redo /\ left' = left /\ tick' = tick /\ UNCHANGED history
    BY DEF ticker, lists
<1> DEFINE q == Head(deliveries)
<1>2. /\ batch' = Append(batch, q) /\ deliveries' = Tail(deliveries)
      /\ Len(batch) < MaxBatchSize
    OBVIOUS
<1>3. /\ q \in Payload /\ Tail(deliveries) \in Seq(Payload)
      /\ Len(deliveries) = Len(Tail(deliveries)) + 1
      /\ \A p : Count(deliveries, p) = One(q, p) + Count(Tail(deliveries), p)
    BY CountHead DEF Inv, Lists
<1> HIDE DEF q
<1>4. /\ Append(batch, q) \in Seq(Payload) /\ Len(Append(batch, q)) = Len(batch) + 1
      /\ \A p : Count(Append(batch, q), p) = Count(batch, p) + One(q, p)
    BY <1>3, CountAppend DEF Inv, Lists
<1>5. /\ Len(deliveries) \in Nat /\ UnackedLimit \in Nat /\ Len(batch) \in Nat
      /\ MaxBatchSize \in Nat /\ Len(deliveries) <= UnackedLimit
      /\ Len(Tail(deliveries)) \in Nat
    BY <1>3, QueueAssumption, LenProperties DEF Inv, Lists
<1>6. Len(deliveries') <= UnackedLimit /\ Len(batch') <= MaxBatchSize /\ Len(batch') \in Nat
  <2>1. Len(batch') = Len(batch) + 1 /\ Len(deliveries) = Len(deliveries') + 1
        /\ Len(deliveries') \in Nat
    BY <1>2, <1>3, <1>4, <1>5
  <2>2. QED
    BY <1>2, <1>5, <2>1
<1>7. Lists'
    BY <1>1, <1>2, <1>3, <1>4, <1>6 DEF Inv, Lists
<1>8. Going'
  <2>1. next = 0 /\ 0 \in 0..Len(batch')
    BY <1>1, <1>6 DEF Inv, Going
  <2>2. QED
    BY <1>1, <2>1 DEF Inv, Going
<1>9. Unsettled = batch /\ Unsettled' = batch'
  <2>1. Unsettled = batch
    BY UnsettledIs DEF Settled
  <2>2. Unsettled' = batch'
    BY <1>1 DEF Unsettled
  <2>3. QED
    BY <2>1, <2>2
<1>10. ASSUME NEW p \in Payload PROVE Places(p)' = Places(p)
  <2>1. /\ Count(ready, p) \in Nat /\ Count(rejected, p) \in Nat
        /\ Count(deliveries, p) \in Nat /\ Count(Unsettled, p) \in Nat
        /\ Count(deliveries', p) \in Nat /\ One(q, p) \in 0..1
    <3>1. deliveries' \in Seq(Payload)
      BY <1>7 DEF Lists
    <3>2. Count(deliveries', p) \in Nat
      BY <3>1, CountNat, Zenon
    <3>3. One(q, p) \in 0..1
      BY DEF One
    <3>4. QED
      BY <3>2, <3>3, PlacesType
  <2>2. /\ Count(ready', p) = Count(ready, p)
        /\ Count(rejected', p) = Count(rejected, p)
        /\ Count(deliveries, p) = One(q, p) + Count(deliveries', p)
        /\ Count(Unsettled', p) = Count(Unsettled, p) + One(q, p)
    BY <1>1, <1>2, <1>3, <1>4, <1>9
  <2>3. Places(p)' = Count(ready', p) + Count(rejected', p) + Count(deliveries', p)
                     + Count(Unsettled', p)
    BY DEF Places
  <2>4. QED
    BY <2>1, <2>2, <2>3 DEF Places
<1>11. Moves
    BY <1>1, <1>10 DEF Moves
<1>12. QED
    BY <1>7, <1>8, <1>11, MovesKeeps DEF Inv

\* What happens to the batch when it is sent, or given up.
Leaves ==
    /\ batch # <<>>
    /\ UNCHANGED <<ready, rejected, deliveries>>
    /\ Unsettled = batch /\ Unsettled' = <<>>

LEMMA BatchLeaves ==
    ASSUME Inv, Leaves
    PROVE  \A p \in Payload : /\ Places(p) = Places(p)' + Count(batch, p)
                              /\ Count(batch, p) \in Nat /\ Places(p)' \in Nat
<1>1. ASSUME NEW p \in Payload
      PROVE  /\ Places(p) = Places(p)' + Count(batch, p)
             /\ Count(batch, p) \in Nat /\ Places(p)' \in Nat
  <2>1. /\ Count(ready, p) \in Nat /\ Count(rejected, p) \in Nat
        /\ Count(deliveries, p) \in Nat /\ Count(batch, p) \in Nat
    BY PlacesType
  <2>2. /\ Count(ready', p) = Count(ready, p)
        /\ Count(rejected', p) = Count(rejected, p)
        /\ Count(deliveries', p) = Count(deliveries, p)
        /\ Count(Unsettled', p) = 0 /\ Count(Unsettled, p) = Count(batch, p)
    BY CountEmpty DEF Leaves
  <2>3. Places(p)' = Count(ready', p) + Count(rejected', p) + Count(deliveries', p)
                     + Count(Unsettled', p)
    BY DEF Places
  <2>4. QED
    BY <2>1, <2>2, <2>3 DEF Places
<1>2. QED
    BY <1>1

Delivers == Leaves /\ sent' = Plus(sent, batch) /\ UNCHANGED <<accepted, dropped, again>>
GivesUp == Leaves /\ dropped' = Plus(dropped, batch) /\ UNCHANGED <<accepted, sent, again>> /\ MayLackKey

\* What happens to it when the answer is lost.
Stays ==
    /\ batch # <<>> /\ Unsettled = batch /\ \A p \in Payload : Places(p)' = Places(p)
    /\ UNCHANGED <<accepted, dropped>>
    /\ sent' = Plus(sent, batch) /\ again' = Plus(again, batch)

LEMMA PlusType ==
    ASSUME Inv, NEW counts \in [Payload -> Nat]
    PROVE  /\ Plus(counts, batch) \in [Payload -> Nat]
           /\ \A p \in Payload : Plus(counts, batch)[p] = counts[p] + Count(batch, p)
<1>1. \A p \in Payload : Count(batch, p) \in Nat
    BY PlacesType
<1>2. QED
    BY <1>1 DEF Plus

LEMMA DeliversKeeps ==
    ASSUME Inv, Delivers
    PROVE  Counts' /\ Kept' /\ Heard'
<1>1. sent \in [Payload -> Nat] /\ dropped \in [Payload -> Nat]
      /\ accepted' = accepted /\ dropped' = dropped /\ sent' = Plus(sent, batch)
      /\ again \in [Payload -> Nat] /\ again' = again /\ accepted \in [Payload -> 0..MaxAccepted]
    BY DEF Inv, Counts, Delivers
<1>2. sent' \in [Payload -> Nat] /\ \A p \in Payload : sent'[p] = sent[p] + Count(batch, p)
    BY <1>1, PlusType
<1>3. ASSUME NEW p \in Payload PROVE accepted'[p] + again'[p] = sent'[p] + dropped'[p] + Places(p)'
  <2>1. /\ Places(p) = Places(p)' + Count(batch, p)
        /\ Count(batch, p) \in Nat /\ Places(p)' \in Nat
    BY BatchLeaves DEF Delivers
  <2>2. accepted[p] + again[p] = sent[p] + dropped[p] + Places(p)
    BY DEF Inv, Kept
  <2>3. sent[p] \in Nat /\ dropped[p] \in Nat /\ sent'[p] = sent[p] + Count(batch, p)
    BY <1>1, <1>2
  <2>4. QED
    BY <1>1, <2>1, <2>2, <2>3
<1>4. Heard'
  <2>1. ASSUME NEW p \in Payload PROVE again'[p] <= sent'[p]
    <3>1. /\ again[p] <= sent[p] /\ again[p] \in Nat /\ sent[p] \in Nat
          /\ Count(batch, p) \in Nat
      BY <1>1, PlacesType DEF Inv, Heard
    <3>2. QED
      BY <1>1, <1>2, <3>1
  <2>2. QED
    BY <2>1 DEF Heard
<1>5. Counts' /\ Kept'
    BY <1>1, <1>2, <1>3 DEF Inv, Counts, Kept
<1>6. QED
    BY <1>4, <1>5

LEMMA GivesUpKeeps ==
    ASSUME Inv, GivesUp
    PROVE  Counts' /\ Kept' /\ Heard'
<1>1. sent \in [Payload -> Nat] /\ dropped \in [Payload -> Nat]
      /\ accepted' = accepted /\ sent' = sent /\ dropped' = Plus(dropped, batch)
      /\ again \in [Payload -> Nat] /\ again' = again /\ accepted \in [Payload -> 0..MaxAccepted]
    BY DEF Inv, Counts, GivesUp
<1>2. /\ dropped' \in [Payload -> Nat]
      /\ \A p \in Payload : dropped'[p] = dropped[p] + Count(batch, p)
    BY <1>1, PlusType
<1>3. ASSUME NEW p \in Payload PROVE accepted'[p] + again'[p] = sent'[p] + dropped'[p] + Places(p)'
  <2>1. /\ Places(p) = Places(p)' + Count(batch, p)
        /\ Count(batch, p) \in Nat /\ Places(p)' \in Nat
    BY BatchLeaves DEF GivesUp
  <2>2. accepted[p] + again[p] = sent[p] + dropped[p] + Places(p)
    BY DEF Inv, Kept
  <2>3. sent[p] \in Nat /\ dropped[p] \in Nat /\ dropped'[p] = dropped[p] + Count(batch, p)
    BY <1>1, <1>2
  <2>4. QED
    BY <1>1, <2>1, <2>2, <2>3
<1>4. QED
    BY <1>1, <1>2, <1>3 DEF Inv, Counts, Kept, Heard

LEMMA StaysKeeps ==
    ASSUME Inv, Stays
    PROVE  Counts' /\ Kept' /\ Heard'
<1>1. /\ sent \in [Payload -> Nat] /\ dropped \in [Payload -> Nat] /\ again \in [Payload -> Nat]
      /\ accepted \in [Payload -> 0..MaxAccepted]
      /\ accepted' = accepted /\ dropped' = dropped
      /\ sent' = Plus(sent, batch) /\ again' = Plus(again, batch)
    BY DEF Inv, Counts, Stays
<1>2. /\ sent' \in [Payload -> Nat] /\ again' \in [Payload -> Nat]
      /\ \A p \in Payload : /\ sent'[p] = sent[p] + Count(batch, p)
                            /\ again'[p] = again[p] + Count(batch, p)
    BY <1>1, PlusType
<1>3. ASSUME NEW p \in Payload
      PROVE  /\ accepted'[p] + again'[p] = sent'[p] + dropped'[p] + Places(p)'
             /\ again'[p] <= sent'[p]
  <2>1. Count(batch, p) \in Nat /\ Places(p) \in Nat /\ Places(p)' = Places(p)
    BY PlacesType DEF Stays
  <2>2. accepted[p] + again[p] = sent[p] + dropped[p] + Places(p) /\ again[p] <= sent[p]
    BY DEF Inv, Kept, Heard
  <2>3. /\ sent[p] \in Nat /\ dropped[p] \in Nat /\ again[p] \in Nat /\ accepted[p] \in Nat
        /\ sent'[p] = sent[p] + Count(batch, p) /\ again'[p] = again[p] + Count(batch, p)
    BY <1>1, <1>2
  <2>4. QED
    BY <1>1, <2>1, <2>2, <2>3
<1>4. QED
    BY <1>1, <1>2, <1>3 DEF Inv, Counts, Kept, Heard

LEMMA SendKeeps ==
    ASSUME Inv, Send
    PROVE  Inv' /\ Delivers
<1> USE DEF Send, Posting
<1>1. /\ UNCHANGED <<ready, unacked, rejected, deliveries, batch, next>>
      /\ consumer \in {"collect", "post"} /\ consumer' = "ack" /\ batch # <<>>
      /\ redo' = redo /\ left' = left /\ tick' = tick
    BY DEF ticker, lists
<1>2. Lists' /\ Going'
    BY <1>1 DEF Inv, Lists, Going
<1>3. Unsettled = batch /\ Unsettled' = <<>>
  <2>1. Unsettled = batch
    BY <1>1, UnsettledIs DEF Settled
  <2>2. Unsettled' = <<>>
    BY <1>1 DEF Unsettled
  <2>3. QED
    BY <2>1, <2>2
<1>4. Delivers
    BY <1>1, <1>3 DEF Leaves, Delivers
<1>5. QED
    BY <1>2, <1>4, DeliversKeeps DEF Inv

LEMMA ConsumeReturnsKeeps ==
    ASSUME Inv, ConsumeReturns
    PROVE  Inv' /\ GivesUp
<1> USE DEF ConsumeReturns
<1>1. /\ UNCHANGED <<ready, unacked, rejected, deliveries, next>>
      /\ consumer = "collect" /\ consumer' = "collect" /\ batch' = <<>>
      /\ redo' = redo /\ left' = left /\ tick' = tick
    BY DEF ticker, lists
<1>2. batch' \in Seq(Payload) /\ Len(batch') = 0 /\ MaxBatchSize \in Nat
    BY <1>1, QueueAssumption
<1>3. Lists'
    BY <1>1, <1>2 DEF Inv, Lists
<1>4. Going'
  <2>1. next = 0 /\ 0 \in 0..Len(batch')
    BY <1>1, <1>2 DEF Inv, Going
  <2>2. QED
    BY <1>1, <2>1 DEF Inv, Going
<1>5. Unsettled = batch /\ Unsettled' = <<>>
  <2>1. Unsettled = batch
    BY UnsettledIs DEF Settled
  <2>2. Unsettled' = <<>>
    BY <1>1 DEF Unsettled
  <2>3. QED
    BY <2>1, <2>2
<1>6. GivesUp
    BY <1>1, <1>5 DEF Leaves, GivesUp
<1>7. QED
    BY <1>3, <1>4, <1>6, GivesUpKeeps DEF Inv

LEMMA SendFailsKeeps ==
    ASSUME Inv, SendFails
    PROVE  Inv' /\ Moves
<1> USE DEF SendFails, Posting
<1>1. /\ UNCHANGED <<ready, unacked, rejected, deliveries, batch, next>>
      /\ consumer \in {"collect", "post"} /\ consumer' = "reject"
      /\ redo' = redo /\ left' = left /\ tick' = tick /\ UNCHANGED history
    BY DEF ticker, lists
<1>2. Lists' /\ Going'
    BY <1>1 DEF Inv, Lists, Going
<1>3. Unsettled' = Unsettled
  <2>1. Unsettled = batch
    BY <1>1, UnsettledIs DEF Settled
  <2>2. Unsettled' = SubSeq(batch', next' + 1, Len(batch'))
    BY <1>1 DEF Unsettled
  <2>3. next' = 0 /\ batch' = batch /\ batch \in Seq(Payload)
    BY <1>1 DEF Inv, Lists, Going
  <2>4. SubSeq(batch, 1, Len(batch)) = batch
    BY <2>3, SubSeqFull, Zenon
  <2>5. QED
    BY <2>1, <2>2, <2>3, <2>4
<1>4. \A p \in Payload : Places(p)' = Places(p)
    BY <1>1, <1>3 DEF Places
<1>5. Moves
    BY <1>1, <1>4 DEF Moves
<1>6. QED
    BY <1>2, <1>5, MovesKeeps DEF Inv

LEMMA SendUnansweredKeeps ==
    ASSUME Inv, SendUnanswered
    PROVE  Inv' /\ Stays
<1> USE DEF SendUnanswered, Posting
<1>1. /\ UNCHANGED <<ready, unacked, rejected, deliveries, batch, next>> /\ batch # <<>>
      /\ consumer \in {"collect", "post"} /\ consumer' \in {"post", "reject"}
      /\ redo' = redo /\ left' = left /\ tick' = tick
      /\ accepted' = accepted /\ dropped' = dropped
      /\ sent' = Plus(sent, batch) /\ again' = Plus(again, batch)
    BY DEF ticker, lists
<1>2. Lists' /\ Going'
    BY <1>1 DEF Inv, Lists, Going
<1>3. Unsettled = batch
    BY <1>1, UnsettledIs DEF Settled
<1>4. Unsettled' = batch
  <2>1. next' = 0 /\ batch' = batch /\ batch \in Seq(Payload)
    BY <1>1 DEF Inv, Lists, Going
  <2>2. SubSeq(batch, 1, Len(batch)) = batch
    BY <2>1, SubSeqFull, Zenon
  <2>3. Settled'
    BY UnsettledIs, PTL
  <2>4. CASE consumer' = "post"
    BY <2>1, <2>3, <2>4 DEF Settled
  <2>5. CASE consumer' = "reject"
    BY <2>1, <2>2, <2>3, <2>5 DEF Settled
  <2>6. QED
    BY <1>1, <2>4, <2>5
<1>5. \A p \in Payload : Places(p)' = Places(p)
    BY <1>1, <1>3, <1>4 DEF Places
<1>6. Stays
    BY <1>1, <1>3, <1>5 DEF Stays
<1>7. QED
    BY <1>2, <1>6, StaysKeeps DEF Inv

LEMMA RejectKeeps ==
    ASSUME Inv, Reject
    PROVE  Inv' /\ Moves
<1> USE DEF Reject
<1> DEFINE q == batch[next + 1]
<1>1. /\ ready' = ready /\ deliveries' = deliveries /\ batch' = batch
      /\ next' = next + 1 /\ next < Len(batch)
      /\ consumer' = consumer /\ consumer = "reject"
      /\ redo' = redo /\ left' = left /\ tick' = tick /\ UNCHANGED history
    BY DEF ticker
<1>2. rejected' = Cons(q, rejected) /\ unacked' = RemoveFirst(unacked, q)
    BY DEF Rejected
<1>3. /\ Len(batch) \in Nat /\ next \in 0..(Len(batch) - 1)
      /\ Len(rejected) \in Nat /\ left \in 0..Len(rejected)
    BY <1>1, LenProperties DEF Inv, Lists, Going
<1>4. /\ q \in Payload
      /\ \A p : Count(SubSeq(batch, next + 1, Len(batch)), p)
                = One(q, p) + Count(SubSeq(batch, (next + 1) + 1, Len(batch)), p)
    BY <1>3, CountRest DEF Inv, Lists
<1> HIDE DEF q
<1>5. /\ Cons(q, rejected) \in Seq(Payload) /\ Len(Cons(q, rejected)) = Len(rejected) + 1
      /\ \A p : Count(Cons(q, rejected), p) = One(q, p) + Count(rejected, p)
    BY <1>4, CountCons DEF Inv, Lists
<1>6. RemoveFirst(unacked, q) \in Seq(Payload)
    BY RemoveFirstType DEF Inv, Lists
<1>7. Lists'
    BY <1>1, <1>2, <1>5, <1>6 DEF Inv, Lists
<1>8. Going'
  <2>1. next' \in 0..Len(batch')
    BY <1>1, <1>3
  <2>2. left' \in 0..Len(rejected')
    BY <1>1, <1>2, <1>3, <1>5
  <2>3. QED
    BY <1>1, <2>1, <2>2 DEF Inv, Going
<1>9. /\ Unsettled = SubSeq(batch, next + 1, Len(batch))
      /\ Unsettled' = SubSeq(batch, (next + 1) + 1, Len(batch))
  <2>1. Unsettled = SubSeq(batch, next + 1, Len(batch))
    BY <1>1, UnsettledIs DEF Settled
  <2>2. Unsettled' = SubSeq(batch', next' + 1, Len(batch'))
    BY <1>1 DEF Unsettled
  <2>3. QED
    BY <1>1, <2>1, <2>2
<1>10. ASSUME NEW p \in Payload PROVE Places(p)' = Places(p)
  <2>1. /\ Count(ready, p) \in Nat /\ Count(rejected, p) \in Nat
        /\ Count(deliveries, p) \in Nat
    BY PlacesType
  <2>2. One(q, p) \in 0..1
    BY DEF One
  <2>3. Count(Unsettled', p) \in Nat
    <3>1. UnsettledTyped'
      BY <1>7, <1>8, UnsettledType, PTL
    <3>2. QED
      BY <3>1, CountNat DEF UnsettledTyped
  <2>4. /\ Count(ready', p) = Count(ready, p)
        /\ Count(rejected', p) = One(q, p) + Count(rejected, p)
        /\ Count(deliveries', p) = Count(deliveries, p)
        /\ Count(Unsettled, p) = One(q, p) + Count(Unsettled', p)
    BY <1>1, <1>2, <1>4, <1>5, <1>9
  <2>5. Places(p)' = Count(ready', p) + Count(rejected', p) + Count(deliveries', p)
                     + Count(Unsettled', p)
    BY DEF Places
  <2>6. QED
    BY <2>1, <2>2, <2>3, <2>4, <2>5 DEF Places
<1>11. Moves
    BY <1>1, <1>10 DEF Moves
<1>12. QED
    BY <1>7, <1>8, <1>11, MovesKeeps DEF Inv

LEMMA RejectsDoneKeeps ==
    ASSUME Inv, RejectsDone
    PROVE  Inv' /\ Moves
<1> USE DEF RejectsDone
<1>1. /\ UNCHANGED <<ready, unacked, rejected, deliveries, batch>>
      /\ consumer = "reject" /\ consumer' = "ack" /\ next = Len(batch) /\ next' = 0
      /\ redo' = redo /\ left' = left /\ tick' = tick /\ UNCHANGED history
    BY DEF ticker, lists
<1>2. Len(batch) \in Nat
    BY LenProperties DEF Inv, Lists
<1>3. Lists' /\ Going'
    BY <1>1, <1>2 DEF Inv, Lists, Going
<1>4. Unsettled' = Unsettled
  <2>1. Unsettled = SubSeq(batch, next + 1, Len(batch))
    BY <1>1, UnsettledIs DEF Settled
  <2>2. Unsettled' = <<>>
    BY <1>1 DEF Unsettled
  <2>3. next + 1 \in Int /\ Len(batch) \in Int /\ Len(batch) < next + 1
    BY <1>1, <1>2
  <2>4. SubSeq(batch, next + 1, Len(batch)) = <<>>
    BY <2>3, SubSeqEmpty
  <2>5. QED
    BY <2>1, <2>2, <2>4
<1>5. \A p \in Payload : Places(p)' = Places(p)
    BY <1>1, <1>4 DEF Places
<1>6. Moves
    BY <1>1, <1>5 DEF Moves
<1>7. QED
    BY <1>3, <1>6, MovesKeeps DEF Inv

LEMMA AckKeeps ==
    ASSUME Inv, Ack
    PROVE  Inv' /\ Moves
<1> USE DEF Ack
<1>1. /\ UNCHANGED <<ready, rejected, deliveries, batch, consumer>>
      /\ next' = next + 1 /\ next < Len(batch) /\ consumer = "ack"
      /\ unacked' = RemoveFirst(unacked, batch[next + 1])
      /\ redo' = redo /\ left' = left /\ tick' = tick /\ UNCHANGED history
    BY DEF ticker
<1>2. Len(batch) \in Nat /\ next \in Nat
    BY LenProperties DEF Inv, Lists, Going
<1>3. RemoveFirst(unacked, batch[next + 1]) \in Seq(Payload)
    BY RemoveFirstType DEF Inv, Lists
<1>4. Lists'
    BY <1>1, <1>3 DEF Inv, Lists
<1>5. Going'
    BY <1>1, <1>2 DEF Inv, Going
<1>6. Unsettled' = Unsettled
  <2>1. Unsettled = <<>>
    BY <1>1, UnsettledIs DEF Settled
  <2>2. Unsettled' = <<>>
    BY <1>1 DEF Unsettled
  <2>3. QED
    BY <2>1, <2>2
<1>7. \A p \in Payload : Places(p)' = Places(p)
    BY <1>1, <1>6 DEF Places
<1>8. Moves
    BY <1>1, <1>7 DEF Moves
<1>9. QED
    BY <1>4, <1>5, <1>8, MovesKeeps DEF Inv

LEMMA AcksDoneKeeps ==
    ASSUME Inv, AcksDone
    PROVE  Inv' /\ Moves
<1> USE DEF AcksDone
<1>1. /\ UNCHANGED <<ready, unacked, rejected, deliveries>>
      /\ consumer = "ack" /\ consumer' = "collect" /\ next' = 0 /\ batch' = <<>>
      /\ redo' = redo /\ left' = left /\ tick' = tick /\ UNCHANGED history
    BY DEF ticker, lists
<1>2. batch' \in Seq(Payload) /\ Len(batch') = 0 /\ MaxBatchSize \in Nat /\ 0 \in 0..0
    BY <1>1, QueueAssumption
<1>3. Lists'
    BY <1>1, <1>2 DEF Inv, Lists
<1>4. Going'
    BY <1>1, <1>2 DEF Inv, Going
<1>5. Unsettled' = Unsettled
  <2>1. Unsettled = <<>>
    BY <1>1, UnsettledIs DEF Settled
  <2>2. Unsettled' = <<>>
    BY <1>1 DEF Unsettled
  <2>3. QED
    BY <2>1, <2>2
<1>6. \A p \in Payload : Places(p)' = Places(p)
    BY <1>1, <1>5 DEF Places
<1>7. Moves
    BY <1>1, <1>6 DEF Moves
<1>8. QED
    BY <1>3, <1>4, <1>7, MovesKeeps DEF Inv

\* The ticker and its loop move nothing, except when they return an annotation.
LEMMA TickerKeeps ==
    ASSUME Inv, Tick \/ ReceiveFirst \/ ReceiveSecond \/ RedoDone
    PROVE  Inv' /\ Moves
<1>1. /\ UNCHANGED <<ready, unacked, rejected, deliveries, batch, next, consumer>>
      /\ UNCHANGED history
    BY DEF Tick, ReceiveFirst, ReceiveSecond, RedoDone, lists
<1>2. Lists'
    BY <1>1 DEF Inv, Lists
<1>3. Len(rejected) \in Nat /\ left \in 0..Len(rejected) /\ (redo # "redo" => left = 0)
    BY LenProperties DEF Inv, Lists, Going
<1>4. tick' \in BOOLEAN
  <2>1. tick \in BOOLEAN
    BY DEF Inv, Going
  <2>2. QED
    BY <2>1, Zenon DEF Tick, ReceiveFirst, ReceiveSecond, RedoDone
<1>5. /\ left' \in 0..Len(rejected) /\ (redo' # "redo" => left' = 0)
      /\ redo' \in {"first", "second", "redo"}
  <2>1. redo \in {"first", "second", "redo"}
    BY DEF Inv, Going
  <2>2. CASE Tick
    BY <1>3, <2>1, <2>2 DEF Tick
  <2>3. CASE ReceiveFirst
    BY <1>3, <2>3 DEF ReceiveFirst
  <2>4. CASE ReceiveSecond
    BY <1>3, <2>4 DEF ReceiveSecond, AllRejected
  <2>5. CASE RedoDone
    BY <1>3, <2>5 DEF RedoDone
  <2>6. QED
    BY <2>2, <2>3, <2>4, <2>5
<1>6. Going'
    BY <1>1, <1>4, <1>5 DEF Inv, Going
<1>7. Unsettled' = Unsettled
    BY <1>1 DEF Unsettled
<1>8. \A p \in Payload : Places(p)' = Places(p)
    BY <1>1, <1>7 DEF Places
<1>9. Moves
    BY <1>1, <1>8 DEF Moves
<1>10. QED
    BY <1>2, <1>6, <1>9, MovesKeeps DEF Inv

LEMMA ReturnRejectedKeeps ==
    ASSUME Inv, ReturnRejected
    PROVE  Inv' /\ Moves
<1> USE DEF ReturnRejected
<1> DEFINE q == Last(rejected)
<1>1. /\ UNCHANGED <<unacked, deliveries, batch, next, consumer, tick>>
      /\ redo = "redo" /\ redo' = redo /\ left > 0 /\ left' = left - 1 /\ UNCHANGED history
      /\ ready' = Cons(q, ready) /\ rejected' = Front(rejected)
    OBVIOUS
<1>2. Len(rejected) \in Nat /\ left \in 0..Len(rejected)
    BY LenProperties DEF Inv, Lists, Going
<1>3. rejected # <<>>
    BY <1>1, <1>2
<1>4. /\ q \in Payload /\ Front(rejected) \in Seq(Payload)
      /\ Len(rejected) = Len(Front(rejected)) + 1
      /\ \A p : Count(rejected, p) = Count(Front(rejected), p) + One(q, p)
    BY <1>3, CountLast DEF Inv, Lists
<1> HIDE DEF q
<1>5. /\ Cons(q, ready) \in Seq(Payload)
      /\ \A p : Count(Cons(q, ready), p) = One(q, p) + Count(ready, p)
    BY <1>4, CountCons DEF Inv, Lists
<1>6. Lists'
    BY <1>1, <1>4, <1>5 DEF Inv, Lists
<1>7. Going'
  <2>1. Len(rejected') \in Nat /\ Len(rejected) = Len(rejected') + 1
    BY <1>1, <1>4, LenProperties
  <2>2. left' \in 0..Len(rejected')
    BY <1>1, <1>2, <2>1
  <2>3. QED
    BY <1>1, <2>2 DEF Inv, Going
<1>8. Unsettled' = Unsettled
    BY <1>1 DEF Unsettled
<1>9. ASSUME NEW p \in Payload PROVE Places(p)' = Places(p)
  <2>1. /\ Count(ready, p) \in Nat /\ Count(rejected, p) \in Nat
        /\ Count(deliveries, p) \in Nat /\ Count(Unsettled, p) \in Nat
    BY PlacesType
  <2>2. Count(rejected', p) \in Nat
    <3>1. rejected' \in Seq(Payload)
      BY <1>6 DEF Lists
    <3>2. QED
      BY <3>1, CountNat, Zenon
  <2>3. One(q, p) \in 0..1
    BY DEF One
  <2>4. /\ Count(ready', p) = One(q, p) + Count(ready, p)
        /\ Count(rejected, p) = Count(rejected', p) + One(q, p)
        /\ Count(deliveries', p) = Count(deliveries, p)
        /\ Count(Unsettled', p) = Count(Unsettled, p)
    BY <1>1, <1>4, <1>5, <1>8
  <2>5. Places(p)' = Count(ready', p) + Count(rejected', p) + Count(deliveries', p)
                     + Count(Unsettled', p)
    BY DEF Places
  <2>6. QED
    BY <2>1, <2>2, <2>3, <2>4, <2>5 DEF Places
<1>10. Moves
    BY <1>1, <1>9 DEF Moves
<1>11. QED
    BY <1>6, <1>7, <1>10, MovesKeeps DEF Inv

LEMMA StutterKeeps ==
    ASSUME Inv, UNCHANGED vars
    PROVE  Inv' /\ Moves
<1>1. /\ UNCHANGED <<ready, unacked, rejected, deliveries, batch, next, consumer>>
      /\ redo' = redo /\ left' = left /\ tick' = tick /\ UNCHANGED history
    BY DEF vars, lists, ticker
<1>2. Lists' /\ Going'
    BY <1>1 DEF Inv, Lists, Going
<1>3. Unsettled' = Unsettled
    BY <1>1 DEF Unsettled
<1>4. \A p \in Payload : Places(p)' = Places(p)
    BY <1>1, <1>3 DEF Places
<1>5. Moves
    BY <1>1, <1>4 DEF Moves
<1>6. QED
    BY <1>2, <1>5, MovesKeeps DEF Inv

\* Every step moves annotations, accepts one, delivers a batch, delivers it
\* without an answer or gives it up.
LEMMA NextInv ==
    ASSUME Inv, [Next]_vars
    PROVE  Inv' /\ (Moves \/ (\E q \in Payload : Accepts(q)) \/ Delivers \/ Stays \/ GivesUp)
<1>1. CASE \E q \in Payload : Annotate(q)
    BY <1>1, AnnotateKeeps
<1>2. CASE Fetch
    BY <1>2, FetchKeeps
<1>3. CASE Collect
    BY <1>3, CollectKeeps
<1>4. CASE Consumer
  <2>1. CASE ConsumeReturns
      BY <2>1, ConsumeReturnsKeeps
  <2>2. CASE Send
      BY <2>2, SendKeeps
  <2>3. CASE SendFails
      BY <2>3, SendFailsKeeps
  <2>4. CASE Reject
      BY <2>4, RejectKeeps
  <2>5. CASE RejectsDone
      BY <2>5, RejectsDoneKeeps
  <2>6. CASE Ack
      BY <2>6, AckKeeps
  <2>7. CASE AcksDone
      BY <2>7, AcksDoneKeeps
  <2>8. CASE SendUnanswered
      BY <2>8, SendUnansweredKeeps
  <2>9. QED
      BY <1>4, <2>1, <2>2, <2>3, <2>4, <2>5, <2>6, <2>7, <2>8 DEF Consumer
<1>5. CASE Tick
    BY <1>5, TickerKeeps
<1>6. CASE Redo
  <2>1. CASE ReturnRejected
    BY <2>1, ReturnRejectedKeeps
  <2>2. CASE ReceiveFirst \/ ReceiveSecond \/ RedoDone
    BY <2>2, TickerKeeps
  <2>3. QED
    BY <1>6, <2>1, <2>2 DEF Redo
<1>7. CASE UNCHANGED vars
    BY <1>7, StutterKeeps
<1>8. QED
    BY <1>1, <1>2, <1>3, <1>4, <1>5, <1>6, <1>7 DEF Next

-----------------------------------------------------------------------------
\* The lists hold annotations, the channel and the batch stay within their
\* capacities, what the ticker has to return is there, and no annotation is
\* given up more often than it was accepted.
THEOREM TypeCorrect == Spec => []TypeOK
<1>1. Inv => TypeOK
  <2> SUFFICES ASSUME Inv PROVE TypeOK
    OBVIOUS
  <2>1. ASSUME NEW p \in Payload PROVE dropped[p] \in 0..MaxAccepted
    <3>1. accepted[p] + again[p] = sent[p] + dropped[p] + Places(p) /\ again[p] <= sent[p]
      BY DEF Inv, Kept, Heard
    <3>2. /\ accepted[p] \in 0..MaxAccepted /\ sent[p] \in Nat /\ dropped[p] \in Nat
          /\ again[p] \in Nat /\ Places(p) \in Nat /\ MaxAccepted \in Nat
      BY PlacesType, QueueAssumption DEF Inv, Counts
    <3>3. QED
      BY <3>1, <3>2
  <2>2. dropped \in [Payload -> 0..MaxAccepted]
    BY <2>1 DEF Inv, Counts
  <2>3. /\ {accepted, dropped} \subseteq [Payload -> 0..MaxAccepted]
        /\ {sent, again} \subseteq [Payload -> Nat]
    BY <2>2 DEF Inv, Counts
  <2>4. {ready, unacked, rejected, deliveries, batch} \subseteq Seq(Payload)
    BY DEF Inv, Lists
  <2>5. QED
    BY <2>3, <2>4 DEF Inv, Lists, Going, TypeOK
<1>2. Inv /\ [Next]_vars => Inv'
    BY NextInv
<1>3. QED
    BY <1>1, <1>2, InitInv, PTL DEF Spec

\* An accepted annotation is in exactly one place until the cloud has taken it
\* with an answer or it is given up: rejecting and then acknowledging one batch,
\* while equal annotations are fetched and others returned, loses none, and the
\* cloud has one more than once as often as its answer was lost, no oftener.
THEOREM ConservedCorrect == Spec => []Conserved
<1>1. Inv => Conserved
  <2> SUFFICES ASSUME Inv, NEW p \in Payload
               PROVE  accepted[p] + again[p] = sent[p] + dropped[p]
                        + Count(ready \o rejected \o deliveries \o Unsettled, p)
    BY DEF Conserved
  <2>1. UnsettledTyped
    BY UnsettledType DEF Inv
  <2>2. Count(ready \o rejected \o deliveries \o Unsettled, p) = Places(p)
    BY <2>1, CountFour DEF Inv, Lists, UnsettledTyped, Places
  <2>3. QED
    BY <2>2 DEF Inv, Kept
<1>2. Inv /\ [Next]_vars => Inv'
    BY NextInv
<1>3. QED
    BY <1>1, <1>2, InitInv, PTL DEF Spec

-----------------------------------------------------------------------------
(* Every step is one of the outbox, or a stutter. *)

WaitingOf == Waiting = [p \in Payload |-> Places(p)]

LEMMA WaitingFollows == Inv => WaitingOf
    BY WaitingIs DEF Inv, WaitingOf

LEMMA AcceptsIsAccept ==
    ASSUME Inv, Inv', NEW q \in Payload, Accepts(q)
    PROVE  Promise!Accept(q)
<1>1. Waiting = [p \in Payload |-> Places(p)] /\ Waiting' = [p \in Payload |-> Places(p)']
  <2>1. WaitingOf /\ WaitingOf'
    BY WaitingFollows, PTL
  <2>2. QED
    BY <2>1 DEF WaitingOf
<1>2. accepted' = [accepted EXCEPT ![q] = accepted[q] + 1]
  <2>1. accepted \in [Payload -> 0..MaxAccepted] /\ MaxAccepted \in Nat
    BY QueueAssumption DEF Inv, Counts
  <2>2. accepted' = [p \in Payload |-> accepted[p] + One(q, p)]
    BY DEF Accepts
  <2>3. \A p \in Payload : accepted[p] + One(q, p) = IF p = q THEN accepted[q] + 1 ELSE accepted[p]
    BY <2>1 DEF One
  <2>4. QED
    BY <2>1, <2>2, <2>3
<1>3. Waiting' = [Waiting EXCEPT ![q] = Waiting[q] + 1]
  <2> DEFINE f == [p \in Payload |-> Places(p)]
  <2>1. \A p \in Payload : Places(p) \in Nat /\ Places(p)' = Places(p) + One(q, p)
    BY PlacesType DEF Accepts
  <2>2. [p \in Payload |-> Places(p)'] = [p \in Payload |-> IF p = q THEN Places(p) + 1 ELSE Places(p)]
    BY <2>1 DEF One
  <2>3. QED
    BY <1>1, <2>2
<1>4. QED
    BY <1>2, <1>3 DEF Promise!Accept, Accepts

\* What a batch holds is a batch of the outbox.
LEMMA BatchCounts ==
    ASSUME Inv, batch # <<>>
    PROVE  /\ [p \in Payload |-> Count(batch, p)] \in Promise!Batch
           /\ [p \in Payload |-> Count(batch, p)] # Promise!None
<1> DEFINE b == [p \in Payload |-> Count(batch, p)]
<1>1. batch \in Seq(Payload) /\ batch # <<>> /\ Len(batch) <= MaxBatchSize
      /\ Len(batch) \in Nat /\ MaxBatchSize \in Nat
    BY QueueAssumption, LenProperties DEF Inv, Lists
<1>2. b \in Promise!Batch
  <2>1. ASSUME NEW p \in Payload PROVE Count(batch, p) \in 0..MaxBatchSize
    <3>1. Count(batch, p) \in 0..Len(batch)
      BY <1>1, CountType
    <3>2. QED
      BY <1>1, <3>1
  <2>2. QED
    BY <2>1 DEF Promise!Batch
<1>3. b # Promise!None
  <2> DEFINE q == Head(batch)
  <2>1. q \in Payload /\ Tail(batch) \in Seq(Payload)
        /\ Count(batch, q) = One(q, q) + Count(Tail(batch), q)
    BY <1>1, CountHead
  <2> HIDE DEF q
  <2>2. Count(Tail(batch), q) \in Nat /\ One(q, q) = 1
    BY <2>1, CountNat DEF One
  <2>3. b[q] # 0
    BY <2>1, <2>2
  <2>4. Promise!None[q] = 0
    BY <2>1 DEF Promise!None
  <2>5. QED
    BY <2>3, <2>4
<1>4. QED
    BY <1>2, <1>3

LEMMA BatchIsBatch ==
    ASSUME Inv, Leaves, WaitingOf'
    PROVE  \E b \in Promise!Batch :
             /\ b = [p \in Payload |-> Count(batch, p)]
             /\ b # Promise!None /\ Promise!Waits(b)
             /\ Waiting' = Promise!Fewer(Waiting, b)
<1> DEFINE b == [p \in Payload |-> Count(batch, p)]
<1>1. Waiting = [p \in Payload |-> Places(p)] /\ Waiting' = [p \in Payload |-> Places(p)']
  <2>1. WaitingOf
    BY WaitingFollows
  <2>2. QED
    BY <2>1 DEF WaitingOf
<1>3. b \in Promise!Batch /\ b # Promise!None
    BY BatchCounts DEF Leaves
<1>5. \A p \in Payload : /\ Places(p) = Places(p)' + Count(batch, p)
                         /\ Count(batch, p) \in Nat /\ Places(p)' \in Nat
    BY BatchLeaves
<1>6. Promise!Waits(b)
    BY <1>1, <1>5 DEF Promise!Waits
<1>7. Waiting' = Promise!Fewer(Waiting, b)
  <2>1. \A p \in Payload : Places(p)' = Places(p) - Count(batch, p)
    BY <1>5
  <2>2. QED
    BY <1>1, <2>1 DEF Promise!Fewer
<1>8. QED
    BY <1>3, <1>6, <1>7

LEMMA DeliversIsDeliver ==
    ASSUME Inv, Inv', Delivers
    PROVE  Promise!Deliver
<1>1. WaitingOf'
    BY WaitingFollows, PTL
<1>2. PICK b \in Promise!Batch :
        /\ b = [p \in Payload |-> Count(batch, p)]
        /\ b # Promise!None /\ Promise!Waits(b)
        /\ Waiting' = Promise!Fewer(Waiting, b)
    BY <1>1, BatchIsBatch DEF Delivers
<1>3. sent' = Promise!More(sent, b)
    BY <1>2 DEF Promise!More, Plus, Delivers
<1>4. QED
    BY <1>2, <1>3 DEF Promise!Deliver, Delivers

LEMMA StaysIsDeliverUnheard ==
    ASSUME Inv, Inv', Stays
    PROVE  Promise!DeliverUnheard
<1> DEFINE b == [p \in Payload |-> Count(batch, p)]
<1>1. WaitingOf /\ WaitingOf'
    BY WaitingFollows, PTL
<1>2. Waiting' = Waiting
    BY <1>1 DEF WaitingOf, Stays
<1>3. b \in Promise!Batch /\ b # Promise!None
    BY BatchCounts DEF Stays
<1>4. Promise!Waits(b)
  <2>1. ASSUME NEW p \in Payload PROVE Count(batch, p) <= Places(p)
    <3>1. /\ Count(ready, p) \in Nat /\ Count(rejected, p) \in Nat
          /\ Count(deliveries, p) \in Nat /\ Count(batch, p) \in Nat
          /\ Count(Unsettled, p) = Count(batch, p)
      BY PlacesType DEF Stays
    <3>2. QED
      BY <3>1 DEF Places
  <2>2. QED
    BY <1>1, <2>1 DEF WaitingOf, Promise!Waits
<1>5. sent' = Promise!More(sent, b)
    BY DEF Promise!More, Plus, Stays
<1>6. QED
    BY <1>2, <1>3, <1>4, <1>5 DEF Promise!DeliverUnheard, Stays

LEMMA GivesUpIsGiveUp ==
    ASSUME Inv, Inv', GivesUp
    PROVE  Promise!GiveUp
<1>1. WaitingOf'
    BY WaitingFollows, PTL
<1>2. PICK b \in Promise!Batch :
        /\ b = [p \in Payload |-> Count(batch, p)]
        /\ b # Promise!None /\ Promise!Waits(b)
        /\ Waiting' = Promise!Fewer(Waiting, b)
    BY <1>1, BatchIsBatch DEF GivesUp
<1>3. dropped' = Promise!More(dropped, b)
    BY <1>2 DEF Promise!More, Plus, GivesUp
<1>4. QED
    BY <1>2, <1>3 DEF Promise!GiveUp, GivesUp

LEMMA MovesIsStutter ==
    ASSUME Inv, Inv', Moves
    PROVE  UNCHANGED Promise!vars
<1>1. WaitingOf /\ WaitingOf'
    BY WaitingFollows, PTL
<1>2. Waiting' = Waiting
    BY <1>1 DEF WaitingOf, Moves
<1>3. QED
    BY <1>2 DEF Promise!vars, Moves, history

LEMMA InitIsInit == Init => Promise!Init
<1> SUFFICES ASSUME Init PROVE Promise!Init
    OBVIOUS
<1>1. WaitingOf
    BY InitInv, WaitingFollows
<1>2. Unsettled = <<>>
    BY UnsettledIs DEF Settled, Init
<1>3. \A p \in Payload : Places(p) = 0
    BY <1>2, CountEmpty DEF Places, Init
<1>4. Waiting = Promise!None
    BY <1>1, <1>3 DEF WaitingOf, Promise!None
<1>5. QED
    BY <1>4 DEF Init, Zero, Promise!Init, Promise!None

\* To its clients the queue is an outbox: whatever rmq, the consumer and the
\* ticker do is accepting an annotation, delivering a batch of those that wait,
\* with or without being heard, giving it up, or nothing.
THEOREM ActsAsOutbox == Spec => Promise!Safety
<1>1. Inv /\ [Next]_vars => Inv' /\ [Promise!Next]_(Promise!vars)
  <2> SUFFICES ASSUME Inv, [Next]_vars PROVE Inv' /\ [Promise!Next]_(Promise!vars)
    OBVIOUS
  <2>1. Inv'
    BY NextInv
  <2>2. CASE Moves
    BY <2>1, <2>2, MovesIsStutter
  <2>3. CASE \E q \in Payload : Accepts(q)
    BY <2>1, <2>3, AcceptsIsAccept DEF Promise!Next
  <2>4. CASE Delivers
    BY <2>1, <2>4, DeliversIsDeliver DEF Promise!Next
  <2>5. CASE GivesUp
    BY <2>1, <2>5, GivesUpIsGiveUp DEF Promise!Next
  <2>6. CASE Stays
    BY <2>1, <2>6, StaysIsDeliverUnheard DEF Promise!Next
  <2>7. QED
    BY <2>1, <2>2, <2>3, <2>4, <2>5, <2>6, NextInv
<1>2. QED
    BY <1>1, InitInv, InitIsInit, PTL DEF Spec, Promise!Safety
=============================================================================
