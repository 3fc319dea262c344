---------------------------- MODULE LedgerProofs ----------------------------
(***************************************************************************)
(* Theorems about Ledger, for every set of ids, batches, peer logs and     *)
(* limits, every outcome of the copies and every eviction.  The lemmas     *)
(* come first: for any thresholds, rows and failures, what a push, a seal, *)
(* a split and the eviction loop do to the rows that are stored and to the *)
(* bytes that are counted.                                                 *)
(***************************************************************************)
EXTENDS Ledger, TopologyProofs, SequenceProofs

-----------------------------------------------------------------------------
(* What segments hold. *)

Summing(f, segs, n) ==
    f = [s \in SUBSET (1..n) |-> IF s = {} THEN 0 ELSE f[s \ {Max(s)}] + segs[Max(s)].bytes]

LEMMA SummingExists ==
    ASSUME NEW segs, NEW n \in Nat
    PROVE  \E f : Summing(f, segs, n)
<1> DEFINE T == {m \in Nat : \E f : Summing(f, segs, m)}
<1>1. 0 \in T
  <2>1. 1..0 = {}
    OBVIOUS
  <2>2. Summing([s \in SUBSET (1..0) |-> 0], segs, 0)
    BY <2>1 DEF Summing
  <2> QED
    BY <2>2
<1>2. ASSUME NEW m \in T PROVE m + 1 \in T
  <2>1. PICK f : Summing(f, segs, m)
    OBVIOUS
  <2>2. m \in Nat
    OBVIOUS
  <2> HIDE DEF T
  <2> DEFINE g == [s \in SUBSET (1..(m + 1)) |->
                      IF m + 1 \in s THEN f[s \ {m + 1}] + segs[m + 1].bytes ELSE f[s]]
  <2>3. ASSUME NEW s \in SUBSET (1..(m + 1))
        PROVE  g[s] = IF s = {} THEN 0 ELSE g[s \ {Max(s)}] + segs[Max(s)].bytes
    <3>1. 1..m = (1..(m + 1)) \ {m + 1}
      BY <2>2
    <3>2. CASE m + 1 \in s
      <4>1. Max(s) = m + 1
        <5>1. \A y \in s : y \in Nat /\ y <= m + 1
          BY <2>2
        <5>2. \A x \in s : (\A y \in s : y <= x) => x = m + 1
          <6>1. m + 1 \in Nat
            BY <2>2
          <6> QED
            BY <3>2, <5>1, <6>1
        <5> QED
          BY <3>2, <5>1, <5>2 DEF Max
      <4>2. s \ {m + 1} \in SUBSET (1..(m + 1)) /\ m + 1 \notin s \ {m + 1}
        OBVIOUS
      <4>3. g[s \ {m + 1}] = f[s \ {m + 1}]
        BY <4>2
      <4> QED
        BY <3>2, <4>1, <4>3
    <3>3. CASE m + 1 \notin s
      <4>1. s \in SUBSET (1..m) /\ s \ {Max(s)} \in SUBSET (1..m) /\ s \ {Max(s)} \in SUBSET (1..(m + 1))
        BY <3>1, <3>3
      <4>2. f[s] = IF s = {} THEN 0 ELSE f[s \ {Max(s)}] + segs[Max(s)].bytes
        BY <2>1, <4>1 DEF Summing
      <4>3. g[s] = f[s] /\ g[s \ {Max(s)}] = f[s \ {Max(s)}]
        BY <3>3, <4>1
      <4> QED
        BY <4>2, <4>3
    <3> QED
      BY <3>2, <3>3
  <2>4. Summing(g, segs, m + 1)
    <3>1. g = [s \in SUBSET (1..(m + 1)) |-> g[s]]
      OBVIOUS
    <3> HIDE DEF g
    <3> QED
      BY <2>3, <3>1 DEF Summing
  <2> QED
    BY <2>2, <2>4 DEF T
<1> HIDE DEF T
<1>3. T = Nat
  <2>1. T \in SUBSET Nat
    BY DEF T
  <2> QED
    BY <1>1, <1>2, <2>1, NaturalsByStep
<1> QED
  BY <1>3 DEF T

LEMMA SummingEnds ==
    ASSUME NEW S, NEW segs \in Seq(S)
    PROVE  \E f : Summing(f, segs, Len(segs)) /\ Bytes(segs) = f[1..Len(segs)]
<1> DEFINE f == CHOOSE g : Summing(g, segs, Len(segs))
<1>1. Len(segs) \in Nat /\ DOMAIN segs = 1..Len(segs)
  BY LenProperties
<1>2. Summing(f, segs, Len(segs))
  BY <1>1, SummingExists
<1>3. Bytes(segs) = f[1..Len(segs)]
  BY <1>1 DEF Bytes, FoldLeft, MapThenFoldSet, Summing
<1> QED
  BY <1>2, <1>3

LEMMA SummingStep ==
    ASSUME NEW segs, NEW n \in Nat, NEW f, Summing(f, segs, n), NEW k \in 1..n
    PROVE  f[1..k] = f[1..(k - 1)] + segs[k].bytes
<1>1. 1..k \in SUBSET (1..n) /\ 1..k # {} /\ (1..k) \ {k} = 1..(k - 1)
  OBVIOUS
<1>2. Max(1..k) = k
  <2>1. k \in 1..k /\ \A y \in 1..k : y <= k
    OBVIOUS
  <2>2. \A x \in 1..k : (\A y \in 1..k : y <= x) => x = k
    BY <2>1
  <2> QED
    BY <2>1, <2>2 DEF Max
<1> QED
  BY <1>1, <1>2 DEF Summing

LEMMA BytesOfNone == Bytes(<<>>) = 0
<1>1. PICK f : Summing(f, <<>>, 0) /\ Bytes(<<>>) = f[1..0]
  <2>1. <<>> \in Seq({}) /\ Len(<<>>) = 0
    BY EmptySeq
  <2> QED
    BY <2>1, SummingEnds
<1> QED
  BY <1>1 DEF Summing

LEMMA BytesOfAppend ==
    ASSUME NEW S, NEW segs \in Seq(S), NEW seg \in S
    PROVE  Bytes(Append(segs, seg)) = Bytes(segs) + seg.bytes
<1> DEFINE n == Len(segs)
           more == Append(segs, seg)
<1>1. n \in Nat
  BY LenProperties
<1>2. more \in Seq(S) /\ Len(more) = n + 1 /\ more[n + 1] = seg /\ \A i \in 1..n : more[i] = segs[i]
  BY AppendProperties
<1> HIDE DEF n, more
<1>3. PICK f : Summing(f, segs, n) /\ Bytes(segs) = f[1..n]
  BY SummingEnds DEF n
<1>4. PICK g : Summing(g, more, n + 1) /\ Bytes(more) = g[1..(n + 1)]
  BY <1>2, SummingEnds
<1> DEFINE T == {k \in Nat : k <= n => f[1..k] = g[1..k]}
<1>5. 0 \in T
  <2>1. 1..0 = {} /\ {} \in SUBSET (1..n) /\ {} \in SUBSET (1..(n + 1))
    OBVIOUS
  <2>2. f[{}] = 0 /\ g[{}] = 0
    BY <1>3, <1>4, <2>1 DEF Summing
  <2> QED
    BY <2>1, <2>2
<1>6. ASSUME NEW k \in T PROVE k + 1 \in T
  <2>1. k \in Nat /\ (k <= n => f[1..k] = g[1..k])
    OBVIOUS
  <2> HIDE DEF T
  <2>2. ASSUME k + 1 <= n PROVE f[1..(k + 1)] = g[1..(k + 1)]
    <3>1. k + 1 \in 1..n /\ k + 1 \in 1..(n + 1) /\ n + 1 \in Nat /\ (k + 1) - 1 = k /\ k <= n
      BY <1>1, <2>1, <2>2
    <3>2. f[1..(k + 1)] = f[1..k] + segs[k + 1].bytes
      BY <1>1, <1>3, <3>1, SummingStep
    <3>3. g[1..(k + 1)] = g[1..k] + more[k + 1].bytes
      BY <1>4, <3>1, SummingStep
    <3> QED
      BY <1>2, <2>1, <3>1, <3>2, <3>3
  <2> QED
    BY <2>1, <2>2 DEF T
<1> HIDE DEF T
<1>7. T = Nat
  <2>1. T \in SUBSET Nat
    BY DEF T
  <2> QED
    BY <1>5, <1>6, <2>1, NaturalsByStep
<1>8. f[1..n] = g[1..n]
  BY <1>1, <1>7 DEF T
<1>9. g[1..(n + 1)] = g[1..n] + more[n + 1].bytes
  <2>1. n + 1 \in 1..(n + 1) /\ n + 1 \in Nat /\ (n + 1) - 1 = n
    BY <1>1
  <2> QED
    BY <1>4, <2>1, SummingStep
<1> QED
  BY <1>2, <1>3, <1>4, <1>8, <1>9 DEF more

LEMMA BytesAreNat ==
    ASSUME NEW segs \in Seq(SegmentType)
    PROVE  Bytes(segs) \in Nat
<1> DEFINE T == {q \in Seq(SegmentType) : Bytes(q) \in Nat}
<1>1. <<>> \in T
  BY BytesOfNone, EmptySeq
<1>2. ASSUME NEW q \in T, NEW seg \in SegmentType PROVE Append(q, seg) \in T
  <2>1. Bytes(Append(q, seg)) = Bytes(q) + seg.bytes /\ Append(q, seg) \in Seq(SegmentType)
    BY BytesOfAppend, AppendProperties
  <2> QED
    BY <2>1 DEF SegmentType
<1> HIDE DEF T
<1>3. T = Seq(SegmentType)
  <2>1. T \in SUBSET Seq(SegmentType)
    BY DEF T
  <2> QED
    BY <1>1, <1>2, <2>1, SequencesByAppend
<1> QED
  BY <1>3 DEF T

LEMMA BytesOfConcat ==
    ASSUME NEW p \in Seq(SegmentType), NEW q \in Seq(SegmentType)
    PROVE  Bytes(p \o q) = Bytes(p) + Bytes(q)
<1> DEFINE T == {t \in Seq(SegmentType) : Bytes(p \o t) = Bytes(p) + Bytes(t)}
<1>1. <<>> \in T
  <2>1. p \o <<>> = p /\ Bytes(<<>>) = 0 /\ Bytes(p) \in Nat
    BY ConcatEmptySeq, BytesOfNone, BytesAreNat
  <2> QED
    BY <2>1, EmptySeq
<1>2. ASSUME NEW t \in T, NEW seg \in SegmentType PROVE Append(t, seg) \in T
  <2>1. t \in Seq(SegmentType) /\ Bytes(p \o t) = Bytes(p) + Bytes(t)
    OBVIOUS
  <2> HIDE DEF T
  <2>2. p \o Append(t, seg) = Append(p \o t, seg) /\ p \o t \in Seq(SegmentType)
    BY <2>1, ConcatAppend, ConcatProperties
  <2>3. /\ Bytes(p \o Append(t, seg)) = Bytes(p \o t) + seg.bytes
        /\ Bytes(Append(t, seg)) = Bytes(t) + seg.bytes
        /\ Append(t, seg) \in Seq(SegmentType)
    <3>1. Bytes(Append(p \o t, seg)) = Bytes(p \o t) + seg.bytes
      BY <2>2, BytesOfAppend
    <3>2. Bytes(Append(t, seg)) = Bytes(t) + seg.bytes /\ Append(t, seg) \in Seq(SegmentType)
      BY <2>1, BytesOfAppend, AppendProperties
    <3> QED
      BY <2>2, <3>1, <3>2
  <2>4. Bytes(p) \in Nat /\ Bytes(t) \in Nat /\ seg.bytes \in Nat
    BY <2>1, BytesAreNat DEF SegmentType
  <2> QED
    BY <2>1, <2>3, <2>4 DEF T
<1> HIDE DEF T
<1>3. T = Seq(SegmentType)
  <2>1. T \in SUBSET Seq(SegmentType)
    BY DEF T
  <2> QED
    BY <1>1, <1>2, <2>1, SequencesByAppend
<1> QED
  BY <1>3 DEF T

LEMMA BytesOfOne ==
    ASSUME NEW seg \in SegmentType
    PROVE  Bytes(<<seg>>) = seg.bytes
<1>1. <<>> \in Seq(SegmentType) /\ <<seg>> = Append(<<>>, seg) /\ seg.bytes \in Nat
  BY DEF SegmentType
<1>2. Bytes(<<seg>>) = Bytes(<<>>) + seg.bytes
  BY <1>1, BytesOfAppend
<1> QED
  BY <1>1, <1>2, BytesOfNone

\* The rows of segments, one sequence per segment.
RowLists(segs) == [k \in DOMAIN segs |-> segs[k].rows]

LEMMA RowListsTyped ==
    ASSUME NEW segs \in Seq(SegmentType)
    PROVE  /\ RowLists(segs) \in Seq(Seq(StoredRow))
           /\ Len(RowLists(segs)) = Len(segs)
           /\ \A k \in 1..Len(segs) : RowLists(segs)[k] = segs[k].rows
           /\ Rows(segs) = FlattenSeq(RowLists(segs))
<1>1. Len(segs) \in Nat /\ DOMAIN segs = 1..Len(segs) /\ \A k \in 1..Len(segs) : segs[k] \in SegmentType
  BY LenProperties, ElementOfSeq
<1>2. \A k \in 1..Len(segs) : segs[k].rows \in Seq(StoredRow)
  BY <1>1 DEF SegmentType
<1>3. RowLists(segs) \in Seq(Seq(StoredRow)) /\ Len(RowLists(segs)) = Len(segs)
  BY <1>1, <1>2 DEF RowLists
<1> QED
  BY <1>1, <1>3 DEF RowLists, Rows

LEMMA RowsAreRows ==
    ASSUME NEW segs \in Seq(SegmentType)
    PROVE  Rows(segs) \in Seq(StoredRow)
  BY RowListsTyped, FlattenIsSeq

LEMMA RowsOfNone == Rows(<<>>) = <<>>
<1>1. [k \in DOMAIN <<>> |-> <<>>[k].rows] = <<>>
  OBVIOUS
<1> QED
  BY <1>1, FlattenEmpty DEF Rows

LEMMA RowsOfConcat ==
    ASSUME NEW p \in Seq(SegmentType), NEW q \in Seq(SegmentType)
    PROVE  Rows(p \o q) = Rows(p) \o Rows(q)
<1>1. p \o q \in Seq(SegmentType) /\ Len(p) \in Nat /\ Len(q) \in Nat /\ Len(p \o q) = Len(p) + Len(q)
      /\ \A i \in 1..(Len(p) + Len(q)) : (p \o q)[i] = IF i <= Len(p) THEN p[i] ELSE q[i - Len(p)]
  BY ConcatProperties, LenProperties
<1>2. RowLists(p \o q) = RowLists(p) \o RowLists(q)
  <2> DEFINE l == RowLists(p \o q)
             r == RowLists(p) \o RowLists(q)
  <2>1. l \in Seq(Seq(StoredRow)) /\ Len(l) = Len(p) + Len(q)
        /\ \A i \in 1..(Len(p) + Len(q)) : l[i] = (p \o q)[i].rows
    BY <1>1, RowListsTyped
  <2>2. /\ RowLists(p) \in Seq(Seq(StoredRow)) /\ RowLists(q) \in Seq(Seq(StoredRow))
        /\ Len(RowLists(p)) = Len(p) /\ Len(RowLists(q)) = Len(q)
        /\ \A k \in 1..Len(p) : RowLists(p)[k] = p[k].rows
        /\ \A k \in 1..Len(q) : RowLists(q)[k] = q[k].rows
    BY RowListsTyped
  <2>3. r \in Seq(Seq(StoredRow)) /\ Len(r) = Len(p) + Len(q)
        /\ \A i \in 1..(Len(p) + Len(q)) : r[i] = IF i <= Len(p) THEN RowLists(p)[i] ELSE RowLists(q)[i - Len(p)]
    <3> DEFINE u == RowLists(p)
               v == RowLists(q)
    <3>1. u \in Seq(Seq(StoredRow)) /\ v \in Seq(Seq(StoredRow)) /\ Len(u) = Len(p) /\ Len(v) = Len(q)
      BY <2>2
    <3> HIDE DEF u, v
    <3>2. u \o v \in Seq(Seq(StoredRow)) /\ Len(u \o v) = Len(u) + Len(v)
          /\ \A i \in 1..(Len(u) + Len(v)) : (u \o v)[i] = IF i <= Len(u) THEN u[i] ELSE v[i - Len(u)]
      BY <3>1, ConcatProperties
    <3> QED
      BY <3>1, <3>2 DEF u, v
  <2>4. ASSUME NEW i \in 1..(Len(p) + Len(q)) PROVE l[i] = r[i]
    <3>1. i <= Len(p) => i \in 1..Len(p)
      BY <1>1
    <3>2. ~(i <= Len(p)) => i - Len(p) \in 1..Len(q)
      BY <1>1
    <3> HIDE DEF l, r
    <3> QED
      BY <1>1, <2>1, <2>2, <2>3, <3>1, <3>2
  <2> HIDE DEF l, r
  <2>5. l = r
    BY <2>1, <2>3, <2>4, SeqEqual
  <2> QED
    BY <2>5 DEF l, r
<1>3. Rows(p \o q) = FlattenSeq(RowLists(p) \o RowLists(q))
  BY <1>1, <1>2, RowListsTyped
<1>4. RowLists(p) \in Seq(Seq(StoredRow)) /\ RowLists(q) \in Seq(Seq(StoredRow))
  BY RowListsTyped
<1>5. FlattenSeq(RowLists(p) \o RowLists(q)) = FlattenSeq(RowLists(p)) \o FlattenSeq(RowLists(q))
  BY <1>4, FlattenConcat
<1> QED
  BY <1>3, <1>5, RowListsTyped

LEMMA RowsOfOne ==
    ASSUME NEW seg \in SegmentType
    PROVE  Rows(<<seg>>) = seg.rows
<1>1. <<seg>> \in Seq(SegmentType) /\ seg.rows \in Seq(StoredRow)
  BY DEF SegmentType
<1>2. RowLists(<<seg>>) = <<seg.rows>>
  BY DEF RowLists
<1> QED
  BY <1>1, <1>2, RowListsTyped, FlattenOne

LEMMA RowsOfAppend ==
    ASSUME NEW segs \in Seq(SegmentType), NEW seg \in SegmentType
    PROVE  Rows(Append(segs, seg)) = Rows(segs) \o seg.rows
<1>1. <<seg>> \in Seq(SegmentType) /\ Append(segs, seg) = segs \o <<seg>>
  BY AppendIsConcat
<1> QED
  BY <1>1, RowsOfConcat, RowsOfOne

LEMMA RowsOfParts ==
    ASSUME NEW segs \in Seq(SegmentType), NEW parts \in Seq(Seq(SegmentType)),
           Len(parts) = Len(segs), \A k \in 1..Len(segs) : Rows(parts[k]) = segs[k].rows
    PROVE  Rows(FlattenSeq(parts)) = Rows(segs)
<1> DEFINE Same(p, g) == Len(p) = Len(g) /\ \A k \in 1..Len(g) : Rows(p[k]) = g[k].rows
           T == {n \in Nat : \A p \in Seq(Seq(SegmentType)), g \in Seq(SegmentType) :
                                Len(g) = n /\ Same(p, g) => Rows(FlattenSeq(p)) = Rows(g)}
<1>1. 0 \in T
  <2>1. SUFFICES ASSUME NEW p \in Seq(Seq(SegmentType)), NEW g \in Seq(SegmentType), Len(g) = 0, Same(p, g)
                 PROVE  Rows(FlattenSeq(p)) = Rows(g)
    OBVIOUS
  <2>2. p = <<>> /\ g = <<>>
    BY <2>1, EmptySeq
  <2> QED
    BY <2>2, FlattenEmpty
<1>2. ASSUME NEW n \in T PROVE n + 1 \in T
  <2>1. SUFFICES ASSUME NEW p \in Seq(Seq(SegmentType)), NEW g \in Seq(SegmentType), Len(g) = n + 1, Same(p, g)
                 PROVE  Rows(FlattenSeq(p)) = Rows(g)
    OBVIOUS
  <2>2. n \in Nat /\ p # <<>> /\ g # <<>> /\ Len(p) = n + 1
    BY <2>1
  <2>3. PICK q \in Seq(Seq(SegmentType)), last \in Seq(SegmentType) : p = Append(q, last)
    BY <2>2, SequenceEmptyOrAppend
  <2>4. PICK h \in Seq(SegmentType), seg \in SegmentType : g = Append(h, seg)
    BY <2>2, SequenceEmptyOrAppend
  <2>5. Len(q) = n /\ Len(h) = n
    BY <2>1, <2>2, <2>3, <2>4, AppendProperties, LenProperties
  <2>6. p[n + 1] = last /\ \A k \in 1..n : p[k] = q[k]
    BY <2>3, <2>5, AppendProperties
  <2>7. g[n + 1] = seg /\ \A k \in 1..n : g[k] = h[k]
    <3>1. Append(h, seg)[Len(h) + 1] = seg /\ \A k \in 1..Len(h) : Append(h, seg)[k] = h[k]
      BY AppendProperties
    <3> QED
      BY <2>4, <2>5, <3>1
  <2>8. Rows(last) = seg.rows /\ \A k \in 1..n : Rows(q[k]) = h[k].rows
    <3>1. n + 1 \in 1..(n + 1) /\ \A k \in 1..n : k \in 1..(n + 1)
      BY <2>2
    <3>2. \A k \in 1..(n + 1) : Rows(p[k]) = g[k].rows
      BY <2>1
    <3> QED
      BY <2>6, <2>7, <3>1, <3>2
  <2>9. Rows(FlattenSeq(q)) = Rows(h)
    BY <2>5, <2>8, ZenonT(30)
  <2> HIDE DEF T
  <2>10. FlattenSeq(p) = FlattenSeq(q) \o last /\ FlattenSeq(q) \in Seq(SegmentType)
    BY <2>3, FlattenAppend, FlattenIsSeq
  <2>11. Rows(FlattenSeq(q) \o last) = Rows(FlattenSeq(q)) \o Rows(last)
    BY <2>10, RowsOfConcat
  <2>12. Rows(g) = Rows(h) \o seg.rows
    BY <2>4, RowsOfAppend
  <2> QED
    BY <2>8, <2>9, <2>10, <2>11, <2>12
<1> HIDE DEF T
<1>3. T = Nat
  <2>1. T \in SUBSET Nat
    BY DEF T
  <2> QED
    BY <1>1, <1>2, <2>1, NaturalsByStep
<1>4. Len(segs) \in T
  BY <1>3, LenProperties
<1> QED
  BY <1>4 DEF T

-----------------------------------------------------------------------------
(* Splitting. *)

LEMMA MinOfTwo ==
    ASSUME NEW x \in Int, NEW y \in Int
    PROVE  Min({x, y}) = IF x <= y THEN x ELSE y
<1> DEFINE m == IF x <= y THEN x ELSE y
<1>1. m \in {x, y} /\ (\A v \in {x, y} : m <= v) /\ \A u \in {x, y} : (\A v \in {x, y} : u <= v) => u = m
  OBVIOUS
<1> QED
  BY <1>1 DEF Min

LEMMA MaxOfTwo ==
    ASSUME NEW x \in Int, NEW y \in Int
    PROVE  Max({x, y}) = IF x <= y THEN y ELSE x
<1> DEFINE m == IF x <= y THEN y ELSE x
<1>1. m \in {x, y} /\ (\A v \in {x, y} : m >= v) /\ \A u \in {x, y} : (\A v \in {x, y} : u >= v) => u = m
  OBVIOUS
<1> QED
  BY <1>1 DEF Max

LEMMA CopiedIsTyped ==
    ASSUME NEW rows \in Seq(StoredRow)
    PROVE  Copied(rows) \in SegmentType /\ Copied(rows).rows = rows
<1>1. Len(rows) \in Nat
  BY LenProperties
<1> QED
  BY <1>1 DEF Copied, SegmentType

Chunk(rows, chunk, k) == SubSeq(rows, (k - 1) * chunk + 1, Min({k * chunk, Len(rows)}))

LEMMA ChunksCover ==
    ASSUME NEW rows \in Seq(StoredRow), NEW chunk \in Nat \ {0}, NEW count \in Nat,
           Len(rows) <= count * chunk,
           \A m \in Nat : m < count => m * chunk < Len(rows)
    PROVE  LET parts == [k \in 1..count |-> Copied(Chunk(rows, chunk, k))]
           IN  parts \in Seq(SegmentType) /\ Rows(parts) = rows
<1> DEFINE N == Len(rows)
           Parts(m) == [k \in 1..m |-> Copied(Chunk(rows, chunk, k))]
           Upto(m) == SubSeq(rows, 1, IF m * chunk <= N THEN m * chunk ELSE N)
           T == {m \in Nat : m <= count => Parts(m) \in Seq(SegmentType) /\ Rows(Parts(m)) = Upto(m)}
<1>1. N \in Nat /\ \A m \in Nat : m * chunk \in Nat /\ (m + 1) * chunk = m * chunk + chunk
  BY LenProperties
<1>2. 0 \in T
  <2>1. Parts(0) = <<>>
    OBVIOUS
  <2>2. 0 * chunk = 0 /\ 0 <= N
    BY <1>1
  <2>3. Upto(0) = <<>>
    BY <2>2, SubSeqEmpty
  <2> HIDE DEF Parts, Upto
  <2> QED
    BY <2>1, <2>3, RowsOfNone, EmptySeq
<1>3. ASSUME NEW m \in T PROVE m + 1 \in T
  <2>1. m \in Nat /\ (m <= count => Parts(m) \in Seq(SegmentType) /\ Rows(Parts(m)) = Upto(m))
    OBVIOUS
  <2> HIDE DEF T
  <2>2. SUFFICES ASSUME m + 1 <= count
                 PROVE  Parts(m + 1) \in Seq(SegmentType) /\ Rows(Parts(m + 1)) = Upto(m + 1)
    BY <2>1 DEF T
  <2> DEFINE lo == m * chunk
             hi == IF (m + 1) * chunk <= N THEN (m + 1) * chunk ELSE N
  <2>3. m < count /\ m <= count
    BY <2>1, <2>2
  <2>4. lo \in Nat /\ lo < N /\ hi \in Nat /\ lo <= hi /\ hi <= N
    BY <1>1, <2>1, <2>3
  <2>5. Chunk(rows, chunk, m + 1) = SubSeq(rows, lo + 1, hi)
    <3>1. (m + 1) - 1 = m /\ (m + 1) * chunk \in Int /\ N \in Int
      BY <1>1, <2>1
    <3>2. Min({(m + 1) * chunk, N}) = hi
      BY <3>1, MinOfTwo
    <3> QED
      BY <3>1, <3>2 DEF Chunk
  <2>6. Upto(m) = SubSeq(rows, 1, lo) /\ Upto(m + 1) = SubSeq(rows, 1, hi)
    BY <1>1, <2>1, <2>4
  <2>7. SubSeq(rows, 1, lo) \o SubSeq(rows, lo + 1, hi) = SubSeq(rows, 1, hi)
    <3>1. 1 \in 1..(Len(rows) + 1) /\ lo \in (1 - 1)..Len(rows) /\ hi \in lo..Len(rows)
      BY <1>1, <2>4
    <3> HIDE DEF lo, hi
    <3> QED
      BY <3>1, ConcatAdjacentSubSeq
  <2>8. SubSeq(rows, lo + 1, hi) \in Seq(StoredRow)
    <3>1. lo + 1 \in Int /\ hi \in Int /\ \A i \in (lo + 1)..hi : rows[i] \in StoredRow
      <4>1. \A i \in (lo + 1)..hi : i \in 1..Len(rows)
        BY <2>4
      <4> QED
        BY <2>4, <4>1, ElementOfSeq
    <3> HIDE DEF lo, hi
    <3> QED
      BY <3>1, SubSeqProperties
  <2> DEFINE piece == Copied(SubSeq(rows, lo + 1, hi))
  <2>9. piece \in SegmentType /\ piece.rows = SubSeq(rows, lo + 1, hi)
    BY <2>8, CopiedIsTyped
  <2>10. Parts(m + 1) = Append(Parts(m), piece)
    <3>1. Parts(m) \in Seq(SegmentType) /\ Len(Parts(m)) = m
      BY <2>1, <2>3
    <3>2. \A k \in 1..(m + 1) : k # m + 1 => k \in 1..m
      BY <2>1
    <3>3. \A k \in 1..(m + 1) : Parts(m + 1)[k] = IF k = m + 1 THEN piece ELSE Parts(m)[k]
      BY <2>5, <3>2
    <3>4. /\ Append(Parts(m), piece) \in Seq(SegmentType) /\ Len(Append(Parts(m), piece)) = m + 1
          /\ Append(Parts(m), piece)[m + 1] = piece
          /\ \A k \in 1..m : Append(Parts(m), piece)[k] = Parts(m)[k]
      <4> HIDE DEF Parts, piece
      <4> QED
        BY <3>1, <2>9, AppendProperties, SMTT(30)
    <3>5. DOMAIN Parts(m + 1) = 1..(m + 1) /\ Parts(m + 1) = [k \in 1..(m + 1) |-> Parts(m + 1)[k]]
      OBVIOUS
    <3> HIDE DEF Parts, piece
    <3>6. \A k \in 1..(m + 1) : Parts(m + 1)[k] \in SegmentType
      <4>1. \A k \in 1..m : Parts(m)[k] \in SegmentType
        BY <3>1, ElementOfSeq
      <4> QED
        BY <2>9, <3>2, <3>3, <4>1
    <3>7. Parts(m + 1) \in Seq(SegmentType) /\ Len(Parts(m + 1)) = m + 1
      <4>1. m + 1 \in Nat
        BY <2>1
      <4> QED
        BY <3>5, <3>6, <4>1
    <3>8. \A k \in 1..(m + 1) : Parts(m + 1)[k] = Append(Parts(m), piece)[k]
      BY <3>2, <3>3, <3>4
    <3> QED
      BY <3>4, <3>7, <3>8, SeqEqual
  <2> HIDE DEF Parts, Upto, piece, lo, hi
  <2>11. Parts(m) \in Seq(SegmentType) /\ Rows(Parts(m)) = Upto(m)
    BY <2>1, <2>3
  <2>12. Rows(Append(Parts(m), piece)) = Rows(Parts(m)) \o piece.rows /\ Append(Parts(m), piece) \in Seq(SegmentType)
    BY <2>9, <2>11, RowsOfAppend, AppendProperties
  <2> QED
    BY <2>6, <2>7, <2>9, <2>10, <2>11, <2>12
<1> HIDE DEF T
<1>4. T = Nat
  <2>1. T \in SUBSET Nat
    BY DEF T
  <2> QED
    BY <1>2, <1>3, <2>1, NaturalsByStep
<1>5. Parts(count) \in Seq(SegmentType) /\ Rows(Parts(count)) = Upto(count)
  <2> HIDE DEF Parts, Upto
  <2> QED
    BY <1>4 DEF T
<1>6. Upto(count) = rows
  <2>1. (IF count * chunk <= N THEN count * chunk ELSE N) = N
    BY <1>1
  <2> QED
    BY <2>1, SubSeqFull
<1> QED
  BY <1>5, <1>6

LEMMA DivisionBounds ==
    ASSUME NEW x \in Nat, NEW d \in Nat \ {0}
    PROVE  x \div d \in Nat /\ d * (x \div d) <= x /\ x < d * (x \div d) + d
OBVIOUS

LEMMA TargetIsPositive ==
    ASSUME NEW lim \in Nat \cup {None}
    PROVE  SegmentTarget(lim) \in Nat \ {0}
<1>1. CASE lim = None
  BY <1>1, LedgerAssumption DEF SegmentTarget
<1>2. CASE lim # None
  <2> DEFINE share == lim \div SegmentsPerLimit
             least == Max({share, 1})
  <2>1. share \in Nat
    BY <1>2, LedgerAssumption
  <2> HIDE DEF share
  <2>2. least \in Nat \ {0}
    BY <2>1, MaxOfTwo
  <2> HIDE DEF least
  <2>3. Min({least, SegmentTargetBytes}) \in Nat \ {0}
    BY <2>2, LedgerAssumption, MinOfTwo
  <2> QED
    BY <1>2, <2>3 DEF SegmentTarget, least, share
<1> QED
  BY <1>1, <1>2

LEMMA SplitKeepsRows ==
    ASSUME NEW seg \in SegmentType, NEW target \in Nat \ {0}
    PROVE  SplitOversized(seg, target) \in Seq(SegmentType) /\ Rows(SplitOversized(seg, target)) = seg.rows
<1> DEFINE rows == seg.rows
           N == Len(rows)
           share == (N * target) \div seg.bytes
           chunk == Max({share, 1})
           count == (N + chunk - 1) \div chunk
<1>1. rows \in Seq(StoredRow) /\ seg.bytes \in Nat /\ N \in Nat
  <2>1. rows \in Seq(StoredRow) /\ seg.bytes \in Nat
    BY DEF SegmentType
  <2> QED
    BY <2>1, LenProperties
<1>2. CASE WithinTarget(seg.bytes, target) \/ N < 2
  <2>1. SplitOversized(seg, target) = <<seg>>
    BY <1>2 DEF SplitOversized
  <2> QED
    BY <2>1, RowsOfOne
<1>3. CASE ~(WithinTarget(seg.bytes, target) \/ N < 2)
  <2>1. seg.bytes \in Nat \ {0}
    BY <1>1, <1>3 DEF WithinTarget
  <2>2. share \in Int
    BY <1>1, <2>1
  <2> HIDE DEF share
  <2>3. chunk \in Nat \ {0}
    BY <2>2, MaxOfTwo
  <2> HIDE DEF chunk
  <2>4. N + chunk - 1 \in Nat
    BY <1>1, <2>3
  <2>5. count \in Nat /\ chunk * count <= N + chunk - 1 /\ N + chunk - 1 < chunk * count + chunk
    <3> DEFINE above == N + chunk - 1
    <3>1. above \in Nat
      BY <2>4
    <3> HIDE DEF above
    <3>2. above \div chunk \in Nat /\ chunk * (above \div chunk) <= above
          /\ above < chunk * (above \div chunk) + chunk
      BY <2>3, <3>1, DivisionBounds
    <3> QED
      BY <3>2 DEF above
  <2> HIDE DEF count
  <2>6. count * chunk = chunk * count /\ count * chunk \in Nat
    BY <2>3, <2>5
  <2>7. N <= count * chunk
    BY <1>1, <2>3, <2>5, <2>6
  <2>8. ASSUME NEW m \in Nat, m < count PROVE m * chunk < N
    <3>1. m + 1 <= count
      BY <2>5, <2>8
    <3>2. (m + 1) * chunk <= count * chunk
      BY <2>3, <2>5, <3>1
    <3>3. (m + 1) * chunk = m * chunk + chunk /\ m * chunk \in Nat
      BY <2>3
    <3> QED
      BY <1>1, <2>3, <2>5, <2>6, <3>2, <3>3, SMTT(30)
  <2> DEFINE parts == [k \in 1..count |-> Copied(Chunk(rows, chunk, k))]
  <2>9. SplitOversized(seg, target) = parts
    BY <1>3 DEF SplitOversized, Chunk, count, chunk, share
  <2>10. parts \in Seq(SegmentType) /\ Rows(parts) = rows
    <3> HIDE DEF rows
    <3> QED
      BY <1>1, <2>3, <2>5, <2>7, <2>8, ChunksCover
  <2> QED
    BY <2>9, <2>10
<1> QED
  BY <1>2, <1>3

-----------------------------------------------------------------------------
(* The store. *)

StoreType == [pinned : SegmentType \cup {None}, segments : Seq(SegmentType),
              tail : Seq(SegmentType), resident : Int]

PinnedList(s) == IF s.pinned = None THEN <<>> ELSE <<s.pinned>>
PinnedRows(s) == IF s.pinned = None THEN <<>> ELSE s.pinned.rows
PinnedBytes(s) == IF s.pinned = None THEN 0 ELSE s.pinned.bytes

Balanced(s) == s.resident = Bytes(AllSegments(s))

\* The rows that are not pinned.
Window(s) == Rows(s.segments) \o Rows(s.tail)

LEMMA StoreInParts ==
    ASSUME NEW s \in StoreType
    PROVE  /\ AllSegments(s) \in Seq(SegmentType)
           /\ PinnedRows(s) \in Seq(StoredRow) /\ PinnedBytes(s) \in Nat
           /\ Rows(s.segments) \in Seq(StoredRow) /\ Rows(s.tail) \in Seq(StoredRow)
           /\ Bytes(s.segments) \in Nat /\ Bytes(s.tail) \in Nat
           /\ AllRows(s) = (PinnedRows(s) \o Rows(s.segments)) \o Rows(s.tail)
           /\ Bytes(AllSegments(s)) = PinnedBytes(s) + Bytes(s.segments) + Bytes(s.tail)
<1> DEFINE p == PinnedList(s)
<1>1. s.segments \in Seq(SegmentType) /\ s.tail \in Seq(SegmentType) /\ s.pinned \in SegmentType \cup {None}
  BY DEF StoreType
<1>2. p \in Seq(SegmentType) /\ Rows(p) = PinnedRows(s) /\ Bytes(p) = PinnedBytes(s)
  <2>1. CASE s.pinned = None
    BY <2>1, RowsOfNone, BytesOfNone DEF PinnedList, PinnedRows, PinnedBytes
  <2>2. CASE s.pinned # None
    BY <1>1, <2>2, RowsOfOne, BytesOfOne DEF PinnedList, PinnedRows, PinnedBytes
  <2> QED
    BY <2>1, <2>2
<1>3. AllSegments(s) = (p \o s.segments) \o s.tail
  <2>1. AllSegments(s) = p \o s.segments \o s.tail
    BY DEF AllSegments, PinnedList
  <2> HIDE DEF p
  <2> QED
    BY <2>1
<1> HIDE DEF p
<1>4. /\ p \o s.segments \in Seq(SegmentType)
      /\ Rows(p \o s.segments) = Rows(p) \o Rows(s.segments)
      /\ Bytes(p \o s.segments) = Bytes(p) + Bytes(s.segments)
  BY <1>1, <1>2, ConcatProperties, RowsOfConcat, BytesOfConcat
<1>5. /\ AllSegments(s) \in Seq(SegmentType)
      /\ Rows(AllSegments(s)) = Rows(p \o s.segments) \o Rows(s.tail)
      /\ Bytes(AllSegments(s)) = Bytes(p \o s.segments) + Bytes(s.tail)
  BY <1>1, <1>3, <1>4, ConcatProperties, RowsOfConcat, BytesOfConcat
<1>6. /\ Rows(p) \in Seq(StoredRow) /\ Bytes(p) \in Nat
      /\ Rows(s.segments) \in Seq(StoredRow) /\ Bytes(s.segments) \in Nat
      /\ Rows(s.tail) \in Seq(StoredRow) /\ Bytes(s.tail) \in Nat
  BY <1>1, <1>2, RowsAreRows, BytesAreNat
<1> QED
  BY <1>2, <1>4, <1>5, <1>6 DEF AllRows

LEMMA SealKeepsStore ==
    ASSUME NEW s \in StoreType, Balanced(s), NEW target \in Nat \ {0}, NEW copyOk
    PROVE  LET t == SealTail(s, target, copyOk)
           IN  t \in StoreType /\ Balanced(t) /\ AllRows(t) = AllRows(s) /\ Window(t) = Window(s)
<1> DEFINE whole == IF Len(s.tail) = 1 THEN s.tail[1] ELSE Copied(Rows(s.tail))
           sealed == SplitOversized(whole, target)
           t == SealTail(s, target, copyOk)
           u == [s EXCEPT !.segments = @ \o sealed, !.tail = <<>>,
                          !.resident = @ - Bytes(s.tail) + Bytes(sealed)]
<1>1. t = s \/ t = u
  BY DEF SealTail
<1>2. s.segments \in Seq(SegmentType) /\ s.tail \in Seq(SegmentType) /\ s.resident \in Int
  BY DEF StoreType
<1>3. whole \in SegmentType /\ whole.rows = Rows(s.tail)
  <2>1. CASE Len(s.tail) = 1
    <3>1. s.tail[1] \in SegmentType /\ s.tail = <<s.tail[1]>>
      BY <1>2, <2>1
    <3> QED
      BY <2>1, <3>1, RowsOfOne
  <2>2. CASE Len(s.tail) # 1
    BY <1>2, <2>2, RowsAreRows, CopiedIsTyped
  <2> QED
    BY <2>1, <2>2
<1> HIDE DEF whole
<1>4. sealed \in Seq(SegmentType) /\ Rows(sealed) = Rows(s.tail)
  BY <1>3, SplitKeepsRows
<1> HIDE DEF sealed
<1>5. Bytes(sealed) \in Int /\ Bytes(s.tail) \in Int
  BY <1>2, <1>4, BytesAreNat
<1>6. /\ s.segments \o sealed \in Seq(SegmentType)
      /\ Rows(s.segments \o sealed) = Rows(s.segments) \o Rows(sealed)
      /\ Bytes(s.segments \o sealed) = Bytes(s.segments) + Bytes(sealed)
  BY <1>2, <1>4, ConcatProperties, RowsOfConcat, BytesOfConcat
<1>7. u \in StoreType
  <2>1. s.segments \o sealed \in Seq(SegmentType) /\ <<>> \in Seq(SegmentType)
        /\ s.resident - Bytes(s.tail) + Bytes(sealed) \in Int
    BY <1>2, <1>5, <1>6
  <2> QED
    BY <2>1, Zenon DEF StoreType
<1>8. /\ u.segments = s.segments \o sealed /\ u.tail = <<>> /\ u.pinned = s.pinned
      /\ u.resident = s.resident - Bytes(s.tail) + Bytes(sealed)
  BY DEF StoreType
<1> HIDE DEF u
<1>9. PinnedRows(u) = PinnedRows(s) /\ PinnedBytes(u) = PinnedBytes(s)
  BY <1>8 DEF PinnedRows, PinnedBytes
<1>10. Balanced(u)
  <2>1. Bytes(AllSegments(u)) = PinnedBytes(s) + (Bytes(s.segments) + Bytes(sealed)) + 0
    BY <1>6, <1>7, <1>8, <1>9, StoreInParts, BytesOfNone
  <2>2. s.resident = PinnedBytes(s) + Bytes(s.segments) + Bytes(s.tail)
    BY StoreInParts DEF Balanced
  <2>3. PinnedBytes(s) \in Nat /\ Bytes(s.segments) \in Nat
    BY StoreInParts
  <2> QED
    BY <1>5, <1>8, <2>1, <2>2, <2>3 DEF Balanced
<1>11. AllRows(u) = AllRows(s)
  <2>1. AllRows(u) = (PinnedRows(s) \o (Rows(s.segments) \o Rows(s.tail))) \o <<>>
    BY <1>4, <1>6, <1>7, <1>8, <1>9, StoreInParts, RowsOfNone
  <2>2. /\ PinnedRows(s) \in Seq(StoredRow) /\ Rows(s.segments) \in Seq(StoredRow) /\ Rows(s.tail) \in Seq(StoredRow)
        /\ AllRows(s) = (PinnedRows(s) \o Rows(s.segments)) \o Rows(s.tail)
    BY StoreInParts
  <2>3. PinnedRows(s) \o (Rows(s.segments) \o Rows(s.tail)) = AllRows(s) /\ AllRows(s) \in Seq(StoredRow)
    <3> DEFINE a == PinnedRows(s)
               b == Rows(s.segments)
               c == Rows(s.tail)
    <3>1. a \in Seq(StoredRow) /\ b \in Seq(StoredRow) /\ c \in Seq(StoredRow)
      BY <2>2
    <3> HIDE DEF a, b, c
    <3>2. (a \o b) \o c = a \o (b \o c)
      BY <3>1, ConcatAssociative
    <3>3. (a \o b) \o c \in Seq(StoredRow)
      BY <3>1, ConcatProperties
    <3> QED
      BY <2>2, <3>2, <3>3 DEF a, b, c
  <2> QED
    BY <2>1, <2>3, ConcatEmptySeq
<1>12. Window(u) = Window(s)
  <2> DEFINE b == Rows(s.segments)
             c == Rows(s.tail)
  <2>1. Window(u) = (b \o c) \o <<>>
    BY <1>4, <1>6, <1>8, RowsOfNone DEF Window
  <2>2. b \in Seq(StoredRow) /\ c \in Seq(StoredRow)
    BY StoreInParts
  <2>3. Window(s) = b \o c
    BY DEF Window
  <2> HIDE DEF b, c
  <2>4. b \o c \in Seq(StoredRow)
    BY <2>2, ConcatProperties
  <2> QED
    BY <2>1, <2>3, <2>4, ConcatEmptySeq
<1> QED
  BY <1>1, <1>7, <1>10, <1>11, <1>12

LEMMA SplitKeepsStore ==
    ASSUME NEW s \in StoreType, Balanced(s), NEW target \in Nat \ {0}, NEW stuck
    PROVE  LET t == SplitSealed(s, target, stuck)
           IN  t \in StoreType /\ Balanced(t) /\ AllRows(t) = AllRows(s) /\ Window(t) = Window(s)
<1> DEFINE part(k) == IF k \in stuck THEN <<s.segments[k]>> ELSE SplitOversized(s.segments[k], target)
           parts == [k \in DOMAIN s.segments |-> part(k)]
           split == FlattenSeq(parts)
           t == SplitSealed(s, target, stuck)
<1>1. s.segments \in Seq(SegmentType) /\ s.tail \in Seq(SegmentType) /\ s.resident \in Int
  BY DEF StoreType
<1>2. /\ Len(s.segments) \in Nat /\ DOMAIN s.segments = 1..Len(s.segments)
      /\ \A k \in 1..Len(s.segments) : s.segments[k] \in SegmentType
  BY <1>1, LenProperties, ElementOfSeq
<1>3. t = [s EXCEPT !.segments = split, !.resident = @ - Bytes(s.segments) + Bytes(split)]
  BY DEF SplitSealed
<1>4. ASSUME NEW k \in 1..Len(s.segments)
      PROVE  part(k) \in Seq(SegmentType) /\ Rows(part(k)) = s.segments[k].rows
  <2> DEFINE seg == s.segments[k]
  <2>1. seg \in SegmentType
    BY <1>2
  <2> HIDE DEF seg
  <2>2. <<seg>> \in Seq(SegmentType) /\ Rows(<<seg>>) = seg.rows
    BY <2>1, RowsOfOne
  <2>3. SplitOversized(seg, target) \in Seq(SegmentType) /\ Rows(SplitOversized(seg, target)) = seg.rows
    BY <2>1, SplitKeepsRows
  <2>4. part(k) = IF k \in stuck THEN <<seg>> ELSE SplitOversized(seg, target)
    BY DEF seg
  <2> HIDE DEF part
  <2>5. part(k) \in Seq(SegmentType) /\ Rows(part(k)) = seg.rows
    BY <2>2, <2>3, <2>4
  <2> QED
    BY <2>5 DEF seg
<1>5. /\ parts \in Seq(Seq(SegmentType)) /\ Len(parts) = Len(s.segments)
      /\ \A k \in 1..Len(s.segments) : Rows(parts[k]) = s.segments[k].rows
  <2> HIDE DEF part
  <2> QED
    BY <1>2, <1>4
<1> HIDE DEF parts
<1>6. split \in Seq(SegmentType) /\ Rows(split) = Rows(s.segments)
  BY <1>1, <1>5, FlattenIsSeq, RowsOfParts
<1>7. Bytes(split) \in Int /\ Bytes(s.segments) \in Int
  BY <1>1, <1>6, BytesAreNat
<1> HIDE DEF split
<1>8. t \in StoreType
  <2>1. t = [pinned |-> s.pinned, segments |-> split, tail |-> s.tail,
             resident |-> s.resident - Bytes(s.segments) + Bytes(split)]
    BY <1>3 DEF StoreType
  <2>2. s.pinned \in SegmentType \cup {None} /\ s.resident - Bytes(s.segments) + Bytes(split) \in Int
    BY <1>1, <1>7 DEF StoreType
  <2> HIDE DEF t
  <2> QED
    BY <1>1, <1>6, <2>1, <2>2 DEF StoreType
<1>9. /\ t.segments = split /\ t.tail = s.tail /\ t.pinned = s.pinned
      /\ t.resident = s.resident - Bytes(s.segments) + Bytes(split)
  BY <1>3 DEF StoreType
<1> HIDE DEF t
<1>10. PinnedRows(t) = PinnedRows(s) /\ PinnedBytes(t) = PinnedBytes(s)
  BY <1>9 DEF PinnedRows, PinnedBytes
<1>11. Balanced(t)
  <2>1. Bytes(AllSegments(t)) = PinnedBytes(s) + Bytes(split) + Bytes(s.tail)
    BY <1>8, <1>9, <1>10, StoreInParts
  <2>2. s.resident = PinnedBytes(s) + Bytes(s.segments) + Bytes(s.tail)
    BY StoreInParts DEF Balanced
  <2>3. PinnedBytes(s) \in Nat /\ Bytes(s.tail) \in Nat
    BY StoreInParts
  <2> QED
    BY <1>7, <1>9, <2>1, <2>2, <2>3 DEF Balanced
<1>12. AllRows(t) = AllRows(s)
  <2>1. AllRows(t) = (PinnedRows(t) \o Rows(t.segments)) \o Rows(t.tail)
    BY <1>8, StoreInParts
  <2>2. AllRows(s) = (PinnedRows(s) \o Rows(s.segments)) \o Rows(s.tail)
    BY StoreInParts
  <2> QED
    BY <1>6, <1>9, <1>10, <2>1, <2>2
<1>13. Window(t) = Window(s)
  BY <1>6, <1>9 DEF Window
<1> QED
  BY <1>8, <1>11, <1>12, <1>13 DEF t

-----------------------------------------------------------------------------
(* Rows in the order of one clock: put together and taken apart. *)

Sorted(rows) == \A i, j \in 1..Len(rows) : i < j => rows[i].epoch <= rows[j].epoch

NotAfter(early, late) == \A p \in early, q \in late : p.epoch <= q.epoch

\* When rows put together are in order.
InTurn(w, x, y) == Sorted(w) <=> Sorted(x) /\ Sorted(y) /\ NotAfter(ToSet(x), ToSet(y))

LEMMA SortedConcat ==
    ASSUME NEW x \in Seq(StoredRow), NEW y \in Seq(StoredRow)
    PROVE  InTurn(x \o y, x, y)
<1> DEFINE n == Len(x)
           m == Len(y)
           w == x \o y
<1>1. n \in Nat /\ m \in Nat /\ Len(w) = n + m /\ DOMAIN x = 1..n /\ DOMAIN y = 1..m
  BY LenProperties, ConcatProperties
<1>2. /\ \A i \in 1..n : w[i] = x[i]
      /\ \A i \in 1..m : w[n + i] = y[i]
  <2>1. \A i \in 1..(n + m) : w[i] = IF i <= n THEN x[i] ELSE y[i - n]
    BY ConcatProperties
  <2> HIDE DEF w
  <2>2. \A i \in 1..n : i \in 1..(n + m) /\ i <= n
    BY <1>1
  <2>3. \A i \in 1..m : n + i \in 1..(n + m) /\ ~(n + i <= n) /\ (n + i) - n = i
    BY <1>1
  <2> QED
    BY <2>1, <2>2, <2>3
<1> HIDE DEF n, m, w
<1>3. ASSUME Sorted(w) PROVE Sorted(x) /\ Sorted(y) /\ NotAfter(ToSet(x), ToSet(y))
  <2>1. \A i, j \in 1..(n + m) : i < j => w[i].epoch <= w[j].epoch
    BY <1>1, <1>3 DEF Sorted
  <2>2. ASSUME NEW i \in 1..n, NEW j \in 1..n, i < j PROVE x[i].epoch <= x[j].epoch
    <3>1. i \in 1..(n + m) /\ j \in 1..(n + m)
      BY <1>1
    <3> QED
      BY <1>2, <2>1, <2>2, <3>1
  <2>3. ASSUME NEW i \in 1..m, NEW j \in 1..m, i < j PROVE y[i].epoch <= y[j].epoch
    <3>1. n + i \in 1..(n + m) /\ n + j \in 1..(n + m) /\ n + i < n + j
      BY <1>1, <2>3
    <3> QED
      BY <1>2, <2>1, <3>1
  <2>4. ASSUME NEW i \in 1..n, NEW j \in 1..m PROVE x[i].epoch <= y[j].epoch
    <3>1. i \in 1..(n + m) /\ n + j \in 1..(n + m) /\ i < n + j
      BY <1>1
    <3> QED
      BY <1>2, <2>1, <3>1
  <2> QED
    BY <1>1, <2>2, <2>3, <2>4 DEF Sorted, NotAfter, ToSet, n, m
<1>4. ASSUME Sorted(x), Sorted(y), NotAfter(ToSet(x), ToSet(y)) PROVE Sorted(w)
  <2>1. /\ \A i, j \in 1..n : i < j => x[i].epoch <= x[j].epoch
        /\ \A i, j \in 1..m : i < j => y[i].epoch <= y[j].epoch
        /\ \A i \in 1..n, j \in 1..m : x[i].epoch <= y[j].epoch
    BY <1>1, <1>4 DEF Sorted, NotAfter, ToSet, n, m
  <2>2. SUFFICES ASSUME NEW i \in 1..(n + m), NEW j \in 1..(n + m), i < j
                 PROVE  w[i].epoch <= w[j].epoch
    BY <1>1 DEF Sorted
  <2>3. CASE i <= n /\ j <= n
    <3>1. i \in 1..n /\ j \in 1..n
      BY <1>1, <2>3
    <3> QED
      BY <1>2, <2>1, <2>2, <3>1
  <2>4. CASE i <= n /\ ~(j <= n)
    <3>1. i \in 1..n /\ j - n \in 1..m /\ n + (j - n) = j
      BY <1>1, <2>4
    <3>2. w[i] = x[i] /\ w[j] = y[j - n]
      BY <1>2, <3>1
    <3> QED
      BY <2>1, <3>1, <3>2
  <2>5. CASE ~(i <= n)
    <3>1. /\ i - n \in 1..m /\ n + (i - n) = i
          /\ j - n \in 1..m /\ n + (j - n) = j /\ i - n < j - n
      BY <1>1, <2>2, <2>5
    <3>2. w[i] = y[i - n] /\ w[j] = y[j - n]
      BY <1>2, <3>1
    <3> QED
      BY <2>1, <3>1, <3>2
  <2> QED
    BY <2>3, <2>4, <2>5
<1> QED
  BY <1>3, <1>4 DEF InTurn, w

-----------------------------------------------------------------------------
(* Eviction. *)

Still(poses, r) == poses[r.id] # None /\ r.epoch = poses[r.id].epoch

LEMMA StillLatestByAppend ==
    ASSUME NEW poses, NEW rows \in Seq(StoredRow), NEW r \in StoredRow
    PROVE  StillLatest(poses, Append(rows, r))
             = StillLatest(poses, rows) \o (IF Still(poses, r) THEN <<r>> ELSE <<>>)
<1> DEFINE one(x) == IF Still(poses, x) THEN <<x>> ELSE <<>>
           lists(q) == [i \in DOMAIN q |-> one(q[i])]
           n == Len(rows)
           more == Append(rows, r)
<1>1. /\ StillLatest(poses, rows) = FlattenSeq(lists(rows))
      /\ StillLatest(poses, more) = FlattenSeq(lists(more))
  BY DEF StillLatest, Still
<1>2. n \in Nat /\ DOMAIN rows = 1..n /\ \A i \in 1..n : rows[i] \in StoredRow
  BY LenProperties, ElementOfSeq
<1>3. /\ more \in Seq(StoredRow) /\ DOMAIN more = 1..(n + 1)
      /\ more[n + 1] = r /\ \A i \in 1..n : more[i] = rows[i]
  <2>1. Append(rows, r) \in Seq(StoredRow) /\ Len(Append(rows, r)) = Len(rows) + 1
        /\ Append(rows, r)[Len(rows) + 1] = r /\ \A i \in 1..Len(rows) : Append(rows, r)[i] = rows[i]
    BY AppendProperties
  <2> QED
    BY <2>1, LenProperties
<1>4. \A x \in StoredRow : one(x) \in Seq(StoredRow)
  OBVIOUS
<1> HIDE DEF n, more, one
<1>5. /\ lists(rows) \in Seq(Seq(StoredRow)) /\ Len(lists(rows)) = n
      /\ lists(more) \in Seq(Seq(StoredRow)) /\ Len(lists(more)) = n + 1
  <2>1. \A i \in 1..n : one(rows[i]) \in Seq(StoredRow)
    BY <1>2, <1>4
  <2>2. \A i \in 1..(n + 1) : one(more[i]) \in Seq(StoredRow)
    <3>1. \A i \in 1..(n + 1) : i = n + 1 \/ i \in 1..n
      BY <1>2
    <3> QED
      BY <1>2, <1>3, <1>4, <3>1
  <2>3. /\ lists(rows) = [i \in 1..n |-> lists(rows)[i]]
        /\ \A i \in 1..n : lists(rows)[i] \in Seq(StoredRow)
    BY <1>2, <2>1
  <2>4. /\ lists(more) = [i \in 1..(n + 1) |-> lists(more)[i]]
        /\ \A i \in 1..(n + 1) : lists(more)[i] \in Seq(StoredRow)
    BY <1>3, <2>2
  <2> HIDE DEF lists
  <2>5. n + 1 \in Nat
    BY <1>2
  <2> QED
    BY <1>2, <2>3, <2>4, <2>5, TabulatedSeq
<1>6. \A i \in 1..n : lists(more)[i] = lists(rows)[i]
  BY <1>2, <1>3
<1>7. lists(more)[n + 1] = one(r)
  BY <1>2, <1>3
<1> HIDE DEF lists
<1>8. /\ Append(lists(rows), one(r)) \in Seq(Seq(StoredRow))
      /\ Len(Append(lists(rows), one(r))) = n + 1
      /\ Append(lists(rows), one(r))[n + 1] = one(r)
      /\ \A i \in 1..n : Append(lists(rows), one(r))[i] = lists(rows)[i]
  BY <1>4, <1>5, AppendProperties
<1>9. lists(more) = Append(lists(rows), one(r))
  <2>1. \A i \in 1..(n + 1) : i = n + 1 \/ i \in 1..n
    BY <1>2
  <2>2. \A i \in 1..(n + 1) : lists(more)[i] = Append(lists(rows), one(r))[i]
    BY <1>6, <1>7, <1>8, <2>1
  <2> QED
    BY <1>5, <1>8, <2>2, SeqEqual
<1>10. FlattenSeq(Append(lists(rows), one(r))) = FlattenSeq(lists(rows)) \o one(r)
  BY <1>4, <1>5, FlattenAppend
<1> QED
  BY <1>1, <1>9, <1>10 DEF more, one

LEMMA StillLatestKeeps ==
    ASSUME NEW poses, NEW rows \in Seq(StoredRow)
    PROVE  /\ StillLatest(poses, rows) \in Seq(StoredRow)
           /\ ToSet(StillLatest(poses, rows)) = {r \in ToSet(rows) : Still(poses, r)}
           /\ IsInjective(rows) => IsInjective(StillLatest(poses, rows))
           /\ Sorted(rows) => Sorted(StillLatest(poses, rows))
<1> DEFINE K(q) == StillLatest(poses, q)
           Keeps(q) == /\ K(q) \in Seq(StoredRow)
                       /\ ToSet(K(q)) = {r \in ToSet(q) : Still(poses, r)}
                       /\ IsInjective(q) => IsInjective(K(q))
                       /\ Sorted(q) => Sorted(K(q))
           T == {q \in Seq(StoredRow) : Keeps(q)}
<1>1. <<>> \in T
  <2>1. K(<<>>) = <<>>
    <3> DEFINE lists == [i \in DOMAIN <<>> |-> IF Still(poses, <<>>[i]) THEN << <<>>[i] >> ELSE <<>>]
    <3>1. lists = <<>>
      OBVIOUS
    <3>2. K(<<>>) = FlattenSeq(lists)
      BY DEF StillLatest, Still
    <3> QED
      BY <3>1, <3>2, FlattenEmpty
  <2>2. ToSet(<<>>) = {} /\ IsInjective(<<>>) /\ Sorted(<<>>)
    BY DEF ToSet, IsInjective, Sorted
  <2> HIDE DEF K
  <2> QED
    BY <2>1, <2>2, EmptySeq
<1>2. ASSUME NEW q \in T, NEW r \in StoredRow PROVE Append(q, r) \in T
  <2>1. q \in Seq(StoredRow) /\ Keeps(q)
    OBVIOUS
  <2> HIDE DEF T
  <2> DEFINE one == IF Still(poses, r) THEN <<r>> ELSE <<>>
  <2>2. K(Append(q, r)) = K(q) \o one
    BY <2>1, StillLatestByAppend
  <2>3. one \in Seq(StoredRow) /\ ToSet(one) = {x \in {r} : Still(poses, x)} /\ IsInjective(one)
    BY DEF ToSet, IsInjective
  <2>4. Append(q, r) \in Seq(StoredRow) /\ Append(q, r) = q \o <<r>> /\ <<r>> \in Seq(StoredRow)
    BY <2>1, AppendProperties, AppendIsConcat
  <2>5. ToSet(Append(q, r)) = ToSet(q) \cup {r}
    BY <2>1, SetOfAppend
  <2>6. IsInjective(Append(q, r)) => IsInjective(q) /\ r \notin ToSet(q)
    <3>1. ToSet(<<r>>) = {r}
      BY DEF ToSet
    <3>2. IsInjective(q \o <<r>>) => IsInjective(q) /\ ToSet(q) \cap ToSet(<<r>>) = {}
      BY <2>1, <2>4, InjectiveConcat
    <3> QED
      BY <2>4, <3>1, <3>2
  <2> HIDE DEF one, K
  <2>7. K(q) \in Seq(StoredRow) /\ ToSet(K(q)) = {x \in ToSet(q) : Still(poses, x)}
        /\ (IsInjective(q) => IsInjective(K(q))) /\ (Sorted(q) => Sorted(K(q)))
    BY <2>1
  <2>8. K(q) \o one \in Seq(StoredRow) /\ ToSet(K(q) \o one) = ToSet(K(q)) \cup ToSet(one)
    BY <2>3, <2>7, ConcatProperties, SetOfConcat
  <2>9. IsInjective(K(q)) /\ ToSet(K(q)) \cap ToSet(one) = {} => IsInjective(K(q) \o one)
    BY <2>3, <2>7, InjectiveConcat
  <2>10. ToSet(K(q) \o one) = {x \in ToSet(Append(q, r)) : Still(poses, x)}
    BY <2>3, <2>5, <2>7, <2>8
  <2>11. IsInjective(Append(q, r)) => IsInjective(K(q) \o one)
    BY <2>3, <2>6, <2>7, <2>9
  <2>12. Sorted(Append(q, r)) => Sorted(K(q) \o one)
    <3>1. InTurn(q \o <<r>>, q, <<r>>) /\ InTurn(K(q) \o one, K(q), one)
      BY <2>1, <2>3, <2>4, <2>7, SortedConcat
    <3>2. Sorted(one) /\ ToSet(one) \subseteq ToSet(<<r>>)
      <4>1. one = <<r>> \/ one = <<>>
        BY DEF one
      <4> QED
        BY <4>1 DEF Sorted, ToSet
    <3>3. Sorted(q \o <<r>>) => Sorted(q) /\ NotAfter(ToSet(q), ToSet(<<r>>))
      BY <3>1 DEF InTurn
    <3>4. NotAfter(ToSet(q), ToSet(<<r>>)) => NotAfter(ToSet(K(q)), ToSet(one))
      BY <2>7, <3>2 DEF NotAfter
    <3> QED
      BY <2>4, <2>7, <3>1, <3>2, <3>3, <3>4 DEF InTurn
  <2> QED
    BY <2>2, <2>4, <2>8, <2>10, <2>11, <2>12 DEF T
<1> HIDE DEF T
<1>3. T = Seq(StoredRow)
  <2>1. T \in SUBSET Seq(StoredRow)
    BY DEF T
  <2> QED
    BY <1>1, <1>2, <2>1, SequencesByAppend
<1> QED
  BY <1>3 DEF T

LEMMA MaxEpochIsMax ==
    ASSUME NEW seg \in SegmentType
    PROVE  /\ MaxEpochOf(seg) \in EpochsOf(seg) \cup {-1}
           /\ MaxEpochOf(seg) \in Int /\ MaxEpochOf(seg) >= -1
           /\ \A e \in EpochsOf(seg) : e \in Nat /\ e <= MaxEpochOf(seg)
<1> DEFINE E == EpochsOf(seg) \cup {-1}
           S == {e + 1 : e \in E}
<1>1. \A e \in EpochsOf(seg) : e \in Nat /\ e <= MaxEpoch
  <2>1. seg.rows \in Seq(StoredRow)
    BY DEF SegmentType
  <2>2. \A i \in DOMAIN seg.rows : seg.rows[i].epoch \in Epoch
    <3>1. DOMAIN seg.rows = 1..Len(seg.rows) /\ \A i \in 1..Len(seg.rows) : seg.rows[i] \in StoredRow
      BY <2>1, LenProperties, ElementOfSeq
    <3> QED
      BY <3>1 DEF StoredRow
  <2> QED
    BY <2>2, KindsAssumption DEF EpochsOf, Epoch
<1>2. MaxEpoch \in Nat
  BY KindsAssumption
<1>3. \A e \in E : e \in Int /\ e + 1 \in Nat /\ e + 1 <= MaxEpoch + 1
  BY <1>1, <1>2
<1> HIDE DEF E
<1>4. S \in SUBSET Nat /\ S # {} /\ \A x \in S : x <= MaxEpoch + 1
  BY <1>3 DEF E
<1>5. PICK m \in S : \A x \in S : x <= m
  <2> HIDE DEF S
  <2> QED
    <3>1. MaxEpoch + 1 \in Nat
      BY <1>2
    <3> QED
      BY <1>4, <3>1, GreatestNatural
<1>6. PICK g \in E : m = g + 1
  OBVIOUS
<1>7. \A e \in E : e <= g
  <2>1. \A e \in E : e + 1 <= g + 1
    BY <1>5, <1>6
  <2> QED
    BY <1>3, <2>1
<1>8. Max(E) \in E /\ \A e \in E : Max(E) >= e
  <2>1. \A e \in E : g >= e
    BY <1>3, <1>7
  <2> QED
    BY <2>1 DEF Max
<1>9. MaxEpochOf(seg) = Max(E)
  BY DEF MaxEpochOf, E
<1> QED
  BY <1>1, <1>3, <1>8, <1>9 DEF E

LEMMA OldestIsSegment ==
    ASSUME NEW segs \in Seq(SegmentType), segs # <<>>
    PROVE  /\ OldestSegment(segs) \in 1..Len(segs)
           /\ \A j \in 1..Len(segs) :
                 \/ MaxEpochOf(segs[OldestSegment(segs)]) < MaxEpochOf(segs[j])
                 \/ /\ MaxEpochOf(segs[OldestSegment(segs)]) = MaxEpochOf(segs[j])
                    /\ OldestSegment(segs) <= j
<1> DEFINE n == Len(segs)
           D == 1..n
           age(i) == MaxEpochOf(segs[i])
           S == {age(i) + 1 : i \in D}
<1>1. n \in Nat \ {0} /\ DOMAIN segs = D /\ \A i \in D : segs[i] \in SegmentType
  BY LenProperties, ElementOfSeq, EmptySeq
<1>2. \A i \in D : age(i) \in Int /\ age(i) + 1 \in Nat
  BY <1>1, MaxEpochIsMax
<1> HIDE DEF age
<1>3. S \in SUBSET Nat /\ S # {}
  <2>1. 1 \in D
    BY <1>1
  <2> QED
    BY <1>2, <2>1
<1>4. PICK m \in S : \A x \in S : m <= x
  <2> HIDE DEF S
  <2> QED
    BY <1>3, LeastNatural
<1> DEFINE L == {i \in D : age(i) + 1 = m}
<1>5. L \in SUBSET Nat /\ L # {}
  BY <1>1
<1>6. PICK g \in L : \A i \in L : g <= i
  <2> HIDE DEF L
  <2> QED
    BY <1>5, LeastNatural
<1>7. g \in D /\ age(g) + 1 = m /\ \A i \in D : age(i) + 1 = m => g <= i
  BY <1>6
<1>8. \A j \in D : age(g) < age(j) \/ (age(g) = age(j) /\ g <= j)
  <2>1. \A j \in D : m <= age(j) + 1
    BY <1>4
  <2> QED
    BY <1>2, <1>7, <2>1
<1> QED
  BY <1>1, <1>7, <1>8 DEF OldestSegment, age

\* The rows of segments are the rows of each of them.
LEMMA RowsAreOfSegments ==
    ASSUME NEW segs \in Seq(SegmentType)
    PROVE  \A r : r \in ToSet(Rows(segs)) <=> \E seg \in ToSet(segs) : r \in ToSet(seg.rows)
<1> DEFINE lists == RowLists(segs)
<1>1. DOMAIN segs = 1..Len(segs) /\ Len(segs) \in Nat
  BY LenProperties
<1>2. /\ lists \in Seq(Seq(StoredRow)) /\ DOMAIN lists = 1..Len(segs)
      /\ \A k \in 1..Len(segs) : lists[k] = segs[k].rows
      /\ Rows(segs) = FlattenSeq(lists)
  BY <1>1, RowListsTyped DEF RowLists
<1> HIDE DEF lists
<1>3. ToSet(Rows(segs)) = UNION {ToSet(q) : q \in ToSet(lists)}
  BY <1>2, SetOfFlatten
<1>4. ToSet(lists) = {segs[k].rows : k \in 1..Len(segs)} /\ ToSet(segs) = {segs[k] : k \in 1..Len(segs)}
  BY <1>1, <1>2 DEF ToSet
<1> QED
  BY <1>3, <1>4

\* A segment knows an epoch of every row it holds, and of no other row.
LEMMA EpochsAreOfRows ==
    ASSUME NEW seg \in SegmentType
    PROVE  EpochsOf(seg) = {r.epoch : r \in ToSet(seg.rows)}
  BY DEF EpochsOf, ToSet

-----------------------------------------------------------------------------
(* One eviction. *)

\* What an evicting call takes from rows in order, it takes from the front.
TrimsFront(s, t) ==
    Sorted(AllRows(s)) =>
        /\ Sorted(AllRows(t))
        /\ ToSet(Window(t)) \subseteq ToSet(Window(s))
        /\ NotAfter(ToSet(Window(s)) \ ToSet(Window(t)), ToSet(Window(t)))
        /\ EndsWith(StoredRow, Window(s), Window(t))

\* What the rows of a store become when some of them are evicted by `poses`: no
\* row appears, none is doubled, and every row still latest is still there.
Keeps(s, t, poses) ==
    /\ StoredRows(t) \subseteq StoredRows(s)
    /\ \A r \in StoredRows(s) : Still(poses, r) => r \in StoredRows(t)
    /\ IsInjective(AllRows(s)) => IsInjective(AllRows(t))
    /\ ToSet(Rows(t.segments)) \subseteq ToSet(Rows(s.segments))
    /\ t.tail = s.tail
    /\ TrimsFront(s, t)

LEMMA RowsAroundSegment ==
    ASSUME NEW segs \in Seq(SegmentType), NEW i \in 1..Len(segs)
    PROVE  /\ RemoveAt(segs, i) \in Seq(SegmentType) /\ Len(RemoveAt(segs, i)) = Len(segs) - 1
           /\ Bytes(segs) = Bytes(RemoveAt(segs, i)) + segs[i].bytes
           /\ segs[i] \in SegmentType
           /\ \E a, b \in Seq(StoredRow) :
                 /\ Rows(segs) = (a \o segs[i].rows) \o b
                 /\ Rows(RemoveAt(segs, i)) = a \o b
                 /\ i = 1 => a = <<>>
                 /\ i # 1 => ToSet(segs[1].rows) \subseteq ToSet(a)
<1> DEFINE before == SubSeq(segs, 1, i - 1)
           behind == SubSeq(segs, i + 1, Len(segs))
           v == segs[i]
<1>1. /\ before \in Seq(SegmentType) /\ behind \in Seq(SegmentType) /\ v \in SegmentType
      /\ segs = Append(before, v) \o behind
      /\ RemoveAt(segs, i) = before \o behind
      /\ Len(RemoveAt(segs, i)) = Len(segs) - 1
  BY SeqAroundPlace
<1>9. IF i = 1 THEN before = <<>> ELSE segs[1] \in ToSet(before)
  <2>1. CASE i = 1
    BY <2>1, SubSeqEmpty
  <2>2. CASE i # 1
    <3>1. 1 \in Int /\ i - 1 \in Int /\ i - 1 >= 1 /\ \A j \in 1..(i - 1) : segs[j] \in SegmentType
      <4>1. Len(segs) \in Nat
        BY LenProperties
      <4>2. \A j \in 1..(i - 1) : j \in 1..Len(segs)
        BY <4>1
      <4> QED
        BY <2>2, <4>1, <4>2, ElementOfSeq
    <3>2. DOMAIN before = 1..(i - 1) /\ before[1] = segs[1]
      BY <3>1, SubSeqProperties
    <3>3. 1 \in DOMAIN before
      BY <3>1, <3>2
    <3> HIDE DEF before
    <3> QED
      BY <2>2, <3>2, <3>3 DEF ToSet
  <2> QED
    BY <2>1, <2>2
<1> HIDE DEF before, behind, v
<1>2. Append(before, v) \in Seq(SegmentType) /\ before \o behind \in Seq(SegmentType)
  BY <1>1, AppendProperties, ConcatProperties
<1>3. /\ Rows(segs) = Rows(Append(before, v)) \o Rows(behind)
      /\ Bytes(segs) = Bytes(Append(before, v)) + Bytes(behind)
  BY <1>1, <1>2, RowsOfConcat, BytesOfConcat
<1>4. /\ Rows(Append(before, v)) = Rows(before) \o v.rows
      /\ Bytes(Append(before, v)) = Bytes(before) + v.bytes
  BY <1>1, RowsOfAppend, BytesOfAppend
<1>5. /\ Rows(before \o behind) = Rows(before) \o Rows(behind)
      /\ Bytes(before \o behind) = Bytes(before) + Bytes(behind)
  BY <1>1, RowsOfConcat, BytesOfConcat
<1>6. /\ Bytes(before) \in Nat /\ Bytes(behind) \in Nat /\ v.bytes \in Nat
      /\ Rows(before) \in Seq(StoredRow) /\ Rows(behind) \in Seq(StoredRow)
  BY <1>1, BytesAreNat, RowsAreRows DEF SegmentType
<1>7. Bytes(segs) = Bytes(RemoveAt(segs, i)) + v.bytes
  BY <1>1, <1>3, <1>4, <1>5, <1>6
<1>8. Rows(segs) = (Rows(before) \o v.rows) \o Rows(behind) /\ Rows(RemoveAt(segs, i)) = Rows(before) \o Rows(behind)
  BY <1>1, <1>3, <1>4, <1>5
<1>10. IF i = 1 THEN Rows(before) = <<>> ELSE ToSet(segs[1].rows) \subseteq ToSet(Rows(before))
  BY <1>1, <1>9, RowsOfNone, RowsAreOfSegments
<1> QED
  BY <1>1, <1>2, <1>6, <1>7, <1>8, <1>10 DEF v

\* Of rows in order, the oldest segment is the first one, or holds none.
LEMMA OldestIsFirst ==
    ASSUME NEW segs \in Seq(SegmentType), segs # <<>>
    PROVE  LET v == segs[OldestSegment(segs)].rows
           IN  \E a, b \in Seq(StoredRow) :
                  /\ Rows(segs) = (a \o v) \o b
                  /\ Rows(RemoveAt(segs, OldestSegment(segs))) = a \o b
                  /\ NotAfter(ToSet(a), ToSet(v)) => ToSet(a) = {} \/ ToSet(v) = {}
<1> DEFINE i == OldestSegment(segs)
           first == segs[1]
           oldest == segs[i]
           v == oldest.rows
<1>1. /\ i \in 1..Len(segs)
      /\ \A j \in 1..Len(segs) :
            \/ MaxEpochOf(segs[i]) < MaxEpochOf(segs[j])
            \/ MaxEpochOf(segs[i]) = MaxEpochOf(segs[j]) /\ i <= j
  BY OldestIsSegment
<1> HIDE DEF i
<1>2. PICK a \in Seq(StoredRow), b \in Seq(StoredRow) :
         /\ Rows(segs) = (a \o segs[i].rows) \o b
         /\ Rows(RemoveAt(segs, i)) = a \o b
         /\ i = 1 => a = <<>>
         /\ i # 1 => ToSet(segs[1].rows) \subseteq ToSet(a)
  BY <1>1, RowsAroundSegment
<1>3. ASSUME NotAfter(ToSet(a), ToSet(v)), i # 1 PROVE ToSet(v) = {}
  <2>1. first \in SegmentType /\ ToSet(first.rows) \subseteq ToSet(a) /\ MaxEpochOf(oldest) < MaxEpochOf(first)
    <3>1. 1 \in 1..Len(segs) /\ ~(i <= 1) /\ Len(segs) \in Nat
      BY <1>1, <1>3, LenProperties
    <3> QED
      BY <1>1, <1>2, <1>3, <3>1, ElementOfSeq
  <2>2. oldest \in SegmentType /\ v = oldest.rows
    BY <1>1, ElementOfSeq
  <2> HIDE DEF first, oldest, v
  <2>3. /\ MaxEpochOf(first) \in EpochsOf(first) \cup {-1}
        /\ MaxEpochOf(oldest) \in Int /\ MaxEpochOf(oldest) >= -1
        /\ \A e \in EpochsOf(oldest) : e \in Nat /\ e <= MaxEpochOf(oldest)
    BY <2>1, <2>2, MaxEpochIsMax
  <2>4. MaxEpochOf(first) \in EpochsOf(first)
    BY <2>1, <2>3
  <2>5. PICK r \in ToSet(first.rows) : r.epoch = MaxEpochOf(first)
    BY <2>1, <2>4, EpochsAreOfRows
  <2>6. SUFFICES ASSUME NEW q \in ToSet(v) PROVE FALSE
    OBVIOUS
  <2>7. r.epoch <= q.epoch
    BY <1>3, <2>1, <2>5 DEF NotAfter
  <2>8. q.epoch \in EpochsOf(oldest)
    BY <2>2, EpochsAreOfRows
  <2>9. MaxEpochOf(first) \in Int
    BY <2>1, MaxEpochIsMax
  <2> QED
    BY <2>1, <2>3, <2>5, <2>7, <2>8, <2>9
<1>4. i = 1 => ToSet(a) = {}
  BY <1>2 DEF ToSet
<1> HIDE DEF first
<1>5. NotAfter(ToSet(a), ToSet(v)) => ToSet(a) = {} \/ ToSet(v) = {}
  BY <1>3, <1>4
<1> QED
  BY <1>2, <1>5 DEF i

\* A store's rows in order, `old` pinned and `v` in the victim: what is left of
\* them is in order, and what went was in front.
LEMMA FrontTrimmed ==
    ASSUME NEW old \in Seq(StoredRow), NEW a \in Seq(StoredRow), NEW v \in Seq(StoredRow),
           NEW b \in Seq(StoredRow), NEW c \in Seq(StoredRow), NEW kept \in Seq(StoredRow),
           NotAfter(ToSet(a), ToSet(v)) => ToSet(a) = {} \/ ToSet(v) = {},
           ToSet(kept) \subseteq ToSet(old) \cup ToSet(v),
           Sorted(old) /\ Sorted(v) /\ NotAfter(ToSet(old), ToSet(v)) => Sorted(kept),
           Sorted((old \o ((a \o v) \o b)) \o c)
    PROVE  /\ Sorted((kept \o (a \o b)) \o c)
           /\ ToSet((a \o b) \o c) \subseteq ToSet(((a \o v) \o b) \o c)
           /\ NotAfter(ToSet(((a \o v) \o b) \o c) \ ToSet((a \o b) \o c), ToSet((a \o b) \o c))
           /\ EndsWith(StoredRow, ((a \o v) \o b) \o c, (a \o b) \o c)
<1> DEFINE av == a \o v
           mid == av \o b
           left == a \o b
           before == old \o mid
           after == kept \o left
           A == ToSet(a)
           B == ToSet(b)
           C == ToSet(c)
           V == ToSet(v)
           O == ToSet(old)
           K == ToSet(kept)
<1>1. /\ av \in Seq(StoredRow) /\ OfTwo(av, a, v) /\ InTurn(av, a, v)
      /\ left \in Seq(StoredRow) /\ OfTwo(left, a, b) /\ InTurn(left, a, b)
  BY TwoPartsOf, SortedConcat
<1> HIDE DEF av, left
<1>2. mid \in Seq(StoredRow) /\ OfTwo(mid, av, b) /\ InTurn(mid, av, b)
  BY <1>1, TwoPartsOf, SortedConcat
<1> HIDE DEF mid
<1>3. /\ before \in Seq(StoredRow) /\ OfTwo(before, old, mid) /\ InTurn(before, old, mid)
      /\ after \in Seq(StoredRow) /\ OfTwo(after, kept, left) /\ InTurn(after, kept, left)
  BY <1>1, <1>2, TwoPartsOf, SortedConcat
<1> HIDE DEF before, after
<1>4. /\ OfTwo(mid \o c, mid, c) /\ OfTwo(left \o c, left, c)
      /\ InTurn(before \o c, before, c) /\ InTurn(after \o c, after, c)
  BY <1>1, <1>2, <1>3, TwoPartsOf, SortedConcat
<1>5. /\ ToSet(av) = A \cup V /\ ToSet(left) = A \cup B /\ ToSet(mid) = A \cup V \cup B
      /\ ToSet(before) = O \cup A \cup V \cup B /\ ToSet(after) = K \cup A \cup B
      /\ ToSet(mid \o c) = A \cup V \cup B \cup C /\ ToSet(left \o c) = A \cup B \cup C
  BY <1>1, <1>2, <1>3, <1>4 DEF OfTwo
<1>6. Sorted(before \o c)
  BY DEF before, mid, av
<1>7. /\ Sorted(old) /\ Sorted(a) /\ Sorted(v) /\ Sorted(b) /\ Sorted(c)
      /\ NotAfter(A, V) /\ NotAfter(A \cup V, B) /\ NotAfter(O, A \cup V \cup B)
      /\ NotAfter(O \cup A \cup V \cup B, C)
  BY <1>1, <1>2, <1>3, <1>4, <1>5, <1>6 DEF InTurn
<1>8. (A = {} \/ V = {}) /\ K \subseteq O \cup V
  BY <1>7
<1>9. Sorted(kept)
  BY <1>7 DEF NotAfter
<1>10. EndsWith(StoredRow, (av \o b) \o c, left \o c)
  BY <1>8, CutFront DEF av, left
<1> HIDE DEF A, B, C, V, O, K
<1>11. /\ NotAfter(A, B) /\ NotAfter(K, A \cup B) /\ NotAfter(K \cup A \cup B, C)
       /\ NotAfter((A \cup V \cup B \cup C) \ (A \cup B \cup C), A \cup B \cup C)
  BY <1>7, <1>8 DEF NotAfter
<1>12. Sorted(left)
  BY <1>1, <1>7, <1>11 DEF InTurn, A, B
<1>13. Sorted(after)
  BY <1>3, <1>5, <1>9, <1>11, <1>12 DEF InTurn, K
<1>14. Sorted(after \o c)
  BY <1>4, <1>5, <1>7, <1>11, <1>13 DEF InTurn, C
<1>15. ToSet(left \o c) \subseteq ToSet(mid \o c) /\ NotAfter(ToSet(mid \o c) \ ToSet(left \o c), ToSet(left \o c))
  BY <1>5, <1>11
<1> QED
  BY <1>14, <1>15, <1>10 DEF after, left, mid, av

LEMMA EvictKeepsStore ==
    ASSUME NEW s \in StoreType, Balanced(s), s.segments # <<>>, NEW poses
    PROVE  LET t == EvictOldest(s, poses)
           IN  /\ t \in StoreType /\ Balanced(t)
               /\ Len(t.segments) = Len(s.segments) - 1
               /\ Keeps(s, t, poses)
               /\ \A r \in ToSet(PinnedRows(t)) : Still(poses, r)
<1> DEFINE i == OldestSegment(s.segments)
           victim == s.segments[i]
           survivors == StillLatest(poses, victim.rows)
           old == PinnedRows(s)
           kept == IF s.pinned = None THEN survivors ELSE StillLatest(poses, s.pinned.rows \o survivors)
           pinned == IF kept = <<>> THEN None ELSE Copied(kept)
           rest == RemoveAt(s.segments, i)
           held == s.resident - victim.bytes - PinnedBytes(s) + (IF pinned = None THEN 0 ELSE pinned.bytes)
           t == EvictOldest(s, poses)
<1>1. /\ s.segments \in Seq(SegmentType) /\ s.tail \in Seq(SegmentType) /\ s.resident \in Int
      /\ s.pinned \in SegmentType \cup {None}
  BY DEF StoreType
<1>2. i \in 1..Len(s.segments)
  BY <1>1, OldestIsSegment
<1>3. t = [s EXCEPT !.segments = rest, !.pinned = pinned, !.resident = held]
  BY DEF EvictOldest, PinnedBytes
<1> HIDE DEF i
<1>4. /\ rest \in Seq(SegmentType) /\ Len(rest) = Len(s.segments) - 1
      /\ Bytes(s.segments) = Bytes(rest) + victim.bytes /\ victim \in SegmentType
  BY <1>1, <1>2, RowsAroundSegment
<1>5. PICK a \in Seq(StoredRow), b \in Seq(StoredRow) :
         /\ Rows(s.segments) = (a \o victim.rows) \o b /\ Rows(rest) = a \o b
         /\ NotAfter(ToSet(a), ToSet(victim.rows)) => ToSet(a) = {} \/ ToSet(victim.rows) = {}
  <2> DEFINE segs == s.segments
  <2>1. segs \in Seq(SegmentType) /\ segs # <<>>
    BY <1>1
  <2> HIDE DEF segs
  <2>2. LET w == segs[OldestSegment(segs)].rows
        IN  \E a, b \in Seq(StoredRow) :
               /\ Rows(segs) = (a \o w) \o b
               /\ Rows(RemoveAt(segs, OldestSegment(segs))) = a \o b
               /\ NotAfter(ToSet(a), ToSet(w)) => ToSet(a) = {} \/ ToSet(w) = {}
    BY <2>1, OldestIsFirst
  <2> QED
    BY <2>2 DEF segs, i
<1> HIDE DEF victim, rest
<1> DEFINE v == victim.rows
           c == Rows(s.tail)
<1>6. v \in Seq(StoredRow) /\ old \in Seq(StoredRow) /\ c \in Seq(StoredRow) /\ PinnedBytes(s) \in Nat
      /\ victim.bytes \in Nat /\ Bytes(rest) \in Nat /\ Bytes(s.segments) \in Nat /\ Bytes(s.tail) \in Nat
  BY <1>4, StoreInParts, BytesAreNat DEF SegmentType
<1> HIDE DEF v, c, old
<1>7. /\ survivors \in Seq(StoredRow) /\ ToSet(survivors) = {r \in ToSet(v) : Still(poses, r)}
      /\ IsInjective(v) => IsInjective(survivors)
      /\ Sorted(v) => Sorted(survivors)
  BY <1>6, StillLatestKeeps DEF v
<1> HIDE DEF survivors
<1>8. /\ kept \in Seq(StoredRow)
      /\ ToSet(kept) = {r \in ToSet(old) \cup ToSet(v) : Still(poses, r)}
      /\ IsInjective(old) /\ IsInjective(v) /\ ToSet(old) \cap ToSet(v) = {} => IsInjective(kept)
      /\ Sorted(old) /\ Sorted(v) /\ NotAfter(ToSet(old), ToSet(v)) => Sorted(kept)
  <2>1. CASE s.pinned = None
    <3>1. old = <<>> /\ kept = survivors
      BY <2>1 DEF old, PinnedRows
    <3>2. ToSet(old) = {}
      BY <3>1 DEF ToSet
    <3> QED
      BY <1>7, <3>1, <3>2
  <2>2. CASE s.pinned # None
    <3>1. kept = StillLatest(poses, old \o survivors)
      BY <2>2 DEF old, PinnedRows
    <3>2. /\ old \o survivors \in Seq(StoredRow)
          /\ ToSet(old \o survivors) = ToSet(old) \cup ToSet(survivors)
          /\ IsInjective(old) /\ IsInjective(survivors) /\ ToSet(old) \cap ToSet(survivors) = {}
                => IsInjective(old \o survivors)
          /\ InTurn(old \o survivors, old, survivors)
      BY <1>6, <1>7, ConcatProperties, SetOfConcat, InjectiveConcat, SortedConcat
    <3> HIDE DEF kept
    <3>3. /\ kept \in Seq(StoredRow)
          /\ ToSet(kept) = {r \in ToSet(old) \cup ToSet(survivors) : Still(poses, r)}
          /\ IsInjective(old \o survivors) => IsInjective(kept)
          /\ Sorted(old \o survivors) => Sorted(kept)
      BY <3>1, <3>2, StillLatestKeeps
    <3>4. Sorted(old) /\ Sorted(v) /\ NotAfter(ToSet(old), ToSet(v)) => Sorted(old \o survivors)
      BY <1>7, <3>2 DEF InTurn, NotAfter
    <3> QED
      BY <1>7, <3>2, <3>3, <3>4
  <2> QED
    BY <2>1, <2>2
<1> HIDE DEF kept
<1>9. pinned \in SegmentType \cup {None}
  BY <1>8, CopiedIsTyped
<1>10. held \in Int
  <2>1. pinned # None => pinned.bytes \in Nat
    BY <1>9 DEF SegmentType
  <2> HIDE DEF pinned
  <2> QED
    BY <1>1, <1>6, <2>1, SMTT(30)
<1>11. t \in StoreType
  <2> HIDE DEF pinned, held
  <2>1. [s EXCEPT !.segments = rest, !.pinned = pinned, !.resident = held] \in StoreType
    BY <1>4, <1>9, <1>10, Zenon DEF StoreType
  <2> QED
    BY <1>3, <2>1
<1>12. t.segments = rest /\ t.tail = s.tail /\ t.pinned = pinned /\ t.resident = held
  BY <1>3 DEF StoreType
<1> HIDE DEF t
<1>13. PinnedRows(t) = kept
  <2>1. CASE kept = <<>>
    BY <1>12, <2>1 DEF PinnedRows
  <2>2. CASE kept # <<>>
    <3>1. pinned = Copied(kept) /\ Copied(kept) \in SegmentType /\ Copied(kept).rows = kept
      BY <1>8, <2>2, CopiedIsTyped
    <3>2. pinned # None
      BY <3>1, LedgerAssumption
    <3> QED
      BY <1>12, <3>1, <3>2 DEF PinnedRows
  <2> QED
    BY <2>1, <2>2
<1>14. held = s.resident - victim.bytes - PinnedBytes(s) + PinnedBytes(t) /\ PinnedBytes(t) \in Nat
  <2>1. PinnedBytes(t) = IF pinned = None THEN 0 ELSE pinned.bytes
    BY <1>12 DEF PinnedBytes
  <2> QED
    BY <1>11, <2>1, StoreInParts
<1> HIDE DEF pinned, held
<1>15. Balanced(t)
  <2>1. Bytes(AllSegments(t)) = PinnedBytes(t) + Bytes(rest) + Bytes(s.tail)
    BY <1>11, <1>12, StoreInParts
  <2>2. s.resident = PinnedBytes(s) + Bytes(s.segments) + Bytes(s.tail)
    BY StoreInParts DEF Balanced
  <2>3. t.resident = s.resident - victim.bytes - PinnedBytes(s) + PinnedBytes(t)
    BY <1>12, <1>14
  <2>4. Bytes(s.segments) = Bytes(rest) + victim.bytes
    BY <1>4
  <2>5. /\ s.resident \in Int /\ victim.bytes \in Int /\ PinnedBytes(s) \in Int /\ PinnedBytes(t) \in Int
        /\ Bytes(rest) \in Int /\ Bytes(s.tail) \in Int /\ Bytes(s.segments) \in Int
    BY <1>1, <1>6, <1>14
  <2>6. t.resident = Bytes(AllSegments(t))
    <3> DEFINE w == victim.bytes
               x == Bytes(rest)
               y == Bytes(s.segments)
               z == Bytes(s.tail)
               p == PinnedBytes(s)
               q == PinnedBytes(t)
               l == Bytes(AllSegments(t))
               m == s.resident
               n == t.resident
    <3>1. /\ l = q + x + z /\ m = p + y + z /\ n = m - w - p + q /\ y = x + w
          /\ m \in Int /\ w \in Int /\ p \in Int /\ q \in Int /\ x \in Int /\ z \in Int /\ y \in Int
      BY <2>1, <2>2, <2>3, <2>4, <2>5
    <3> HIDE DEF w, x, y, z, p, q, l, m, n
    <3>2. n = l
      BY <3>1
    <3> QED
      BY <3>2 DEF n, l
  <2> QED
    BY <2>6 DEF Balanced
<1>16. AllRows(s) = (old \o ((a \o v) \o b)) \o c /\ AllRows(t) = (kept \o (a \o b)) \o c
  <2>1. AllRows(s) = (old \o ((a \o v) \o b)) \o c
    BY <1>5, StoreInParts DEF old, c, v
  <2>2. AllRows(t) = (kept \o (a \o b)) \o c
    BY <1>5, <1>11, <1>12, <1>13, StoreInParts DEF c
  <2> QED
    BY <2>1, <2>2
<1> DEFINE mid == (a \o v) \o b
           left == a \o b
<1>17. /\ mid \in Seq(StoredRow) /\ left \in Seq(StoredRow)
       /\ ToSet(mid) = ToSet(a) \cup ToSet(v) \cup ToSet(b)
       /\ ToSet(left) = ToSet(a) \cup ToSet(b)
       /\ IsInjective(mid) <=> /\ IsInjective(a) /\ IsInjective(v) /\ IsInjective(b)
                               /\ ToSet(a) \cap ToSet(v) = {} /\ ToSet(a) \cap ToSet(b) = {}
                               /\ ToSet(v) \cap ToSet(b) = {}
       /\ IsInjective(left) <=> IsInjective(a) /\ IsInjective(b) /\ ToSet(a) \cap ToSet(b) = {}
  <2>1. v \in Seq(StoredRow)
    BY <1>6
  <2>2. mid \in Seq(StoredRow) /\ OfThree(mid, a, v, b)
    BY <2>1, ThreePartsOf
  <2>3. left \in Seq(StoredRow) /\ OfTwo(left, a, b)
    BY TwoPartsOf
  <2> HIDE DEF mid, left
  <2> QED
    BY <2>2, <2>3 DEF OfTwo, OfThree
<1> HIDE DEF mid, left
<1>18. /\ StoredRows(s) = ToSet(old) \cup ToSet(mid) \cup ToSet(c)
       /\ IsInjective(AllRows(s)) <=> /\ IsInjective(old) /\ IsInjective(mid) /\ IsInjective(c)
                                      /\ ToSet(old) \cap ToSet(mid) = {} /\ ToSet(old) \cap ToSet(c) = {}
                                      /\ ToSet(mid) \cap ToSet(c) = {}
  <2>1. AllRows(s) = (old \o mid) \o c
    BY <1>16 DEF mid
  <2>2. old \in Seq(StoredRow) /\ mid \in Seq(StoredRow) /\ c \in Seq(StoredRow)
    BY <1>6, <1>17
  <2>3. OfThree((old \o mid) \o c, old, mid, c)
    BY <2>2, ThreePartsOf
  <2> QED
    BY <2>1, <2>3 DEF StoredRows, OfThree
<1>19. /\ StoredRows(t) = ToSet(kept) \cup ToSet(left) \cup ToSet(c)
       /\ IsInjective(AllRows(t)) <=> /\ IsInjective(kept) /\ IsInjective(left) /\ IsInjective(c)
                                      /\ ToSet(kept) \cap ToSet(left) = {} /\ ToSet(kept) \cap ToSet(c) = {}
                                      /\ ToSet(left) \cap ToSet(c) = {}
  <2>1. AllRows(t) = (kept \o left) \o c
    BY <1>16 DEF left
  <2>2. kept \in Seq(StoredRow) /\ left \in Seq(StoredRow) /\ c \in Seq(StoredRow)
    BY <1>6, <1>8, <1>17
  <2>3. OfThree((kept \o left) \o c, kept, left, c)
    BY <2>2, ThreePartsOf
  <2> QED
    BY <2>1, <2>3 DEF StoredRows, OfThree
<1>20. StoredRows(t) \subseteq StoredRows(s) /\ \A r \in StoredRows(s) : Still(poses, r) => r \in StoredRows(t)
  BY <1>8, <1>17, <1>18, <1>19
<1>21. ASSUME IsInjective(AllRows(s)) PROVE IsInjective(AllRows(t))
  <2>1. IsInjective(kept)
    <3>1. ToSet(old) \cap ToSet(v) = {}
      BY <1>17, <1>18, <1>21
    <3> QED
      BY <1>8, <1>17, <1>18, <1>21, <3>1
  <2>2. IsInjective(left) /\ IsInjective(c)
    BY <1>17, <1>18, <1>21
  <2>3. ToSet(kept) \cap ToSet(left) = {}
    BY <1>8, <1>17, <1>18, <1>21
  <2>4. ToSet(kept) \cap ToSet(c) = {} /\ ToSet(left) \cap ToSet(c) = {}
    BY <1>8, <1>17, <1>18, <1>21
  <2> QED
    BY <1>19, <2>1, <2>2, <2>3, <2>4
<1>22. Keeps(s, t, poses)
  <2>1. ToSet(Rows(t.segments)) \subseteq ToSet(Rows(s.segments))
    <3>1. Rows(t.segments) = left /\ Rows(s.segments) = mid
      BY <1>5, <1>12 DEF v, left, mid
    <3> QED
      BY <1>17, <3>1
  <2>2. TrimsFront(s, t)
    <3>1. v \in Seq(StoredRow) /\ old \in Seq(StoredRow) /\ c \in Seq(StoredRow) /\ kept \in Seq(StoredRow)
      BY <1>6, <1>8
    <3>2. /\ NotAfter(ToSet(a), ToSet(v)) => ToSet(a) = {} \/ ToSet(v) = {}
          /\ ToSet(kept) \subseteq ToSet(old) \cup ToSet(v)
          /\ Sorted(old) /\ Sorted(v) /\ NotAfter(ToSet(old), ToSet(v)) => Sorted(kept)
      BY <1>5, <1>8 DEF v
    <3>3. ASSUME Sorted((old \o ((a \o v) \o b)) \o c)
          PROVE  /\ Sorted((kept \o (a \o b)) \o c)
                 /\ ToSet((a \o b) \o c) \subseteq ToSet(((a \o v) \o b) \o c)
                 /\ NotAfter(ToSet(((a \o v) \o b) \o c) \ ToSet((a \o b) \o c), ToSet((a \o b) \o c))
                 /\ EndsWith(StoredRow, ((a \o v) \o b) \o c, (a \o b) \o c)
      BY <3>1, <3>2, <3>3, FrontTrimmed
    <3>4. Window(s) = ((a \o v) \o b) \o c /\ Window(t) = (a \o b) \o c
      BY <1>5, <1>12 DEF Window, v, c
    <3> QED
      BY <1>16, <3>3, <3>4 DEF TrimsFront
  <2> QED
    BY <1>12, <1>20, <1>21, <2>1, <2>2 DEF Keeps
<1>23. \A r \in ToSet(PinnedRows(t)) : Still(poses, r)
  BY <1>8, <1>13
<1> QED
  BY <1>4, <1>11, <1>12, <1>15, <1>22, <1>23 DEF t

LEMMA WindowIsSeq == ASSUME NEW s \in StoreType PROVE Window(s) \in Seq(StoredRow)
<1>1. Rows(s.segments) \in Seq(StoredRow) /\ Rows(s.tail) \in Seq(StoredRow)
  BY StoreInParts
<1> QED
  BY <1>1, ConcatProperties DEF Window

LEMMA KeepsItself == ASSUME NEW s \in StoreType, NEW poses PROVE Keeps(s, s, poses)
<1> DEFINE w == Window(s)
<1>1. EndsWith(StoredRow, w, w)
  <2>1. w \in Seq(StoredRow)
    BY WindowIsSeq
  <2> HIDE DEF w
  <2>2. w = <<>> \o w /\ <<>> \in Seq(StoredRow)
    BY <2>1, ConcatEmptySeq, EmptySeq
  <2> QED
    BY <2>2 DEF EndsWith
<1> QED
  BY <1>1 DEF Keeps, TrimsFront, NotAfter

LEMMA KeepsOnward ==
    ASSUME NEW poses, NEW s, NEW t, NEW u \in StoreType, Keeps(s, t, poses), Keeps(t, u, poses)
    PROVE  Keeps(s, u, poses)
<1>1. EndsWith(StoredRow, Window(s), Window(t)) /\ EndsWith(StoredRow, Window(t), Window(u))
      => EndsWith(StoredRow, Window(s), Window(u))
  BY WindowIsSeq, EndsWithOnward
<1>2. TrimsFront(s, u)
  BY <1>1 DEF Keeps, TrimsFront, NotAfter
<1> QED
  BY <1>2 DEF Keeps

\* The stores after 0 to m evictions.
Evicting(f, s, poses, m) == f = [n \in 0..m |-> IF n = 0 THEN s ELSE EvictOldest(f[n - 1], poses)]

LEMMA EvictingExists ==
    ASSUME NEW s, NEW poses, NEW n \in Nat
    PROVE  \E f : Evicting(f, s, poses, n)
<1> DEFINE T == {m \in Nat : \E f : Evicting(f, s, poses, m)}
<1>1. 0 \in T
  <2>1. Evicting([i \in 0..0 |-> s], s, poses, 0)
    BY DEF Evicting
  <2> QED
    BY <2>1
<1>2. ASSUME NEW m \in T PROVE m + 1 \in T
  <2>1. PICK f : Evicting(f, s, poses, m)
    OBVIOUS
  <2> DEFINE g == [i \in 0..(m + 1) |-> IF i <= m THEN f[i] ELSE EvictOldest(f[i - 1], poses)]
  <2>2. m \in Nat
    OBVIOUS
  <2>3. ASSUME NEW i \in 0..(m + 1)
        PROVE  g[i] = IF i = 0 THEN s ELSE EvictOldest(g[i - 1], poses)
    <3>1. CASE i <= m
      <4>1. i \in 0..m /\ (i # 0 => i - 1 \in 0..m /\ i - 1 \in 0..(m + 1) /\ i - 1 <= m)
        BY <2>2, <3>1
      <4>2. f[i] = IF i = 0 THEN s ELSE EvictOldest(f[i - 1], poses)
        BY <2>1, <4>1 DEF Evicting
      <4> QED
        BY <3>1, <4>1, <4>2
    <3>2. CASE ~(i <= m)
      <4>1. i # 0 /\ i - 1 \in 0..(m + 1) /\ i - 1 <= m
        BY <2>2, <3>2
      <4> QED
        BY <3>2, <4>1
    <3> QED
      BY <3>1, <3>2
  <2>4. Evicting(g, s, poses, m + 1)
    <3>1. g = [i \in 0..(m + 1) |-> g[i]]
      OBVIOUS
    <3> HIDE DEF g
    <3> QED
      BY <2>3, <3>1 DEF Evicting
  <2> QED
    BY <2>2, <2>4
<1> HIDE DEF T
<1>3. T = Nat
  <2>1. T \in SUBSET Nat
    BY DEF T
  <2> QED
    BY <1>1, <1>2, <2>1, NaturalsByStep
<1> QED
  BY <1>3 DEF T

\* What n evictions leave of s.
LeftOf(s, t, poses, n) ==
    /\ t \in StoreType /\ Balanced(t)
    /\ Len(t.segments) = Len(s.segments) - n
    /\ Keeps(s, t, poses)
    /\ n = 0 => t = s
    /\ n > 0 => \A r \in ToSet(PinnedRows(t)) : Still(poses, r)

LEMMA EvictingKeeps ==
    ASSUME NEW s \in StoreType, Balanced(s), NEW poses, NEW m \in Nat, m <= Len(s.segments),
           NEW f, Evicting(f, s, poses, m), NEW n \in 0..m
    PROVE  LeftOf(s, f[n], poses, n)
<1> DEFINE T == {k \in Nat : k <= m => LeftOf(s, f[k], poses, k)}
<1>1. Len(s.segments) \in Nat
  BY LenProperties DEF StoreType
<1>2. 0 \in T
  <2>1. f[0] = s
    BY DEF Evicting
  <2>2. LeftOf(s, s, poses, 0)
    BY <1>1, KeepsItself DEF LeftOf
  <2> QED
    BY <2>1, <2>2
<1>3. ASSUME NEW k \in T PROVE k + 1 \in T
  <2>1. k \in Nat /\ (k <= m => LeftOf(s, f[k], poses, k))
    OBVIOUS
  <2> HIDE DEF T
  <2>2. ASSUME k + 1 <= m PROVE LeftOf(s, f[k + 1], poses, k + 1)
    <3> DEFINE t == f[k]
               u == EvictOldest(t, poses)
    <3>1. k <= m /\ k + 1 \in 0..m /\ k + 1 # 0 /\ (k + 1) - 1 = k
      BY <2>1, <2>2
    <3>2. f[k + 1] = u
      BY <3>1 DEF Evicting
    <3>3. t \in StoreType /\ Balanced(t) /\ Len(t.segments) = Len(s.segments) - k /\ Keeps(s, t, poses)
      BY <2>1, <3>1 DEF LeftOf
    <3> HIDE DEF t
    <3>4. t.segments # <<>>
      <4>1. Len(t.segments) # 0
        BY <1>1, <2>1, <2>2, <3>3
      <4> QED
        BY <4>1, EmptySeq
    <3>5. /\ u \in StoreType /\ Balanced(u) /\ Len(u.segments) = Len(t.segments) - 1
          /\ Keeps(t, u, poses) /\ \A r \in ToSet(PinnedRows(u)) : Still(poses, r)
      BY <3>3, <3>4, EvictKeepsStore
    <3> HIDE DEF u
    <3>6. Keeps(s, u, poses)
      BY <3>3, <3>5, KeepsOnward
    <3>7. Len(u.segments) = Len(s.segments) - (k + 1)
      BY <1>1, <2>1, <3>3, <3>5
    <3> QED
      BY <2>1, <3>1, <3>2, <3>5, <3>6, <3>7 DEF LeftOf
  <2> QED
    BY <2>1, <2>2 DEF T
<1> HIDE DEF T
<1>4. T = Nat
  <2>1. T \in SUBSET Nat
    BY DEF T
  <2> QED
    BY <1>2, <1>3, <2>1, NaturalsByStep
<1>5. n \in T /\ n <= m
  BY <1>4
<1> QED
  BY <1>5 DEF T

LEMMA MinIsLeast ==
    ASSUME NEW S \in SUBSET Nat, S # {}
    PROVE  Min(S) \in S /\ \A x \in S : Min(S) <= x
<1>1. PICK m \in S : \A x \in S : m <= x
  BY LeastNatural
<1> QED
  BY <1>1 DEF Min

\* The eviction loop: it keeps every row that is still latest; when it evicted at
\* all, every pinned row is one of them; and when no eviction fails it stops
\* within the limit or without a sealed segment.
LEMMA LimitKeepsStore ==
    ASSUME NEW s \in StoreType, Balanced(s), NEW poses,
           NEW lim \in Nat \cup {None}, NEW evictable \in Nat \cup {None}
    PROVE  LET t == EnforceLimit(s, lim, poses, evictable)
           IN  /\ t \in StoreType /\ Balanced(t) /\ Keeps(s, t, poses)
               /\ \/ t = s
                  \/ /\ Len(t.segments) < Len(s.segments)
                     /\ \A r \in ToSet(PinnedRows(t)) : Still(poses, r)
               /\ evictable = None /\ lim # None => t.resident <= lim \/ t.segments = <<>>
<1>1. CASE lim = None
  BY <1>1, KeepsItself DEF EnforceLimit
<1>2. CASE lim # None
  <2> DEFINE sealed == Len(s.segments)
             most == IF evictable = None THEN sealed ELSE Min({evictable, sealed})
             f == CHOOSE g : Evicting(g, s, poses, most)
             within == {n \in 0..most : f[n].resident <= lim}
             m == Min(within \cup {most})
             t == f[m]
  <2>1. sealed \in Nat
    BY LenProperties DEF StoreType
  <2>2. most \in Nat /\ most <= sealed
    BY <2>1, MinOfTwo
  <2>3. EnforceLimit(s, lim, poses, evictable) = t
    BY <1>2 DEF EnforceLimit, Evicting
  <2> HIDE DEF most
  <2>4. Evicting(f, s, poses, most)
    BY <2>2, EvictingExists
  <2> HIDE DEF f
  <2>5. within \cup {most} \in SUBSET Nat /\ within \cup {most} # {}
    BY <2>2
  <2> HIDE DEF within
  <2>6. m \in within \cup {most}
    BY <2>5, MinIsLeast
  <2> HIDE DEF m
  <2>7. m \in 0..most /\ (t.resident <= lim \/ m = most)
    BY <2>2, <2>6 DEF within
  <2>8. LeftOf(s, t, poses, m)
    BY <2>1, <2>2, <2>4, <2>7, EvictingKeeps
  <2> HIDE DEF t
  <2>9. /\ t \in StoreType /\ Balanced(t) /\ Len(t.segments) = Len(s.segments) - m /\ Keeps(s, t, poses)
        /\ m = 0 => t = s
        /\ m > 0 => \A r \in ToSet(PinnedRows(t)) : Still(poses, r)
    BY <2>8 DEF LeftOf
  <2>10. m > 0 => Len(t.segments) < Len(s.segments)
    BY <2>1, <2>2, <2>7, <2>9
  <2>11. evictable = None => t.resident <= lim \/ t.segments = <<>>
    <3>1. ASSUME evictable = None, m = most PROVE t.segments = <<>>
      <4>1. Len(t.segments) = 0
        BY <2>1, <2>9, <3>1 DEF most
      <4> QED
        BY <2>9, <4>1, EmptySeq DEF StoreType
    <3> QED
      BY <2>7, <3>1
  <2>12. m = 0 \/ m > 0
    BY <2>2, <2>7
  <2> QED
    BY <2>3, <2>9, <2>10, <2>11, <2>12
<1> QED
  BY <1>1, <1>2

-----------------------------------------------------------------------------
(* The pose cache. *)

\* The cache holds, for each entity, one of the newest of the given rows.
IsNewest(poses, rows) ==
    \A c \in Id :
        IF poses[c] = None THEN OfEntity(rows, c) = {}
        ELSE \E r \in NewestOf(OfEntity(rows, c)) :
                poses[c] = [parent |-> r.frame, pose |-> r.pose, epoch |-> r.epoch]

\* The pose of a row.
PoseOf(r) == [parent |-> r.frame, pose |-> r.pose, epoch |-> r.epoch]

LEMMA RowNumbers == \A r \in StoredRow : r.epoch \in Nat /\ r.priority \in Nat
<1>1. Priorities \subseteq Nat /\ Epoch \subseteq Nat
  BY LedgerAssumption DEF Epoch
<1> QED
  BY <1>1 DEF StoredRow

LEMMA RowsAreTyped ==
    ASSUME NEW batch \in Seq(StoredRow)
    PROVE  TypedRows(batch) /\ \A r \in DOMAIN batch : batch[r] \in StoredRow
<1>1. Len(batch) \in Nat /\ DOMAIN batch = 1..Len(batch) /\ \A i \in 1..Len(batch) : batch[i] \in StoredRow
  BY LenProperties, ElementOfSeq
<1>2. IsFiniteSet(DOMAIN batch)
  BY <1>1, FS_Interval
<1> QED
  BY <1>1, <1>2 DEF TypedRows, StoredRow

\* What a batch makes of one entity's entry.
LEMMA CacheMoves ==
    ASSUME NEW poses, NEW batch \in Seq(StoredRow), NEW c \in Id
    PROVE  LET now == UpdatePoseCache(poses, batch)[c]
           IN  IF c \notin IdsIn(batch) THEN now = poses[c]
               ELSE \E best \in ToSet(batch) :
                       /\ best = batch[BestRow(batch, c)] /\ BestRow(batch, c) \in RowsOf(batch, c)
                       /\ best \in StoredRow /\ best.id = c /\ best.epoch \in Nat
                       /\ PoseOf(best) \in Pose /\ PoseOf(best) # None
                       /\ \A q \in ToSet(batch) : q.id = c => q.epoch <= best.epoch
                       /\ now = IF poses[c] # None /\ best.epoch <= poses[c].epoch
                                THEN poses[c] ELSE PoseOf(best)
<1>1. CASE c \notin IdsIn(batch)
  BY <1>1 DEF UpdatePoseCache
<1>2. CASE c \in IdsIn(batch)
  <2> DEFINE best == batch[BestRow(batch, c)]
             now == UpdatePoseCache(poses, batch)[c]
  <2>1. RowsOf(batch, c) # {}
    BY <1>2 DEF IdsIn, RowsOf
  <2>2. /\ BestRow(batch, c) \in RowsOf(batch, c)
        /\ \A q \in RowsOf(batch, c) : batch[q].epoch <= best.epoch
    BY <2>1, BestRowIsYoungest, RowsAreTyped
  <2>3. best \in StoredRow /\ best.id = c /\ best \in ToSet(batch)
    BY <2>2, RowsAreTyped DEF RowsOf, ToSet
  <2>4. PoseOf(best) \in Pose /\ PoseOf(best) # None
    BY <2>3, LedgerAssumption DEF PoseOf, Pose, StoredRow
  <2>5. \A q \in ToSet(batch) : q.id = c => q.epoch <= best.epoch
    BY <2>2 DEF RowsOf, ToSet
  <2>6. now = IF poses[c] # None /\ best.epoch <= poses[c].epoch THEN poses[c] ELSE PoseOf(best)
    BY <1>2 DEF UpdatePoseCache, PoseOf
  <2>7. best.epoch \in Nat
    BY <2>3, RowNumbers
  <2> HIDE DEF best, now
  <2>8. best = batch[BestRow(batch, c)]
    BY DEF best
  <2> QED
    BY <1>2, <2>2, <2>3, <2>4, <2>5, <2>6, <2>7, <2>8 DEF now
<1> QED
  BY <1>1, <1>2

LEMMA CacheStaysNewest ==
    ASSUME NEW rows \in SUBSET StoredRow, NEW poses, IsNewest(poses, rows), NEW batch \in Seq(StoredRow)
    PROVE  IsNewest(UpdatePoseCache(poses, batch), rows \cup ToSet(batch))
<1> DEFINE all == rows \cup ToSet(batch)
           now(c) == UpdatePoseCache(poses, batch)[c]
<1>1. SUFFICES ASSUME NEW c \in Id
               PROVE  IF now(c) = None THEN OfEntity(all, c) = {}
                      ELSE \E r \in NewestOf(OfEntity(all, c)) : now(c) = PoseOf(r)
  BY DEF IsNewest, PoseOf
<1>2. \A r \in all : r.epoch \in Nat
  BY RowNumbers, RowsAreTyped DEF ToSet
<1>3. IF poses[c] = None THEN OfEntity(rows, c) = {}
      ELSE \E r \in NewestOf(OfEntity(rows, c)) : poses[c] = PoseOf(r)
  BY DEF IsNewest, PoseOf
<1>4. OfEntity(all, c) = OfEntity(rows, c) \cup {q \in ToSet(batch) : q.id = c}
  BY DEF OfEntity
<1>5. CASE c \notin IdsIn(batch)
  <2>1. now(c) = poses[c]
    BY <1>5, CacheMoves
  <2>2. OfEntity(all, c) = OfEntity(rows, c)
    BY <1>5 DEF OfEntity, IdsIn, ToSet
  <2> HIDE DEF now, all
  <2> QED
    BY <1>3, <2>1, <2>2
<1>6. CASE c \in IdsIn(batch)
  <2>1. PICK best \in ToSet(batch) :
           /\ best.id = c /\ best.epoch \in Nat /\ PoseOf(best) # None
           /\ \A q \in ToSet(batch) : q.id = c => q.epoch <= best.epoch
           /\ now(c) = IF poses[c] # None /\ best.epoch <= poses[c].epoch THEN poses[c] ELSE PoseOf(best)
    BY <1>6, CacheMoves
  <2> HIDE DEF now
  <2>2. CASE poses[c] = None
    <3>1. best \in NewestOf(OfEntity(all, c))
      BY <1>3, <1>4, <2>1, <2>2 DEF NewestOf
    <3> QED
      BY <2>1, <2>2, <3>1
  <2>3. CASE poses[c] # None
    <3>1. PICK old \in NewestOf(OfEntity(rows, c)) : poses[c] = PoseOf(old)
      BY <1>3, <2>3
    <3>2. /\ old \in OfEntity(rows, c) /\ old.epoch \in Nat
          /\ \A q \in OfEntity(rows, c) : q.epoch <= old.epoch /\ q.epoch \in Nat
      BY <1>2, <3>1 DEF NewestOf, OfEntity
    <3>3. poses[c].epoch = old.epoch
      BY <3>1 DEF PoseOf
    <3>4. \A q \in ToSet(batch) : q.epoch \in Nat
      BY <1>2
    <3>5. CASE best.epoch <= old.epoch
      <4>1. \A q \in ToSet(batch) : q.id = c => q.epoch <= old.epoch
        BY <2>1, <3>2, <3>4, <3>5
      <4>2. old \in NewestOf(OfEntity(all, c))
        BY <1>4, <3>2, <4>1 DEF NewestOf
      <4> QED
        BY <2>1, <2>3, <3>1, <3>3, <3>5, <4>2
    <3>6. CASE ~(best.epoch <= old.epoch)
      <4>1. \A q \in OfEntity(rows, c) : q.epoch <= best.epoch
        BY <2>1, <3>2, <3>6
      <4>2. best \in NewestOf(OfEntity(all, c))
        BY <1>4, <2>1, <4>1 DEF NewestOf
      <4> QED
        BY <2>1, <3>3, <3>6, <4>2
    <3> QED
      BY <3>5, <3>6
  <2> QED
    BY <2>2, <2>3
<1> QED
  BY <1>5, <1>6

LEMMA CacheIsTyped ==
    ASSUME NEW poses \in [Id -> Pose \cup {None}], NEW batch \in Seq(StoredRow)
    PROVE  UpdatePoseCache(poses, batch) \in [Id -> Pose \cup {None}]
<1> DEFINE now == UpdatePoseCache(poses, batch)
<1>1. now = [c \in Id |-> now[c]]
  BY DEF UpdatePoseCache
<1>2. ASSUME NEW c \in Id PROVE now[c] \in Pose \cup {None}
  <2>1. CASE c \notin IdsIn(batch)
    <3>1. now[c] = poses[c]
      BY <2>1, CacheMoves
    <3> HIDE DEF now
    <3> QED
      BY <3>1
  <2>2. CASE c \in IdsIn(batch)
    <3>1. PICK best \in ToSet(batch) :
             /\ PoseOf(best) \in Pose
             /\ now[c] = IF poses[c] # None /\ best.epoch <= poses[c].epoch THEN poses[c] ELSE PoseOf(best)
      BY <2>2, CacheMoves
    <3> HIDE DEF now
    <3> QED
      BY <3>1
  <2> QED
    BY <2>1, <2>2
<1> HIDE DEF now
<1>3. now \in [Id -> Pose \cup {None}]
  BY <1>1, <1>2
<1> QED
  BY <1>3 DEF now

\* No row of its entity is younger.
IsYoungest(rows, r) == r \in rows /\ \A q \in rows : q.id = r.id => q.epoch <= r.epoch

\* The row that an entity's cached pose came from.
CameFrom(poses, c, rows, r) ==
    /\ IsYoungest(rows, r) /\ r.id = c /\ r.epoch \in Nat /\ r.frame \in Id
    /\ poses[c].parent = r.frame /\ poses[c].pose = r.pose /\ poses[c].epoch = r.epoch

\* The cached pose is that of a newest row.
LEMMA CachedRow ==
    ASSUME NEW rows \in SUBSET StoredRow, NEW poses, IsNewest(poses, rows),
           NEW c \in Id, poses[c] # None
    PROVE  \E r \in StoredRow : CameFrom(poses, c, rows, r)
<1>1. PICK r \in NewestOf(OfEntity(rows, c)) :
        poses[c] = [parent |-> r.frame, pose |-> r.pose, epoch |-> r.epoch]
  BY DEF IsNewest
<1>2. r \in rows /\ r.id = c /\ \A q \in rows : q.id = c => q.epoch <= r.epoch
  BY DEF NewestOf, OfEntity
<1>3. r \in StoredRow /\ r.epoch \in Nat /\ r.frame \in Id
  BY <1>2, RowNumbers DEF StoredRow
<1>4. IsYoungest(rows, r)
  BY <1>2 DEF IsYoungest
<1> QED
  BY <1>1, <1>2, <1>3, <1>4 DEF CameFrom

LEMMA CachedEpoch ==
    ASSUME NEW rows \in SUBSET StoredRow, NEW poses, IsNewest(poses, rows),
           NEW c \in Id, poses[c] # None
    PROVE  poses[c].epoch \in Nat /\ poses[c].parent \in Id
  BY CachedRow DEF CameFrom

LEMMA NewestIsStill ==
    ASSUME NEW poses, NEW rows \in SUBSET StoredRow, IsNewest(poses, rows),
           NEW c \in Id, NEW r \in NewestOf(OfEntity(rows, c))
    PROVE  Still(poses, r)
<1>1. r \in rows /\ r.id = c /\ r.epoch \in Nat /\ \A q \in rows : q.id = c => q.epoch <= r.epoch
  BY RowNumbers DEF NewestOf, OfEntity
<1>2. poses[c] # None
  BY <1>1 DEF IsNewest, OfEntity
<1>3. PICK q \in StoredRow : CameFrom(poses, c, rows, q)
  BY <1>2, CachedRow
<1>4. q.epoch <= r.epoch /\ r.epoch <= q.epoch
  BY <1>1, <1>3 DEF IsYoungest, CameFrom
<1>5. poses[c].epoch = r.epoch
  BY <1>1, <1>3, <1>4 DEF CameFrom
<1> QED
  BY <1>1, <1>2, <1>5 DEF Still

-----------------------------------------------------------------------------
(* The tree and the cache, for rows in any order. *)

\* The pose cache holds a row of each entity's highest epoch ever appended, and
\* nothing of an entity that never had a row.
CacheIsNewest == IsNewest(latestPose, accepted)

LedgerIInv ==
    /\ SoundTree(latest, log, pushed)
    /\ accepted \subseteq StoredRow
    /\ appended \in Nat
    /\ CacheIsNewest

\* A batch as it is stored holds no row twice, and none of an earlier batch.
LEMMA StampedIsNew ==
    ASSUME NEW batch \in Batches, NEW n \in Nat
    PROVE  /\ Stamped(batch, n) \in Seq(StoredRow)
           /\ IsInjective(Stamped(batch, n))
           /\ \A r \in ToSet(Stamped(batch, n)) : r.pose[1] = n + 1
<1> DEFINE rows == Stamped(batch, n)
<1>1. batch \in Seq(SentRow)
  BY LedgerAssumption
<1>2. DOMAIN rows = 1..Len(batch) /\ Len(batch) \in Nat
  BY <1>1 DEF Stamped
<1>3. \A i \in 1..Len(batch) : rows[i] \in StoredRow
  <2>1. \A i \in 1..Len(batch) : batch[i] \in SentRow /\ <<n + 1, i>> \in Nat \X Nat
    BY <1>1, <1>2
  <2> QED
    BY <1>2, <2>1 DEF Stamped, SentRow, StoredRow
<1>4. \A i \in 1..Len(batch) : rows[i].pose = <<n + 1, i>>
  BY <1>2 DEF Stamped
<1>5. rows \in Seq(StoredRow)
  <2>1. rows = [i \in 1..Len(batch) |-> rows[i]]
    BY <1>2 DEF Stamped
  <2> HIDE DEF rows
  <2> QED
    BY <1>2, <1>3, <2>1
<1> HIDE DEF rows
<1>6. IsInjective(rows)
  <2>1. ASSUME NEW i \in 1..Len(batch), NEW j \in 1..Len(batch), rows[i] = rows[j] PROVE i = j
    <3>1. <<n + 1, i>> = <<n + 1, j>>
      BY <1>4, <2>1
    <3> QED
      BY <3>1
  <2> QED
    BY <1>2, <2>1 DEF IsInjective
<1>7. \A r \in ToSet(rows) : r.pose[1] = n + 1
  BY <1>2, <1>4 DEF ToSet
<1> QED
  BY <1>5, <1>6, <1>7 DEF rows

LEMMA TrimmedLogIsPart ==
    ASSUME NEW events, NEW s, NEW t
    PROVE  TrimmedLog(events, s, t) \subseteq events
<1> DEFINE ws == WindowStart(t)
<1> HIDE DEF ws
<1>1. TrimmedLog(events, s, t) \in {events, events \ Trimmed(events, ws)}
  BY DEF TrimmedLog, ws
<1> QED
  BY <1>1

\* The trim that enforce_memory_limit runs keeps the tree, whatever it evicted.
LEMMA EvictionKeepsTree ==
    ASSUME NEW edges, NEW events, NEW n, SoundTree(edges, events, n), NEW s, NEW t
    PROVE  SoundTree(edges, TrimmedLog(events, s, t), n)
<1> DEFINE ws == WindowStart(t)
<1> HIDE DEF ws
<1>1. SoundTree(edges, events \ Trimmed(events, ws), n)
  BY TrimKeepsTree
<1>2. TrimmedLog(events, s, t) \in {events, events \ Trimmed(events, ws)}
  BY DEF TrimmedLog, ws
<1> QED
  BY <1>1, <1>2

LEMMA LedgerInit == Init => LedgerIInv
<1> SUFFICES ASSUME Init PROVE LedgerIInv
  OBVIOUS
<1>1. SoundTree(latest, log, pushed)
  BY EmptyTreeIsSound DEF Init
<1>2. CacheIsNewest
  BY DEF Init, CacheIsNewest, IsNewest, OfEntity
<1> QED
  BY <1>1, <1>2 DEF Init, LedgerIInv

LEMMA AppendKeepsLedger ==
    ASSUME LedgerIInv, NEW batch \in Batches, NEW copyOk, NEW evictable,
           AppendBatch(batch, copyOk, evictable)
    PROVE  LedgerIInv'
<1> DEFINE rows == Stamped(batch, appended)
           evs == EventsOf(latest, rows, pushed)
<1> SoundTree(latest, log, pushed) /\ pushed \in Nat /\ appended \in Nat
  BY DEF LedgerIInv, SoundTree, Typed
<1>1. rows \in Seq(StoredRow) /\ TypedRows(rows) /\ ToSet(rows) \subseteq StoredRow
  BY StampedIsNew, RowsAreTyped DEF ToSet
<1>2. PICK sealed : /\ latest' = ApplyEvents(latest, evs)
                    /\ pushed' = pushed + Cardinality(evs)
                    /\ log' = TrimmedLog(log \cup evs, sealed, store')
                    /\ latestPose' = UpdatePoseCache(latestPose, rows)
                    /\ appended' = appended + 1
                    /\ accepted' = accepted \cup ToSet(rows)
  BY Zenon DEF AppendBatch
<1> HIDE DEF rows
<1>3. Positioned(evs, pushed)
  BY <1>1, IngestedArePositioned
<1>4. SoundTree(latest', log', pushed')
  BY <1>2, <1>3, CommitKeepsTree, EvictionKeepsTree
<1>5. CacheIsNewest'
  BY <1>1, <1>2, CacheStaysNewest DEF LedgerIInv, CacheIsNewest
<1> QED
  BY <1>1, <1>2, <1>4, <1>5 DEF LedgerIInv

LEMMA LimitKeepsLedger ==
    ASSUME LedgerIInv, NEW lim, NEW stuck, NEW evictable, SetMemoryLimit(lim, stuck, evictable)
    PROVE  LedgerIInv'
<1>1. PICK split : /\ log' = TrimmedLog(log, split, store')
                   /\ UNCHANGED <<latestPose, latest, pushed, appended, accepted>>
  BY Zenon DEF SetMemoryLimit
<1>2. SoundTree(latest', log', pushed')
  BY <1>1, EvictionKeepsTree DEF LedgerIInv
<1> QED
  BY <1>1, <1>2 DEF LedgerIInv, CacheIsNewest

LEMMA MergeKeepsLedger ==
    ASSUME LedgerIInv, NEW peer \in PeerLogs, MergeTopology(peer)
    PROVE  LedgerIInv'
<1> SoundTree(latest, log, pushed) /\ pushed \in Nat
  BY DEF LedgerIInv, SoundTree, Typed
<1>1. Positioned(MergedEvents(log, peer, pushed), pushed)
  BY LedgerAssumption, MergedArePositioned
<1>2. SoundTree(latest', log', pushed')
  BY <1>1, CommitKeepsTree DEF MergeTopology
<1>3. UNCHANGED <<latestPose, appended, accepted>>
  BY DEF MergeTopology
<1> QED
  BY <1>2, <1>3 DEF LedgerIInv, CacheIsNewest

LEMMA LedgerStep == LedgerIInv /\ [Next]_ledgerVars => LedgerIInv'
<1> SUFFICES ASSUME LedgerIInv, [Next]_ledgerVars PROVE LedgerIInv'
  OBVIOUS
<1>1. CASE UNCHANGED ledgerVars
  BY <1>1 DEF ledgerVars, tree, LedgerIInv, CacheIsNewest
<1>2. CASE Next
  BY <1>2, AppendKeepsLedger, LimitKeepsLedger, MergeKeepsLedger DEF Next
<1> QED
  BY <1>1, <1>2

\* Whatever is appended, merged, sealed, split and evicted, and whichever copies
\* fail, the ledger's current edges are the replay of the log it still has.
THEOREM LedgerTreeReplays == Spec => []TreeReplays
<1>1. LedgerIInv => TreeReplays
  <2>1. Tree!Id = Id
    BY DEF Id, Tree!Id
  <2>2. \A c : Tree!Of(log, c) = Of(log, c)
    BY DEF Of, Tree!Of
  <2>3. \A e, f : Tree!EdgeOf(e) = EdgeOf(e) /\ (Tree!Before(f, e) <=> Before(f, e))
    BY DEF EdgeOf, Tree!EdgeOf, Before, Tree!Before
  <2> QED
    BY <2>1, <2>2, <2>3
    DEF LedgerIInv, SoundTree, Ordered, Replays, TreeReplays, Tree!LatestIsReplay, Tree!LogIsOrdered
<1> QED
  BY <1>1, LedgerInit, LedgerStep, PTL DEF Spec

\* Eviction decides what is still latest by the pose cache, and no sequence of
\* operations makes the cache anything but the newest row ever appended.
THEOREM CacheStaysCurrent == Spec => []CacheIsNewest
<1>1. LedgerIInv => CacheIsNewest
  BY DEF LedgerIInv
<1> QED
  BY <1>1, LedgerInit, LedgerStep, PTL DEF Spec

-----------------------------------------------------------------------------
(* The store. *)

\* The rows of a store: every one was appended and none is there twice.
RowsInHand(s, rows) == StoredRows(s) \subseteq rows /\ IsInjective(AllRows(s))

\* Every newest row of every entity is stored.
NewestInHand(s, rows) == \A c \in Id : NewestOf(OfEntity(rows, c)) \subseteq StoredRows(s)

StoreIInv ==
    /\ LedgerIInv
    /\ store \in StoreType /\ Balanced(store)
    /\ RowsInHand(store, accepted)
    /\ NewestInHand(store, accepted)
    /\ \A r \in accepted : r.pose[1] \in Nat /\ r.pose[1] <= appended
    /\ limit \in Nat \cup {None}
    /\ latestPose \in [Id -> Pose \cup {None}]

\* The eviction loop takes from a store only rows that a newer row replaces.
LEMMA LimitKeepsHand ==
    ASSUME NEW s \in StoreType, Balanced(s), NEW poses, NEW lim \in Nat \cup {None},
           NEW evictable \in Nat \cup {None}, NEW rows \in SUBSET StoredRow, IsNewest(poses, rows),
           RowsInHand(s, rows), NewestInHand(s, rows)
    PROVE  LET t == EnforceLimit(s, lim, poses, evictable)
           IN  /\ t \in StoreType /\ Balanced(t)
               /\ RowsInHand(t, rows) /\ NewestInHand(t, rows)
<1> DEFINE t == EnforceLimit(s, lim, poses, evictable)
<1>1. t \in StoreType /\ Balanced(t) /\ Keeps(s, t, poses)
  BY LimitKeepsStore
<1> HIDE DEF t
<1>2. RowsInHand(t, rows)
  BY <1>1 DEF Keeps, RowsInHand
<1>3. NewestInHand(t, rows)
  BY <1>1, NewestIsStill DEF Keeps, NewestInHand
<1> QED
  BY <1>1, <1>2, <1>3 DEF t

LEMMA EvictableIsCount == \A e \in Evictable : e \in Nat \cup {None}
  BY LedgerAssumption

\* The store once a batch is in the tail.
LEMMA PushGrowsStore ==
    ASSUME NEW s \in StoreType, Balanced(s), NEW rows \in Seq(StoredRow)
    PROVE  LET segment == Decoded(rows)
               t == [s EXCEPT !.tail = Append(@, segment), !.resident = @ + segment.bytes]
           IN  /\ t \in StoreType /\ Balanced(t)
               /\ AllRows(t) = AllRows(s) \o rows /\ Window(t) = Window(s) \o rows
<1> DEFINE segment == Decoded(rows)
           t == [s EXCEPT !.tail = Append(@, segment), !.resident = @ + segment.bytes]
<1>1. segment \in SegmentType /\ segment.rows = rows
  <2>1. Len(rows) + Overhead \in Nat
    BY LenProperties, LedgerAssumption
  <2> QED
    BY <2>1 DEF Decoded, SegmentType
<1> HIDE DEF segment
<1>2. s.tail \in Seq(SegmentType) /\ s.resident \in Int /\ segment.bytes \in Nat
  BY <1>1 DEF StoreType, SegmentType
<1>3. /\ Append(s.tail, segment) \in Seq(SegmentType)
      /\ Rows(Append(s.tail, segment)) = Rows(s.tail) \o segment.rows
      /\ Bytes(Append(s.tail, segment)) = Bytes(s.tail) + segment.bytes
  BY <1>1, <1>2, AppendProperties, RowsOfAppend, BytesOfAppend, ZenonT(30)
<1>4. t \in StoreType
  <2>1. s.resident + segment.bytes \in Int
    BY <1>2
  <2> QED
    BY <1>3, <2>1, Zenon DEF StoreType
<1>5. /\ t.segments = s.segments /\ t.tail = Append(s.tail, segment) /\ t.pinned = s.pinned
      /\ t.resident = s.resident + segment.bytes
  BY DEF StoreType
<1> HIDE DEF t
<1>6. PinnedRows(t) = PinnedRows(s) /\ PinnedBytes(t) = PinnedBytes(s)
  BY <1>5 DEF PinnedRows, PinnedBytes
<1>7. Balanced(t)
  <2>1. Bytes(AllSegments(t)) = PinnedBytes(s) + Bytes(s.segments) + (Bytes(s.tail) + segment.bytes)
    BY <1>3, <1>4, <1>5, <1>6, StoreInParts
  <2>2. s.resident = PinnedBytes(s) + Bytes(s.segments) + Bytes(s.tail)
    BY StoreInParts DEF Balanced
  <2>3. PinnedBytes(s) \in Nat /\ Bytes(s.segments) \in Nat /\ Bytes(s.tail) \in Nat
    BY StoreInParts
  <2> QED
    BY <1>2, <1>5, <2>1, <2>2, <2>3 DEF Balanced
<1>8. AllRows(t) = AllRows(s) \o rows
  <2>1. AllRows(t) = (PinnedRows(s) \o Rows(s.segments)) \o (Rows(s.tail) \o rows)
    BY <1>1, <1>3, <1>4, <1>5, <1>6, StoreInParts
  <2>2. /\ PinnedRows(s) \in Seq(StoredRow) /\ Rows(s.segments) \in Seq(StoredRow) /\ Rows(s.tail) \in Seq(StoredRow)
        /\ AllRows(s) = (PinnedRows(s) \o Rows(s.segments)) \o Rows(s.tail)
    BY StoreInParts
  <2> DEFINE a == PinnedRows(s)
             b == Rows(s.segments)
             ab == a \o b
             c == Rows(s.tail)
  <2>3. a \in Seq(StoredRow) /\ b \in Seq(StoredRow) /\ c \in Seq(StoredRow)
    BY <2>2
  <2> HIDE DEF a, b, c
  <2>4. ab \in Seq(StoredRow)
    BY <2>3, ConcatProperties
  <2> HIDE DEF ab
  <2>5. (ab \o c) \o rows = ab \o (c \o rows)
    BY <2>3, <2>4, ConcatAssociative, SMTT(30)
  <2> QED
    BY <2>1, <2>2, <2>5 DEF ab, a, b, c
<1>9. Window(t) = Window(s) \o rows
  <2> DEFINE b == Rows(s.segments)
             c == Rows(s.tail)
  <2>1. Window(t) = b \o (c \o rows) /\ Window(s) = b \o c
    BY <1>1, <1>3, <1>5 DEF Window
  <2>2. b \in Seq(StoredRow) /\ c \in Seq(StoredRow)
    BY StoreInParts
  <2> HIDE DEF b, c
  <2>3. (b \o c) \o rows = b \o (c \o rows)
    BY <2>2, ConcatAssociative
  <2> QED
    BY <2>1, <2>3
<1> QED
  BY <1>4, <1>7, <1>8, <1>9 DEF t, segment

LEMMA StoreInit == Init => StoreIInv
<1> SUFFICES ASSUME Init PROVE StoreIInv
  OBVIOUS
<1>1. LedgerIInv
  BY LedgerInit
<1>2. store \in StoreType
  BY EmptySeq DEF Init, StoreType
<1>3. AllSegments(store) = <<>>
  BY DEF Init, AllSegments
<1>4. Balanced(store) /\ AllRows(store) = <<>>
  BY <1>3, BytesOfNone, RowsOfNone DEF Init, Balanced, AllRows
<1>5. RowsInHand(store, accepted)
  BY <1>4 DEF RowsInHand, StoredRows, IsInjective, ToSet
<1>6. NewestInHand(store, accepted) /\ \A r \in accepted : r.pose[1] \in Nat /\ r.pose[1] <= appended
  BY DEF Init, NewestInHand, NewestOf, OfEntity
<1> QED
  BY <1>1, <1>2, <1>4, <1>5, <1>6 DEF StoreIInv, Init

\* What an append does to the store, and what it has to work with.
LEMMA AppendStores ==
    ASSUME StoreIInv, NEW batch \in Batches, NEW copyOk, NEW evictable \in Evictable,
           AppendBatch(batch, copyOk, evictable)
    PROVE  LET rows == Stamped(batch, appended)
           IN  \E s \in StoreType :
                  /\ Balanced(s)
                  /\ AllRows(s) = AllRows(store) \o rows /\ Window(s) = Window(store) \o rows
                  /\ StoredRows(s) = StoredRows(store) \cup ToSet(rows)
                  /\ store' = EnforceLimit(s, limit, latestPose', evictable)
                  /\ log' = TrimmedLog(log \cup EventsOf(latest, rows, pushed), s, store')
                  /\ RowsInHand(s, accepted') /\ NewestInHand(s, accepted')
<1> DEFINE rows == Stamped(batch, appended)
           segment == Decoded(rows)
           grown == [store EXCEPT !.tail = Append(@, segment), !.resident = @ + segment.bytes]
           s == SealTail(grown, SegmentTarget(limit), copyOk)
           evs == EventsOf(latest, rows, pushed)
<1>1. appended \in Nat /\ accepted \in SUBSET StoredRow
  BY DEF StoreIInv, LedgerIInv
<1>2. /\ rows \in Seq(StoredRow) /\ IsInjective(rows)
      /\ \A r \in ToSet(rows) : r.pose[1] = appended + 1
  BY <1>1, StampedIsNew
<1>3. /\ store' = EnforceLimit(s, limit, latestPose', evictable)
      /\ log' = TrimmedLog(log \cup evs, s, store')
      /\ accepted' = accepted \cup ToSet(rows)
  BY Zenon DEF AppendBatch
<1> HIDE DEF rows, evs
<1>4. /\ grown \in StoreType /\ Balanced(grown)
      /\ AllRows(grown) = AllRows(store) \o rows /\ Window(grown) = Window(store) \o rows
  BY <1>2, PushGrowsStore DEF StoreIInv
<1> HIDE DEF grown
<1>5. SegmentTarget(limit) \in Nat \ {0}
  BY TargetIsPositive DEF StoreIInv
<1>6. /\ s \in StoreType /\ Balanced(s)
      /\ AllRows(s) = AllRows(store) \o rows /\ Window(s) = Window(store) \o rows
  BY <1>4, <1>5, SealKeepsStore
<1> HIDE DEF s
<1>7. AllRows(store) \in Seq(StoredRow)
  BY StoreInParts, RowsAreRows DEF StoreIInv, AllRows
<1> DEFINE old == AllRows(store)
<1>8. old \in Seq(StoredRow)
  BY <1>7
<1> HIDE DEF old
<1>9. OfTwo(old \o rows, old, rows)
  BY <1>2, <1>8, TwoPartsOf
<1>10. StoredRows(s) = StoredRows(store) \cup ToSet(rows)
  BY <1>6, <1>9 DEF OfTwo, StoredRows, old
<1>11. ToSet(old) \subseteq accepted /\ IsInjective(old)
  BY DEF StoreIInv, RowsInHand, StoredRows, old
<1>12. ToSet(old) \cap ToSet(rows) = {}
  <2>1. \A r \in accepted : r.pose[1] \in Nat /\ r.pose[1] <= appended
    BY DEF StoreIInv
  <2>2. ~(appended + 1 <= appended)
    BY <1>1
  <2> QED
    BY <1>2, <1>11, <2>1, <2>2
<1>13. RowsInHand(s, accepted')
  <2>1. IsInjective(AllRows(s))
    BY <1>2, <1>6, <1>9, <1>11, <1>12 DEF OfTwo, old
  <2>2. StoredRows(s) \subseteq accepted'
    BY <1>3, <1>10, <1>11 DEF StoredRows, old
  <2> QED
    BY <2>1, <2>2 DEF RowsInHand
<1>14. NewestInHand(s, accepted')
  <2>1. SUFFICES ASSUME NEW c \in Id, NEW r \in NewestOf(OfEntity(accepted', c))
                 PROVE  r \in StoredRows(s)
    BY DEF NewestInHand
  <2>2. r \in accepted' /\ r.id = c /\ \A q \in accepted' : q.id = c => q.epoch <= r.epoch
    BY DEF NewestOf, OfEntity
  <2>3. CASE r \in ToSet(rows)
    BY <1>10, <2>3
  <2>4. CASE r \in accepted
    <3>1. r \in NewestOf(OfEntity(accepted, c))
      BY <1>3, <2>2, <2>4 DEF NewestOf, OfEntity
    <3> QED
      BY <1>10, <3>1 DEF StoreIInv, NewestInHand
  <2> QED
    BY <1>3, <2>2, <2>3, <2>4
<1> QED
  BY <1>3, <1>6, <1>10, <1>13, <1>14 DEF rows, evs

LEMMA AppendKeepsStore ==
    ASSUME StoreIInv, NEW batch \in Batches, NEW copyOk, NEW evictable \in Evictable,
           AppendBatch(batch, copyOk, evictable)
    PROVE  StoreIInv'
<1> DEFINE rows == Stamped(batch, appended)
<1>1. LedgerIInv'
  BY AppendKeepsLedger DEF StoreIInv
<1>2. /\ latestPose' = UpdatePoseCache(latestPose, rows)
      /\ appended' = appended + 1
      /\ accepted' = accepted \cup ToSet(rows)
      /\ limit' = limit
  BY Zenon DEF AppendBatch
<1>3. latestPose' \in [Id -> Pose \cup {None}]
  <2>1. rows \in Seq(StoredRow)
    BY StampedIsNew DEF StoreIInv, LedgerIInv
  <2> HIDE DEF rows
  <2> QED
    BY <1>2, <2>1, CacheIsTyped DEF StoreIInv
<1>4. appended \in Nat /\ accepted' \in SUBSET StoredRow /\ IsNewest(latestPose', accepted')
  BY <1>1 DEF StoreIInv, LedgerIInv, CacheIsNewest
<1>5. PICK s \in StoreType :
         /\ Balanced(s)
         /\ store' = EnforceLimit(s, limit, latestPose', evictable)
         /\ RowsInHand(s, accepted') /\ NewestInHand(s, accepted')
  BY AppendStores
<1>6. limit \in Nat \cup {None} /\ evictable \in Nat \cup {None}
  BY EvictableIsCount DEF StoreIInv
<1>7. /\ store' \in StoreType /\ Balanced(store')
      /\ RowsInHand(store', accepted') /\ NewestInHand(store', accepted')
  <2> DEFINE poses == latestPose'
             all == accepted'
  <2>1. all \in SUBSET StoredRow /\ IsNewest(poses, all) /\ RowsInHand(s, all) /\ NewestInHand(s, all)
    BY <1>4, <1>5
  <2> HIDE DEF poses, all
  <2>2. LET t == EnforceLimit(s, limit, poses, evictable)
        IN  t \in StoreType /\ Balanced(t) /\ RowsInHand(t, all) /\ NewestInHand(t, all)
    BY <1>5, <1>6, <2>1, LimitKeepsHand
  <2> QED
    BY <1>5, <2>2 DEF poses, all
<1>8. \A r \in accepted' : r.pose[1] \in Nat /\ r.pose[1] <= appended'
  <2>1. \A r \in accepted : r.pose[1] \in Nat /\ r.pose[1] <= appended
    BY DEF StoreIInv
  <2>2. \A r \in ToSet(rows) : r.pose[1] = appended + 1
    BY <1>4, StampedIsNew
  <2> HIDE DEF rows
  <2> QED
    BY <1>2, <1>4, <2>1, <2>2
<1> HIDE DEF rows
<1> QED
  BY <1>1, <1>2, <1>3, <1>6, <1>7, <1>8 DEF StoreIInv

LEMMA LimitSplits ==
    ASSUME StoreIInv, NEW lim \in Limits, NEW stuck
    PROVE  LET s == SplitSealed(store, SegmentTarget(lim), stuck)
           IN  /\ s \in StoreType /\ Balanced(s)
               /\ AllRows(s) = AllRows(store) /\ Window(s) = Window(store)
               /\ RowsInHand(s, accepted) /\ NewestInHand(s, accepted)
               /\ lim \in Nat \cup {None}
<1> DEFINE s == SplitSealed(store, SegmentTarget(lim), stuck)
<1>1. lim \in Nat \cup {None}
  BY LedgerAssumption
<1>2. SegmentTarget(lim) \in Nat \ {0}
  BY <1>1, TargetIsPositive
<1>3. s \in StoreType /\ Balanced(s) /\ AllRows(s) = AllRows(store) /\ Window(s) = Window(store)
  BY <1>2, SplitKeepsStore DEF StoreIInv
<1> HIDE DEF s
<1>4. RowsInHand(s, accepted) /\ NewestInHand(s, accepted)
  BY <1>3 DEF StoreIInv, RowsInHand, NewestInHand, StoredRows
<1> QED
  BY <1>1, <1>3, <1>4 DEF s

LEMMA LimitKeepsStoreInv ==
    ASSUME StoreIInv, NEW lim \in Limits, NEW stuck, NEW evictable \in Evictable,
           SetMemoryLimit(lim, stuck, evictable)
    PROVE  StoreIInv'
<1> DEFINE s == SplitSealed(store, SegmentTarget(lim), stuck)
<1>1. LedgerIInv'
  BY LimitKeepsLedger DEF StoreIInv
<1>2. /\ limit' = lim
      /\ store' = EnforceLimit(s, lim, latestPose, evictable)
      /\ UNCHANGED <<latestPose, appended, accepted>>
  BY Zenon DEF SetMemoryLimit
<1>3. /\ s \in StoreType /\ Balanced(s) /\ RowsInHand(s, accepted) /\ NewestInHand(s, accepted)
      /\ lim \in Nat \cup {None}
  BY LimitSplits
<1> HIDE DEF s
<1>4. accepted \in SUBSET StoredRow /\ IsNewest(latestPose, accepted)
  BY DEF StoreIInv, LedgerIInv, CacheIsNewest
<1>5. evictable \in Nat \cup {None}
  BY EvictableIsCount
<1>6. /\ store' \in StoreType /\ Balanced(store')
      /\ RowsInHand(store', accepted) /\ NewestInHand(store', accepted)
  BY <1>2, <1>3, <1>4, <1>5, LimitKeepsHand
<1> QED
  BY <1>1, <1>2, <1>3, <1>6 DEF StoreIInv

LEMMA StoreStep == StoreIInv /\ [Next]_ledgerVars => StoreIInv'
<1> SUFFICES ASSUME StoreIInv, [Next]_ledgerVars PROVE StoreIInv'
  OBVIOUS
<1>1. CASE UNCHANGED ledgerVars
  <2>1. LedgerIInv'
    BY <1>1, LedgerStep DEF StoreIInv
  <2> QED
    BY <1>1, <2>1 DEF ledgerVars, tree, StoreIInv
<1>2. ASSUME NEW peer \in PeerLogs, MergeTopology(peer) PROVE StoreIInv'
  <2>1. LedgerIInv'
    BY <1>2, MergeKeepsLedger DEF StoreIInv
  <2>2. UNCHANGED <<store, limit, latestPose, appended, accepted>>
    BY <1>2 DEF MergeTopology
  <2> QED
    BY <2>1, <2>2 DEF StoreIInv
<1>3. CASE Next
  BY <1>2, <1>3, AppendKeepsStore, LimitKeepsStoreInv DEF Next
<1> QED
  BY <1>1, <1>3

\* The store, the caches and the counters keep their types: no difference that
\* push_segment, a seal, a split or an eviction takes of resident_bytes is negative.
THEOREM LedgerIsTyped == Spec => []TypeOK
<1>1. StoreIInv => TypeOK
  <2> SUFFICES ASSUME StoreIInv PROVE TypeOK
    OBVIOUS
  <2>1. /\ store.pinned \in SegmentType \cup {None} /\ store.segments \in Seq(SegmentType)
        /\ store.tail \in Seq(SegmentType)
    BY DEF StoreIInv, StoreType
  <2>2. store.resident \in Nat
    <3>1. Bytes(AllSegments(store)) \in Nat
      BY StoreInParts, BytesAreNat DEF StoreIInv
    <3> QED
      BY <3>1 DEF StoreIInv, Balanced
  <2>3. /\ latest \in [Id -> Edge \cup {None}] /\ log \subseteq Event /\ pushed \in Nat
        /\ accepted \subseteq StoredRow /\ appended \in Nat
    BY DEF StoreIInv, LedgerIInv, SoundTree, Typed
  <2> QED
    BY <2>1, <2>2, <2>3 DEF StoreIInv, TypeOK
<1> QED
  BY <1>1, StoreInit, StoreStep, PTL DEF Spec

\* `resident_bytes` is the sum of the bytes of the pinned, sealed and tail segments
\* after every append and every change of the limit, whichever copies failed.
THEOREM ResidentIsTheSum == Spec => []ResidentIsSum
<1>1. StoreIInv => ResidentIsSum
  BY DEF StoreIInv, Balanced, ResidentIsSum
<1> QED
  BY <1>1, StoreInit, StoreStep, PTL DEF Spec

\* evict_oldest_segment drops no row that is still its entity's latest: it moves to
\* `pinned` and stays there until a younger row is appended.
THEOREM LatestRowsAreKept == Spec => []LatestRowsKept
<1>1. StoreIInv => LatestRowsKept
  BY DEF StoreIInv, NewestInHand, LatestRowsKept
<1> QED
  BY <1>1, StoreInit, StoreStep, PTL DEF Spec

\* No seal, split, eviction or pinning stores a row twice.
THEOREM RowsAreStoredOnce == Spec => []StoredOnce
<1>1. StoreIInv => StoredOnce
  BY DEF StoreIInv, RowsInHand, StoredOnce, IsInjective
<1> QED
  BY <1>1, StoreInit, StoreStep, PTL DEF Spec

\* The loop of evictions ends within the limit or without a sealed segment.
LEMMA LimitBounds ==
    ASSUME NEW s \in StoreType, Balanced(s), NEW poses, NEW lim \in Nat \cup {None}
    PROVE  LET t == EnforceLimit(s, lim, poses, None)
           IN  lim # None /\ t.resident > lim => t.segments = <<>>
<1> DEFINE t == EnforceLimit(s, lim, poses, None)
<1>1. t \in StoreType /\ (lim # None => t.resident <= lim \/ t.segments = <<>>)
  BY LimitKeepsStore
<1> HIDE DEF t
<1>2. t.resident \in Int
  BY <1>1 DEF StoreType
<1>3. lim # None => lim \in Nat
  OBVIOUS
<1>4. lim # None /\ t.resident > lim => t.segments = <<>>
  BY <1>1, <1>2, <1>3
<1> QED
  BY <1>4 DEF t

\* While no eviction fails, enforce_memory_limit leaves a ledger over its limit only
\* when no sealed segment is left to evict.
THEOREM BudgetIsKept == ASSUME Evictable = {None} PROVE Spec => []WithinBudget
<1> DEFINE Inv == StoreIInv /\ WithinBudget
<1>1. Init => Inv
  BY StoreInit DEF Init, WithinBudget
<1>2. Inv /\ [Next]_ledgerVars => Inv'
  <2> SUFFICES ASSUME Inv, [Next]_ledgerVars PROVE WithinBudget'
    BY StoreStep
  <2>1. CASE UNCHANGED ledgerVars
    BY <2>1 DEF ledgerVars, WithinBudget
  <2>2. ASSUME NEW batch \in Batches, NEW copyOk, NEW evictable \in Evictable,
               AppendBatch(batch, copyOk, evictable)
        PROVE  WithinBudget'
    <3>1. limit' = limit
      BY <2>2, Zenon DEF AppendBatch
    <3>2. PICK s \in StoreType : Balanced(s) /\ store' = EnforceLimit(s, limit, latestPose', None)
      BY <2>2, AppendStores
    <3>3. limit \in Nat \cup {None}
      BY DEF StoreIInv
    <3> QED
      BY <3>1, <3>2, <3>3, LimitBounds DEF WithinBudget
  <2>3. ASSUME NEW lim \in Limits, NEW stuck, NEW evictable \in Evictable,
               SetMemoryLimit(lim, stuck, evictable)
        PROVE  WithinBudget'
    <3> DEFINE s == SplitSealed(store, SegmentTarget(lim), stuck)
    <3>1. limit' = lim /\ store' = EnforceLimit(s, lim, latestPose, evictable)
      BY <2>3, Zenon DEF SetMemoryLimit
    <3>2. s \in StoreType /\ Balanced(s) /\ lim \in Nat \cup {None}
      BY LimitSplits
    <3> HIDE DEF s
    <3> QED
      BY <3>1, <3>2, LimitBounds DEF WithinBudget
  <2>4. ASSUME NEW peer \in PeerLogs, MergeTopology(peer) PROVE WithinBudget'
    BY <2>4 DEF MergeTopology, WithinBudget
  <2> QED
    BY <2>1, <2>2, <2>3, <2>4 DEF Next
<1>3. Inv => WithinBudget
  OBVIOUS
<1> HIDE DEF Inv
<1> QED
  BY <1>1, <1>2, <1>3, PTL DEF Spec

-----------------------------------------------------------------------------
(* What current_state shows. *)

LEMMA NewestEpochExists ==
    ASSUME NEW rows \in SUBSET StoredRow, rows # {}
    PROVE  \E r \in rows : \A q \in rows : q.epoch <= r.epoch
<1> DEFINE E == {r.epoch : r \in rows}
<1>1. \A r \in rows : r.epoch \in Nat /\ r.epoch <= MaxEpoch
  BY KindsAssumption DEF StoredRow, Epoch
<1>2. E \in SUBSET Nat /\ E # {} /\ MaxEpoch \in Nat /\ \A e \in E : e <= MaxEpoch
  BY <1>1, KindsAssumption
<1>3. PICK m \in E : \A e \in E : e <= m
  <2> HIDE DEF E
  <2> QED
    BY <1>2, GreatestNatural
<1> QED
  BY <1>3

\* The youngest stored row is the youngest row ever appended.
LEMMA YoungestIsStored ==
    ASSUME StoreIInv, NEW m \in accepted, \A q \in accepted : q.epoch <= m.epoch
    PROVE  LatestStored = m.epoch
<1> DEFINE segs == AllSegments(store)
<1>1. segs \in Seq(SegmentType) /\ StoredRows(store) = ToSet(Rows(segs))
  BY StoreInParts DEF StoreIInv, StoredRows, AllRows
<1>2. \A r \in accepted : r \in StoredRow /\ r.epoch \in Nat /\ r.id \in Id
  BY DEF StoreIInv, LedgerIInv, StoredRow, Epoch
<1>3. m \in StoredRows(store) /\ StoredRows(store) \subseteq accepted
  <2>1. m \in NewestOf(OfEntity(accepted, m.id)) /\ m.id \in Id
    BY <1>2 DEF NewestOf, OfEntity
  <2> QED
    BY <2>1 DEF StoreIInv, NewestInHand, RowsInHand
<1> HIDE DEF segs
<1>4. ToSet(segs) \subseteq SegmentType
  BY <1>1, LenProperties, ElementOfSeq DEF ToSet
<1>5. \A seg \in ToSet(segs) : \A r \in ToSet(seg.rows) : r \in accepted
  BY <1>1, <1>3, RowsAreOfSegments
<1>6. PICK young \in ToSet(segs) : m \in ToSet(young.rows)
  BY <1>1, <1>3, RowsAreOfSegments
<1>7. \A seg \in ToSet(segs) : MaxEpochOf(seg) \in Int /\ MaxEpochOf(seg) <= m.epoch
  <2>1. SUFFICES ASSUME NEW seg \in ToSet(segs) PROVE MaxEpochOf(seg) \in Int /\ MaxEpochOf(seg) <= m.epoch
    OBVIOUS
  <2>2. seg \in SegmentType
    BY <1>4
  <2>3. MaxEpochOf(seg) \in EpochsOf(seg) \cup {-1} /\ MaxEpochOf(seg) \in Int
    BY <2>2, MaxEpochIsMax
  <2>4. \A e \in EpochsOf(seg) : e <= m.epoch
    BY <1>5, <2>2, EpochsAreOfRows
  <2> QED
    BY <1>2, <2>3, <2>4
<1>8. MaxEpochOf(young) = m.epoch
  <2>1. young \in SegmentType /\ m.epoch \in EpochsOf(young)
    BY <1>4, <1>6, EpochsAreOfRows
  <2>2. m.epoch <= MaxEpochOf(young)
    BY <2>1, MaxEpochIsMax
  <2> QED
    BY <1>2, <1>6, <1>7, <2>2
<1> DEFINE F == {MaxEpochOf(seg) : seg \in ToSet(segs)}
<1>9. m.epoch \in F /\ (\A e \in F : m.epoch >= e) /\ \A x \in F : (\A e \in F : x >= e) => x = m.epoch
  <2>1. m.epoch \in F /\ \A e \in F : e \in Int /\ e <= m.epoch
    BY <1>6, <1>7, <1>8
  <2> HIDE DEF F
  <2> QED
    BY <1>2, <2>1
<1>10. Max(F) = m.epoch
  <2> HIDE DEF F
  <2> QED
    BY <1>9 DEF Max
<1> QED
  BY <1>10 DEF LatestStored, segs

LEMMA BestRowToShow ==
    ASSUME NEW rows \in Seq(StoredRow), NEW hits \in SUBSET DOMAIN rows, hits # {}
    PROVE  \E i \in hits : \A j \in hits :
              \/ rows[j].epoch < rows[i].epoch
              \/ rows[j].epoch = rows[i].epoch /\ rows[j].priority > rows[i].priority
              \/ rows[j].epoch = rows[i].epoch /\ rows[j].priority = rows[i].priority /\ i <= j
<1>1. DOMAIN rows \in SUBSET Nat /\ \A i \in DOMAIN rows : rows[i] \in StoredRow
  BY LenProperties, ElementOfSeq
<1>2. \A i \in hits : i \in Nat /\ rows[i].epoch \in Nat /\ rows[i].priority \in Nat
  <2>1. \A r \in StoredRow : r.epoch \in Nat /\ r.priority \in Nat
    BY RowNumbers
  <2>2. \A i \in hits : i \in DOMAIN rows /\ i \in Nat
    BY <1>1
  <2> QED
    BY <1>1, <2>1, <2>2
<1>3. PICK a \in hits : \A j \in hits : rows[j].epoch <= rows[a].epoch
  <2> DEFINE R == {rows[i] : i \in hits}
  <2>1. R \in SUBSET StoredRow /\ R # {}
    BY <1>1
  <2>2. PICK r \in R : \A q \in R : q.epoch <= r.epoch
    <3> HIDE DEF R
    <3> QED
      BY <2>1, NewestEpochExists
  <2> QED
    BY <2>2
<1> DEFINE H == {i \in hits : rows[i].epoch = rows[a].epoch}
           P == {rows[i].priority : i \in H}
<1>4. P \in SUBSET Nat /\ P # {}
  BY <1>2
<1>5. PICK p \in P : \A x \in P : p <= x
  <2> HIDE DEF P
  <2> QED
    BY <1>4, LeastNatural
<1> DEFINE L == {i \in H : rows[i].priority = p}
<1>6. L \in SUBSET Nat /\ L # {}
  BY <1>2, <1>5
<1>7. PICK i \in L : \A j \in L : i <= j
  <2> HIDE DEF L
  <2> QED
    BY <1>6, LeastNatural
<1>8. i \in hits /\ rows[i].epoch = rows[a].epoch /\ rows[i].priority = p
  BY <1>7
<1>9. ASSUME NEW j \in hits
      PROVE  \/ rows[j].epoch < rows[i].epoch
             \/ rows[j].epoch = rows[i].epoch /\ rows[j].priority > rows[i].priority
             \/ rows[j].epoch = rows[i].epoch /\ rows[j].priority = rows[i].priority /\ i <= j
  <2>1. CASE rows[j].epoch = rows[a].epoch
    <3>1. p <= rows[j].priority
      BY <1>5, <2>1
    <3>2. rows[j].priority = p => i <= j
      BY <1>7, <2>1
    <3>3. p \in Nat /\ rows[j].priority \in Nat
      BY <1>2, <1>4, <1>5
    <3> QED
      BY <1>8, <2>1, <3>1, <3>2, <3>3
  <2>2. CASE rows[j].epoch # rows[a].epoch
    BY <1>2, <1>3, <1>8, <2>2
  <2> QED
    BY <2>1, <2>2
<1> QED
  BY <1>8, <1>9

LEMMA StateSurvives == StoreIInv => CurrentStateSurvivesEviction
<1>1. SUFFICES ASSUME StoreIInv, accepted # {}, NEW c \in Id
      PROVE  LET newestEver == Max({r.epoch : r \in accepted})
                 candidates == {r \in NewestOf(OfEntity(accepted, c)) :
                                   r.epoch >= newestEver - CurrentStateWindow}
                 shown == CurrentState(c, DefaultCutoff)
             IN  IF candidates = {} THEN shown = None
                 ELSE /\ shown \in candidates
                      /\ \A r \in candidates : shown.priority <= r.priority
  BY DEF CurrentStateSurvivesEviction
<1>2. accepted \in SUBSET StoredRow
  BY <1>1 DEF StoreIInv, LedgerIInv
<1>3. PICK m \in accepted : \A q \in accepted : q.epoch <= m.epoch
  BY <1>1, <1>2, NewestEpochExists
<1>4. \A r \in accepted : r.epoch \in Nat /\ r.priority \in Nat
  BY <1>2, RowNumbers
<1> DEFINE E == {r.epoch : r \in accepted}
<1>5. Max(E) = m.epoch
  <2>1. m.epoch \in E /\ \A e \in E : e \in Nat /\ e <= m.epoch
    BY <1>3, <1>4
  <2> HIDE DEF E
  <2>2. \A x \in E : (\A e \in E : x >= e) => x = m.epoch
    BY <2>1
  <2> QED
    BY <2>1, <2>2 DEF Max
<1>6. LatestStored = m.epoch
  BY <1>1, <1>3, YoungestIsStored
<1> DEFINE cutoff == m.epoch - CurrentStateWindow
           candidates == {r \in NewestOf(OfEntity(accepted, c)) : r.epoch >= cutoff}
           rows == AllRows(store)
           hits == {i \in DOMAIN rows : rows[i].id = c /\ rows[i].epoch >= cutoff}
           loses(j, i) == \/ rows[j].epoch < rows[i].epoch
                          \/ rows[j].epoch = rows[i].epoch /\ rows[j].priority > rows[i].priority
                          \/ rows[j].epoch = rows[i].epoch /\ rows[j].priority = rows[i].priority /\ i <= j
           best == CHOOSE i \in hits : \A j \in hits : loses(j, i)
           shown == CurrentState(c, cutoff)
<1>7. shown = IF hits = {} THEN None ELSE rows[best]
  BY DEF CurrentState
<1>8. DefaultCutoff = cutoff
  BY <1>6 DEF DefaultCutoff
<1>9. rows \in Seq(StoredRow)
  BY <1>1, StoreInParts, RowsAreRows DEF StoreIInv, AllRows
<1>10. \A i \in DOMAIN rows : rows[i] \in accepted
  <2>1. ToSet(rows) \subseteq accepted
    BY <1>1 DEF StoreIInv, RowsInHand, StoredRows
  <2> QED
    BY <2>1 DEF ToSet
<1>11. \A r \in NewestOf(OfEntity(accepted, c)) : \E i \in DOMAIN rows : rows[i] = r
  <2>1. NewestOf(OfEntity(accepted, c)) \subseteq ToSet(rows)
    BY <1>1 DEF StoreIInv, NewestInHand, StoredRows
  <2> QED
    BY <2>1 DEF ToSet
<1> HIDE DEF rows, cutoff
<1>12. cutoff \in Int
  BY <1>4, LedgerAssumption DEF cutoff
<1>13. \A r \in NewestOf(OfEntity(accepted, c)) :
          r \in accepted /\ r.id = c /\ \A q \in accepted : q.id = c => q.epoch <= r.epoch
  BY DEF NewestOf, OfEntity
<1>14. CASE candidates = {}
  <2>1. hits = {}
    <3>1. SUFFICES ASSUME NEW i \in hits PROVE FALSE
      OBVIOUS
    <3>2. rows[i] \in OfEntity(accepted, c) /\ rows[i].epoch >= cutoff
      BY <1>10 DEF OfEntity
    <3>3. PICK r \in OfEntity(accepted, c) : \A q \in OfEntity(accepted, c) : q.epoch <= r.epoch
      <4>1. OfEntity(accepted, c) \in SUBSET StoredRow /\ OfEntity(accepted, c) # {}
        BY <1>2, <3>2 DEF OfEntity
      <4> QED
        BY <4>1, NewestEpochExists
    <3>4. r \in NewestOf(OfEntity(accepted, c)) /\ rows[i].epoch <= r.epoch
      BY <3>2, <3>3 DEF NewestOf
    <3>5. r.epoch >= cutoff
      BY <1>4, <1>12, <1>13, <1>10, <3>2, <3>4
    <3> QED
      BY <1>14, <3>4, <3>5
  <2> QED
    BY <1>5, <1>7, <1>8, <1>14, <2>1 DEF cutoff
<1>15. CASE candidates # {}
  <2>1. \A r \in candidates : \E i \in hits : rows[i] = r
    BY <1>11, <1>13
  <2>2. hits # {} /\ hits \in SUBSET DOMAIN rows
    BY <1>15, <2>1
  <2> HIDE DEF hits
  <2>3. best \in hits /\ \A j \in hits : loses(j, best)
    <3>1. \E i \in hits : \A j \in hits : loses(j, i)
      BY <1>9, <2>2, BestRowToShow
    <3> QED
      BY <3>1
  <2> HIDE DEF best
  <2>4. rows[best] \in accepted /\ rows[best].id = c /\ rows[best].epoch >= cutoff
    BY <1>10, <2>3 DEF hits
  <2>5. \A r \in candidates : \E j \in hits : rows[j] = r /\ loses(j, best)
    BY <2>1, <2>3
  <2>6. \A r \in candidates : /\ r.epoch = rows[best].epoch
                              /\ rows[best].priority <= r.priority
    <3>1. SUFFICES ASSUME NEW r \in candidates
                   PROVE  r.epoch = rows[best].epoch /\ rows[best].priority <= r.priority
      OBVIOUS
    <3>2. PICK j \in hits : rows[j] = r /\ loses(j, best)
      BY <2>5
    <3>3. rows[best].epoch <= r.epoch /\ r \in accepted
      BY <1>13, <2>4
    <3>4. /\ r.epoch \in Nat /\ r.priority \in Nat
          /\ rows[best].epoch \in Nat /\ rows[best].priority \in Nat
      BY <1>4, <2>4, <3>3
    <3> QED
      BY <3>2, <3>3, <3>4
  <2>7. rows[best] \in candidates
    <3>1. PICK r \in candidates : TRUE
      BY <1>15
    <3>2. \A q \in accepted : q.id = c => q.epoch <= rows[best].epoch
      BY <1>13, <2>6, <3>1
    <3> QED
      BY <2>4, <3>2 DEF NewestOf, OfEntity
  <2>8. shown = rows[best]
    BY <1>7, <2>2
  <2> QED
    BY <1>5, <1>8, <1>15, <2>6, <2>7, <2>8 DEF cutoff
<1> QED
  BY <1>14, <1>15

\* current_state, with its default staleness window, answers of every entity as if
\* nothing had ever been evicted.
THEOREM CurrentStateIsKept == Spec => []CurrentStateSurvivesEviction
<1> QED
  BY StateSurvives, StoreInit, StoreStep, PTL DEF Spec

-----------------------------------------------------------------------------
(* What the cache shows, and the scan it stands for. *)

LEMMA FirstOfYoungest ==
    ASSUME NEW rows \in Seq(StoredRow), NEW hits \in SUBSET DOMAIN rows, hits # {}
    PROVE  \E i \in hits : \A j \in hits :
              rows[j].epoch < rows[i].epoch \/ (rows[j].epoch = rows[i].epoch /\ i <= j)
<1>1. DOMAIN rows \in SUBSET Nat /\ \A i \in DOMAIN rows : rows[i] \in StoredRow
  BY LenProperties, ElementOfSeq
<1>2. \A i \in hits : i \in Nat /\ rows[i].epoch \in Nat
  <2>1. \A i \in hits : rows[i] \in StoredRow /\ i \in Nat
    BY <1>1
  <2> QED
    BY <2>1, RowNumbers
<1>3. PICK m \in hits : \A j \in hits : rows[j].epoch <= rows[m].epoch
  <2> DEFINE R == {rows[i] : i \in hits}
  <2>1. R \in SUBSET StoredRow /\ R # {}
    BY <1>1
  <2>2. PICK r \in R : \A q \in R : q.epoch <= r.epoch
    <3> HIDE DEF R
    <3> QED
      BY <2>1, NewestEpochExists
  <2> QED
    BY <2>2
<1> DEFINE H == {i \in hits : rows[i].epoch = rows[m].epoch}
<1>4. H \in SUBSET Nat /\ H # {}
  BY <1>2
<1>5. PICK i \in H : \A j \in H : i <= j
  <2> HIDE DEF H
  <2> QED
    BY <1>4, LeastNatural
<1>6. i \in hits /\ rows[i].epoch = rows[m].epoch
  BY <1>5
<1>7. ASSUME NEW j \in hits
      PROVE  rows[j].epoch < rows[i].epoch \/ (rows[j].epoch = rows[i].epoch /\ i <= j)
  <2>1. CASE rows[j].epoch = rows[m].epoch
    BY <1>5, <1>6, <2>1
  <2>2. CASE rows[j].epoch # rows[m].epoch
    BY <1>2, <1>3, <1>6, <2>2
  <2> QED
    BY <2>1, <2>2
<1> QED
  BY <1>6, <1>7

LEMMA StoredRowsAreRows ==
    ASSUME NEW s \in StoreType
    PROVE  AllRows(s) \in Seq(StoredRow) /\ StoredRows(s) \subseteq StoredRow
<1> DEFINE all == AllRows(s)
<1>1. all \in Seq(StoredRow)
  BY StoreInParts, RowsAreRows DEF AllRows
<1> HIDE DEF all
<1>2. ToSet(all) \subseteq StoredRow
  BY <1>1, RowsAreTyped DEF ToSet
<1> QED
  BY <1>1, <1>2 DEF StoredRows, all

\* The row a scan of `rows` settles on.
Settles(rows, c, t, r) ==
    /\ r \in ToSet(rows) /\ r.id = c /\ r.epoch <= t
    /\ \A q \in ToSet(rows) : q.id = c /\ q.epoch <= t => q.epoch <= r.epoch

\* The scan settles on a youngest of the stored rows that it may see.
LEMMA ScanSettles ==
    ASSUME store \in StoreType, NEW c, NEW t \in Nat,
           NEW p \in StoredRows(store), p.id = c, p.epoch <= t
    PROVE  \E r : Settles(AllRows(store), c, t, r) /\ Scanned(c, t) = [parent |-> r.frame, pose |-> r.pose]
<1> DEFINE rows == AllRows(store)
           hits == {i \in DOMAIN rows : rows[i].id = c /\ rows[i].epoch <= t}
           beats(i, j) == rows[j].epoch < rows[i].epoch \/ (rows[j].epoch = rows[i].epoch /\ i <= j)
           best == CHOOSE i \in hits : \A j \in hits : beats(i, j)
<1>1. rows \in Seq(StoredRow) /\ StoredRows(store) = ToSet(rows)
  BY StoredRowsAreRows DEF StoredRows
<1>2. Scanned(c, t) = IF hits = {} THEN None ELSE [parent |-> rows[best].frame, pose |-> rows[best].pose]
  BY DEF Scanned
<1> HIDE DEF rows
<1>3. PICK k \in DOMAIN rows : rows[k] = p
  BY <1>1 DEF ToSet
<1>4. k \in hits /\ hits \in SUBSET DOMAIN rows
  BY <1>3
<1>5. \A i \in hits : rows[i].id = c /\ rows[i].epoch <= t /\ rows[i] \in ToSet(rows)
  BY DEF ToSet
<1>6. \A i \in hits : rows[i].epoch \in Nat
  BY <1>1, <1>5, RowNumbers, RowsAreTyped
<1>7. \A q \in ToSet(rows) : q.id = c /\ q.epoch <= t => \E j \in hits : rows[j] = q
  BY DEF ToSet
<1> HIDE DEF hits
<1>8. \E i \in hits : \A j \in hits : beats(i, j)
  BY <1>1, <1>4, FirstOfYoungest
<1>9. best \in hits /\ \A j \in hits : beats(best, j)
  BY <1>8
<1> HIDE DEF best
<1>10. \A j \in hits : rows[j].epoch <= rows[best].epoch
  BY <1>6, <1>9
<1>11. Settles(rows, c, t, rows[best])
  BY <1>5, <1>7, <1>9, <1>10 DEF Settles
<1> QED
  BY <1>2, <1>4, <1>11 DEF rows

\* Rows of equal epoch in any order, evictions that reorder them, copies that fail:
\* where resolve_frame_at answers from the cache, it shows a newest row of the entity,
\* and so would the scan.  They agree whenever no two rows tie for the newest.
THEOREM FastPathShowsTheNewest == Spec => []FastPathShowsNewest
<1>1. StoreIInv => FastPathShowsNewest
  <2> SUFFICES ASSUME StoreIInv, NEW c \in Id, NEW t \in Epoch,
                      latestPose[c] # None, latestPose[c].epoch <= t
               PROVE  \A shown \in {ResolveFrameAt(c, t), Scanned(c, t)} :
                         \E r \in NewestOf(OfEntity(accepted, c)) : shown = [parent |-> r.frame, pose |-> r.pose]
    BY DEF FastPathShowsNewest
  <2>1. /\ store \in StoreType /\ StoredRows(store) \subseteq accepted /\ NewestInHand(store, accepted)
        /\ accepted \in SUBSET StoredRow /\ IsNewest(latestPose, accepted) /\ t \in Nat
    BY DEF StoreIInv, LedgerIInv, CacheIsNewest, RowsInHand, Epoch
  <2>2. PICK p \in StoredRow : CameFrom(latestPose, c, accepted, p)
    BY <2>1, CachedRow
  <2>3. /\ p \in NewestOf(OfEntity(accepted, c)) /\ p.id = c /\ p.epoch <= t
        /\ ResolveFrameAt(c, t) = [parent |-> p.frame, pose |-> p.pose]
    BY <2>2 DEF CameFrom, IsYoungest, ResolveFrameAt, NewestOf, OfEntity
  <2>4. p \in StoredRows(store)
    BY <2>1, <2>3 DEF NewestInHand
  <2>5. PICK r : Settles(AllRows(store), c, t, r) /\ Scanned(c, t) = [parent |-> r.frame, pose |-> r.pose]
    BY <2>1, <2>3, <2>4, ScanSettles
  <2>6. r \in accepted /\ r.id = c /\ p.epoch <= r.epoch
    BY <2>1, <2>3, <2>4, <2>5 DEF Settles, StoredRows
  <2>7. r \in NewestOf(OfEntity(accepted, c))
    <3>1. \A q \in accepted : q.id = c => q.epoch <= p.epoch
      BY <2>3 DEF NewestOf, OfEntity
    <3>2. \A q \in accepted : q.epoch \in Nat
      BY <2>1, RowNumbers
    <3>3. p \in accepted
      BY <2>3 DEF NewestOf, OfEntity
    <3>4. \A q \in accepted : q.id = c => q.epoch <= r.epoch
      BY <2>6, <3>1, <3>2, <3>3
    <3> QED
      BY <2>6, <3>4 DEF NewestOf, OfEntity
  <2> QED
    BY <2>3, <2>5, <2>7
<1> QED
  BY <1>1, StoreInit, StoreStep, PTL DEF Spec
=============================================================================
