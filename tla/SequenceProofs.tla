--------------------------- MODULE SequenceProofs ---------------------------
(***************************************************************************)
(* Lemmas about sequences that the other proofs share.                     *)
(*                                                                         *)
(* FlattenSeq, RemoveAt and ToSet are recursive functions in the community *)
(* modules.  Each is characterised first by its value on the empty         *)
(* sequence and on an appended element, and everything else follows by     *)
(* induction on the sequence.                                              *)
(***************************************************************************)
EXTENDS SequencesExt, SequenceTheorems, NaturalsInduction, FiniteSetTheorems, WellFoundedInduction, TLAPS

-----------------------------------------------------------------------------
(* Induction, over sets.  *)

\* Induction on naturals, for a set.
LEMMA NaturalsByStep ==
    ASSUME NEW T \in SUBSET Nat, 0 \in T, \A n \in T : n + 1 \in T
    PROVE  T = Nat
<1>1. SUFFICES ASSUME Nat \ T # {} PROVE FALSE
  OBVIOUS
<1>2. PICK m \in Nat \ T : \A n \in Nat \ T : ~(<<n, m>> \in OpToRel(<, Nat))
  BY <1>1, NatLessThanWellFounded, WFMin
<1>3. m # 0 /\ m - 1 \in Nat /\ m - 1 < m /\ (m - 1) + 1 = m
  OBVIOUS
<1>4. m - 1 \in T
  BY <1>2, <1>3 DEF OpToRel
<1> QED
  BY <1>3, <1>4

LEMMA SequencesByAppend ==
    ASSUME NEW S, NEW T \in SUBSET Seq(S), <<>> \in T,
           \A s \in T, e \in S : Append(s, e) \in T
    PROVE  T = Seq(S)
<1> DEFINE L == {n \in Nat : \A s \in Seq(S) : Len(s) = n => s \in T}
<1>1. 0 \in L
  <2>1. \A s \in Seq(S) : Len(s) = 0 => s = <<>>
    BY EmptySeq
  <2> QED
    BY <2>1
<1>2. ASSUME NEW n \in L PROVE n + 1 \in L
  <2>1. SUFFICES ASSUME NEW s \in Seq(S), Len(s) = n + 1 PROVE s \in T
    OBVIOUS
  <2>2. PICK t \in Seq(S), e \in S : s = Append(t, e)
    <3>1. s # <<>>
      BY <2>1
    <3> QED
      BY <3>1, SequenceEmptyOrAppend
  <2>3. Len(t) = n
    BY <2>1, <2>2, AppendProperties
  <2> QED
    BY <2>2, <2>3
<1> HIDE DEF L
<1>3. L = Nat
  <2>1. L \in SUBSET Nat
    BY DEF L
  <2> QED
    BY <1>1, <1>2, <2>1, NaturalsByStep
<1>4. \A s \in Seq(S) : Len(s) \in L
  BY <1>3
<1> QED
  BY <1>4 DEF L


-----------------------------------------------------------------------------
PartlyFlat(f, seqs, n) == f = [i \in 1..n |-> IF i = 1 THEN seqs[i] ELSE f[i - 1] \o seqs[i]]

LEMMA RunningExists ==
    ASSUME NEW seqs, NEW n \in Nat
    PROVE  \E f : PartlyFlat(f, seqs, n)
<1> DEFINE T == {m \in Nat : \E f : PartlyFlat(f, seqs, m)}
<1>1. 0 \in T
  <2>1. PartlyFlat([i \in 1..0 |-> i], seqs, 0)
    BY DEF PartlyFlat
  <2> QED
    BY <2>1
<1>2. ASSUME NEW m \in T PROVE m + 1 \in T
  <2>1. PICK f : PartlyFlat(f, seqs, m)
    OBVIOUS
  <2> DEFINE g == [i \in 1..(m + 1) |-> IF i <= m THEN f[i] ELSE IF i = 1 THEN seqs[i] ELSE f[i - 1] \o seqs[i]]
  <2>2. m \in Nat
    OBVIOUS
  <2>3. ASSUME NEW i \in 1..(m + 1)
        PROVE  g[i] = IF i = 1 THEN seqs[i] ELSE g[i - 1] \o seqs[i]
    <3>1. CASE i <= m
      <4>1. i \in 1..m /\ (i # 1 => i - 1 \in 1..m /\ i - 1 \in 1..(m + 1) /\ i - 1 <= m)
        BY <2>2, <3>1
      <4>2. f[i] = IF i = 1 THEN seqs[i] ELSE f[i - 1] \o seqs[i]
        BY <2>1, <4>1 DEF PartlyFlat
      <4> QED
        BY <3>1, <4>1, <4>2
    <3>2. CASE ~(i <= m)
      <4>1. i # 1 => i - 1 \in 1..(m + 1) /\ i - 1 <= m
        BY <2>2
      <4> QED
        BY <3>2, <4>1
    <3> QED
      BY <3>1, <3>2
  <2>4. PartlyFlat(g, seqs, m + 1)
    <3>1. g = [i \in 1..(m + 1) |-> g[i]]
      OBVIOUS
    <3> HIDE DEF g
    <3> QED
      BY <2>3, <3>1 DEF PartlyFlat
  <2> QED
    BY <2>2, <2>4
<1> HIDE DEF T
<1>3. T = Nat
  <2>1. T \in SUBSET Nat
    BY DEF T
  <2> QED
    BY <1>1, <1>2, <2>1, NaturalsByStep
<1> QED
  BY <1>3 DEF T

LEMMA RunningEnds ==
    ASSUME NEW S, NEW seqs \in Seq(S), seqs # <<>>
    PROVE  \E f : PartlyFlat(f, seqs, Len(seqs)) /\ FlattenSeq(seqs) = f[Len(seqs)]
<1> DEFINE f == CHOOSE g : PartlyFlat(g, seqs, Len(seqs))
<1>1. Len(seqs) \in Nat /\ Len(seqs) # 0
  BY EmptySeq
<1>2. PartlyFlat(f, seqs, Len(seqs))
  BY <1>1, RunningExists
<1>3. FlattenSeq(seqs) = f[Len(seqs)]
  BY <1>1 DEF FlattenSeq, PartlyFlat
<1> QED
  BY <1>2, <1>3

\* A function on 1..n is a sequence of that length.
LEMMA TabulatedSeq ==
    ASSUME NEW S, NEW n \in Nat, NEW f, f = [i \in 1..n |-> f[i]], \A i \in 1..n : f[i] \in S
    PROVE  f \in Seq(S) /\ Len(f) = n
<1>1. f \in [1..n -> S]
  OBVIOUS
<1> QED
  BY <1>1, LenProperties

LEMMA FlattenEmpty == FlattenSeq(<<>>) = <<>>
  BY DEF FlattenSeq

LEMMA FlattenAppend ==
    ASSUME NEW S, NEW seqs \in Seq(Seq(S)), NEW s \in Seq(S)
    PROVE  FlattenSeq(Append(seqs, s)) = FlattenSeq(seqs) \o s
<1> DEFINE n == Len(seqs)
           more == Append(seqs, s)
<1>1. /\ more \in Seq(Seq(S)) /\ more # <<>> /\ Len(more) = n + 1 /\ n \in Nat
      /\ \A i \in 1..n : more[i] = seqs[i]
      /\ more[n + 1] = s
  BY AppendProperties, LenProperties
<1> HIDE DEF more
<1>2. PICK g : PartlyFlat(g, more, n + 1) /\ FlattenSeq(more) = g[n + 1]
  BY <1>1, RunningEnds
<1> HIDE DEF n
<1>3. g[n + 1] = IF n + 1 = 1 THEN s ELSE g[n] \o s
  <2>1. n + 1 \in 1..(n + 1) /\ (n + 1) - 1 = n
    BY <1>1
  <2>2. g[n + 1] = IF n + 1 = 1 THEN more[n + 1] ELSE g[(n + 1) - 1] \o more[n + 1]
    BY <1>2, <2>1 DEF PartlyFlat
  <2> QED
    BY <1>1, <2>1, <2>2
<1>4. CASE seqs = <<>>
  <2>1. n = 0
    BY <1>4 DEF n
  <2>2. FlattenSeq(seqs) \o s = s
    BY <1>4, FlattenEmpty, ConcatEmptySeq
  <2> QED
    BY <1>2, <1>3, <2>1, <2>2 DEF more
<1>5. CASE seqs # <<>>
  <2>1. PICK f : PartlyFlat(f, seqs, n) /\ FlattenSeq(seqs) = f[n]
    BY <1>5, RunningEnds DEF n
  <2>2. n \in 1..n /\ n <= n + 1 /\ n + 1 \in Nat /\ n + 1 # 1
    BY <1>1, <1>5, EmptySeq DEF n
  <2>3. f[n] = g[n]
    <3> DEFINE T == {k \in Nat : k \in 1..n => f[k] = g[k]}
    <3>1. 0 \in T
      OBVIOUS
    <3>2. ASSUME NEW k \in T PROVE k + 1 \in T
      <4>1. SUFFICES ASSUME k + 1 \in 1..n PROVE f[k + 1] = g[k + 1]
        OBVIOUS
      <4>2. k + 1 \in 1..(n + 1) /\ (k + 1) - 1 = k /\ (k + 1 # 1 => k \in 1..n)
        <5>1. k \in Nat /\ n \in Nat
          BY <1>1
        <5> HIDE DEF T
        <5> QED
          BY <4>1, <5>1
      <4>3. f[k + 1] = IF k + 1 = 1 THEN seqs[k + 1] ELSE f[k] \o seqs[k + 1]
        BY <2>1, <4>1, <4>2 DEF PartlyFlat
      <4>4. g[k + 1] = IF k + 1 = 1 THEN more[k + 1] ELSE g[k] \o more[k + 1]
        BY <1>2, <4>2 DEF PartlyFlat
      <4> QED
        BY <1>1, <4>1, <4>2, <4>3, <4>4
    <3> HIDE DEF T
    <3>3. T = Nat
      <4>1. T \in SUBSET Nat
        BY DEF T
      <4> QED
        BY <3>1, <3>2, <4>1, NaturalsByStep
    <3> QED
      BY <1>1, <2>2, <3>3 DEF T
  <2> QED
    BY <1>1, <1>2, <1>3, <2>1, <2>2, <2>3 DEF more
<1> QED
  BY <1>4, <1>5

LEMMA FlattenIsSeq ==
    ASSUME NEW S, NEW seqs \in Seq(Seq(S))
    PROVE  FlattenSeq(seqs) \in Seq(S)
<1> DEFINE T == {q \in Seq(Seq(S)) : FlattenSeq(q) \in Seq(S)}
<1>1. <<>> \in T
  BY FlattenEmpty, EmptySeq
<1>2. ASSUME NEW q \in T, NEW s \in Seq(S) PROVE Append(q, s) \in T
  BY FlattenAppend, ConcatProperties, AppendProperties
<1>3. T \in SUBSET Seq(Seq(S))
  OBVIOUS
<1> HIDE DEF T
<1>4. T = Seq(Seq(S))
  BY <1>1, <1>2, <1>3, SequencesByAppend
<1> QED
  BY <1>4 DEF T

LEMMA FlattenOne ==
    ASSUME NEW S, NEW s \in Seq(S)
    PROVE  FlattenSeq(<<s>>) = s
<1>1. <<>> \in Seq(Seq(S)) /\ <<s>> = Append(<<>>, s)
  OBVIOUS
<1>2. FlattenSeq(<<s>>) = FlattenSeq(<<>>) \o s
  BY <1>1, FlattenAppend
<1> QED
  BY <1>2, FlattenEmpty, ConcatEmptySeq

LEMMA ConcatAppend ==
    ASSUME NEW S, NEW s \in Seq(S), NEW t \in Seq(S), NEW e \in S
    PROVE  s \o Append(t, e) = Append(s \o t, e)
<1>1. <<e>> \in Seq(S)
  OBVIOUS
<1> QED
  BY <1>1, AppendIsConcat, ConcatAssociative, ConcatProperties

LEMMA FlattenConcat ==
    ASSUME NEW S, NEW p \in Seq(Seq(S)), NEW q \in Seq(Seq(S))
    PROVE  FlattenSeq(p \o q) = FlattenSeq(p) \o FlattenSeq(q)
<1> DEFINE T == {t \in Seq(Seq(S)) : FlattenSeq(p \o t) = FlattenSeq(p) \o FlattenSeq(t)}
<1>1. <<>> \in T
  BY FlattenEmpty, EmptySeq, ConcatEmptySeq, FlattenIsSeq
<1>2. ASSUME NEW t \in T, NEW s \in Seq(S) PROVE Append(t, s) \in T
  <2>1. t \in Seq(Seq(S)) /\ FlattenSeq(p \o t) = FlattenSeq(p) \o FlattenSeq(t)
    OBVIOUS
  <2> HIDE DEF T
  <2>2. p \o Append(t, s) = Append(p \o t, s) /\ p \o t \in Seq(Seq(S))
    BY <2>1, ConcatAppend, ConcatProperties, SMTT(30)
  <2>3. FlattenSeq(p \o Append(t, s)) = (FlattenSeq(p) \o FlattenSeq(t)) \o s
    BY <2>1, <2>2, FlattenAppend
  <2>4. FlattenSeq(Append(t, s)) = FlattenSeq(t) \o s
    BY <2>1, FlattenAppend
  <2>5. FlattenSeq(p) \in Seq(S) /\ FlattenSeq(t) \in Seq(S)
    BY <2>1, FlattenIsSeq
  <2>6. (FlattenSeq(p) \o FlattenSeq(t)) \o s = FlattenSeq(p) \o (FlattenSeq(t) \o s)
    BY <2>5, ConcatAssociative, SMTT(30)
  <2>7. Append(t, s) \in Seq(Seq(S))
    BY <2>1, AppendProperties
  <2> QED
    BY <2>3, <2>4, <2>6, <2>7 DEF T
<1>3. T \in SUBSET Seq(Seq(S))
  OBVIOUS
<1> HIDE DEF T
<1>4. T = Seq(Seq(S))
  BY <1>1, <1>2, <1>3, SequencesByAppend
<1> QED
  BY <1>4 DEF T

LEMMA SetOfConcat ==
    ASSUME NEW S, NEW s \in Seq(S), NEW t \in Seq(S)
    PROVE  ToSet(s \o t) = ToSet(s) \cup ToSet(t)
<1>1. ToSet(s) = Range(s) /\ ToSet(t) = Range(t) /\ ToSet(s \o t) = Range(s \o t)
  BY DEF ToSet, Range
<1> QED
  BY <1>1, RangeConcatenation

LEMMA SetOfAppend ==
    ASSUME NEW S, NEW s \in Seq(S), NEW e \in S
    PROVE  ToSet(Append(s, e)) = ToSet(s) \cup {e}
<1>1. Append(s, e) = s \o <<e>> /\ <<e>> \in Seq(S)
  BY AppendIsConcat
<1>2. ToSet(<<e>>) = {e}
  BY DEF ToSet
<1>3. ToSet(s \o <<e>>) = ToSet(s) \cup ToSet(<<e>>)
  BY <1>1, SetOfConcat, ZenonT(30)
<1> QED
  BY <1>1, <1>2, <1>3

LEMMA SetOfFlatten ==
    ASSUME NEW S, NEW seqs \in Seq(Seq(S))
    PROVE  ToSet(FlattenSeq(seqs)) = UNION {ToSet(s) : s \in ToSet(seqs)}
<1> DEFINE All(q) == UNION {ToSet(s) : s \in ToSet(q)}
           T == {q \in Seq(Seq(S)) : ToSet(FlattenSeq(q)) = All(q)}
<1>1. <<>> \in T
  <2>1. ToSet(<<>>) = {}
    BY DEF ToSet
  <2> QED
    BY <2>1, FlattenEmpty, EmptySeq
<1>2. ASSUME NEW q \in T, NEW s \in Seq(S) PROVE Append(q, s) \in T
  <2>1. q \in Seq(Seq(S)) /\ ToSet(FlattenSeq(q)) = All(q)
    OBVIOUS
  <2>2. ToSet(FlattenSeq(Append(q, s))) = All(q) \cup ToSet(s)
    <3>1. FlattenSeq(Append(q, s)) = FlattenSeq(q) \o s /\ FlattenSeq(q) \in Seq(S)
      BY <2>1, FlattenAppend, FlattenIsSeq
    <3>2. ToSet(FlattenSeq(q) \o s) = ToSet(FlattenSeq(q)) \cup ToSet(s)
      BY <3>1, SetOfConcat
    <3> QED
      BY <2>1, <3>1, <3>2
  <2>3. ToSet(Append(q, s)) = ToSet(q) \cup {s}
    BY <2>1, SetOfAppend
  <2>4. All(Append(q, s)) = All(q) \cup ToSet(s)
    BY <2>3
  <2>5. Append(q, s) \in Seq(Seq(S))
    BY <2>1, AppendProperties
  <2> QED
    BY <2>2, <2>4, <2>5
<1>3. T \in SUBSET Seq(Seq(S))
  OBVIOUS
<1> HIDE DEF T
<1>4. T = Seq(Seq(S))
  BY <1>1, <1>2, <1>3, SequencesByAppend
<1> QED
  BY <1>4 DEF T

LEMMA InjectiveConcat ==
    ASSUME NEW S, NEW s \in Seq(S), NEW t \in Seq(S)
    PROVE  IsInjective(s \o t) <=> /\ IsInjective(s) /\ IsInjective(t)
                                   /\ ToSet(s) \cap ToSet(t) = {}
<1> DEFINE m == Len(s)
           n == Len(t)
           c == s \o t
<1>1. m \in Nat /\ n \in Nat /\ DOMAIN s = 1..m /\ DOMAIN t = 1..n /\ DOMAIN c = 1..(m + n)
  BY LenProperties, ConcatProperties
<1>2. \A i \in 1..(m + n) : c[i] = IF i <= m THEN s[i] ELSE t[i - m]
  BY ConcatProperties
<1> HIDE DEF m, n, c
<1>3. \A i \in 1..m : i \in 1..(m + n) /\ c[i] = s[i]
  BY <1>1, <1>2
<1>4. \A i \in 1..n : m + i \in 1..(m + n) /\ c[m + i] = t[i]
  BY <1>1, <1>2
<1>5. ASSUME IsInjective(c) PROVE IsInjective(s) /\ IsInjective(t) /\ ToSet(s) \cap ToSet(t) = {}
  <2>1. IsInjective(s)
    BY <1>1, <1>3, <1>5 DEF IsInjective
  <2>2. IsInjective(t)
    <3>1. SUFFICES ASSUME NEW i \in 1..n, NEW j \in 1..n, t[i] = t[j] PROVE i = j
      BY <1>1 DEF IsInjective
    <3>2. m + i = m + j
      BY <1>1, <1>4, <1>5, <3>1 DEF IsInjective
    <3> QED
      BY <1>1, <3>2
  <2>3. ASSUME NEW i \in 1..m, NEW j \in 1..n, s[i] = t[j] PROVE FALSE
    <3>1. i = m + j
      BY <1>1, <1>3, <1>4, <1>5, <2>3 DEF IsInjective
    <3> QED
      BY <1>1, <3>1
  <2> QED
    BY <1>1, <2>1, <2>2, <2>3 DEF ToSet
<1>6. ASSUME IsInjective(s), IsInjective(t), ToSet(s) \cap ToSet(t) = {} PROVE IsInjective(c)
  <2>1. SUFFICES ASSUME NEW i \in 1..(m + n), NEW j \in 1..(m + n), c[i] = c[j] PROVE i = j
    BY <1>1 DEF IsInjective
  <2>2. \A p \in 1..m, q \in 1..n : s[p] # t[q]
    BY <1>1, <1>6 DEF ToSet
  <2>3. \A p \in 1..(m + n) : ~(p <= m) => p - m \in 1..n
    BY <1>1
  <2>4. \A p \in 1..(m + n) : p <= m => p \in 1..m
    BY <1>1
  <2>5. CASE i <= m /\ j <= m
    BY <1>1, <1>2, <1>6, <2>1, <2>4, <2>5 DEF IsInjective
  <2>6. CASE ~(i <= m) /\ ~(j <= m)
    <3>1. i - m = j - m
      BY <1>1, <1>2, <1>6, <2>1, <2>3, <2>6 DEF IsInjective
    <3> QED
      BY <1>1, <3>1
  <2>7. CASE i <= m /\ ~(j <= m)
    BY <1>2, <2>1, <2>2, <2>3, <2>4, <2>7
  <2>8. CASE ~(i <= m) /\ j <= m
    BY <1>2, <2>1, <2>2, <2>3, <2>4, <2>8
  <2> QED
    BY <2>5, <2>6, <2>7, <2>8
<1> QED
  BY <1>5, <1>6 DEF c

LEMMA SeqAroundPlace ==
    ASSUME NEW S, NEW s \in Seq(S), NEW i \in 1..Len(s)
    PROVE  LET before == SubSeq(s, 1, i - 1)
               behind == SubSeq(s, i + 1, Len(s))
           IN  /\ before \in Seq(S) /\ behind \in Seq(S) /\ s[i] \in S
               /\ s = Append(before, s[i]) \o behind
               /\ RemoveAt(s, i) = before \o behind
               /\ Len(RemoveAt(s, i)) = Len(s) - 1
<1> DEFINE before == SubSeq(s, 1, i - 1)
           behind == SubSeq(s, i + 1, Len(s))
           n == Len(s)
<1>1. n \in Nat /\ \A j \in 1..n : s[j] \in S
  BY LenProperties, ElementOfSeq
<1>2. i \in 1..n /\ i \in Int /\ i - 1 \in Int /\ i + 1 \in Int /\ n \in Int
  BY <1>1
<1>3. before \in Seq(S) /\ Len(before) = i - 1
  <2>1. \A j \in 1..(i - 1) : s[j] \in S
    BY <1>1
  <2> QED
    BY <1>1, <1>2, <2>1, SubSeqProperties
<1>4. behind \in Seq(S) /\ Len(behind) = n - i
  <2>1. \A j \in (i + 1)..n : s[j] \in S
    BY <1>1
  <2> QED
    BY <1>1, <1>2, <2>1, SubSeqProperties
<1>5. s = Append(before, s[i]) \o behind
  <2>1. Append(before, s[i]) = SubSeq(s, 1, i)
    <3>1. 1 \in 1..Len(s) /\ i \in 1..Len(s)
      BY <1>1
    <3>2. SubSeq(s, 1, i) = SubSeq(s, 1, i - 1) \o <<s[i]>>
      BY <3>1, SubSeqRecursiveSecond
    <3>3. Append(before, s[i]) = before \o <<s[i]>>
      BY <1>1, <1>3, AppendIsConcat
    <3> QED
      BY <3>2, <3>3
  <2>2. SubSeq(s, 1, i) \o SubSeq(s, i + 1, n) = SubSeq(s, 1, n)
    <3>1. 1 \in 1..(Len(s) + 1) /\ i \in (1 - 1)..Len(s) /\ Len(s) \in i..Len(s)
      BY <1>1
    <3> QED
      BY <3>1, ConcatAdjacentSubSeq
  <2> QED
    BY <2>1, <2>2, SubSeqFull
<1>6. RemoveAt(s, i) = before \o behind
  BY DEF RemoveAt
<1>7. Len(before \o behind) = n - 1
  <2>1. Len(before \o behind) = Len(before) + Len(behind)
    BY <1>3, <1>4, ConcatProperties
  <2> HIDE DEF before, behind
  <2> QED
    BY <1>1, <1>3, <1>4, <2>1
<1> QED
  BY <1>1, <1>3, <1>4, <1>5, <1>6, <1>7

LEMMA ThreeParts ==
    ASSUME NEW S, NEW x \in Seq(S), NEW y \in Seq(S), NEW z \in Seq(S)
    PROVE  /\ (x \o y) \o z \in Seq(S)
           /\ ToSet((x \o y) \o z) = ToSet(x) \cup ToSet(y) \cup ToSet(z)
           /\ IsInjective((x \o y) \o z) <=>
                 /\ IsInjective(x) /\ IsInjective(y) /\ IsInjective(z)
                 /\ ToSet(x) \cap ToSet(y) = {} /\ ToSet(x) \cap ToSet(z) = {} /\ ToSet(y) \cap ToSet(z) = {}
<1> DEFINE u == x \o y
<1>1. /\ u \in Seq(S) /\ ToSet(u) = ToSet(x) \cup ToSet(y)
      /\ IsInjective(u) <=> IsInjective(x) /\ IsInjective(y) /\ ToSet(x) \cap ToSet(y) = {}
  BY ConcatProperties, SetOfConcat, InjectiveConcat
<1> HIDE DEF u
<1>2. /\ u \o z \in Seq(S) /\ ToSet(u \o z) = ToSet(u) \cup ToSet(z)
      /\ IsInjective(u \o z) <=> IsInjective(u) /\ IsInjective(z) /\ ToSet(u) \cap ToSet(z) = {}
  <2>1. u \in Seq(S)
    BY <1>1
  <2> QED
    BY <2>1, ConcatProperties, SetOfConcat, InjectiveConcat
<1>3. ToSet(u) \cap ToSet(z) = {} <=> ToSet(x) \cap ToSet(z) = {} /\ ToSet(y) \cap ToSet(z) = {}
  BY <1>1
<1> QED
  BY <1>1, <1>2, <1>3 DEF u

\* What a sequence put together from two or three others holds.
OfTwo(w, x, y) ==
    /\ ToSet(w) = ToSet(x) \cup ToSet(y)
    /\ IsInjective(w) <=> IsInjective(x) /\ IsInjective(y) /\ ToSet(x) \cap ToSet(y) = {}

OfThree(w, x, y, z) ==
    /\ ToSet(w) = ToSet(x) \cup ToSet(y) \cup ToSet(z)
    /\ IsInjective(w) <=>
          /\ IsInjective(x) /\ IsInjective(y) /\ IsInjective(z)
          /\ ToSet(x) \cap ToSet(y) = {} /\ ToSet(x) \cap ToSet(z) = {} /\ ToSet(y) \cap ToSet(z) = {}

LEMMA TwoPartsOf ==
    ASSUME NEW S, NEW x \in Seq(S), NEW y \in Seq(S)
    PROVE  x \o y \in Seq(S) /\ OfTwo(x \o y, x, y)
  BY ConcatProperties, SetOfConcat, InjectiveConcat DEF OfTwo

LEMMA ThreePartsOf ==
    ASSUME NEW S, NEW x \in Seq(S), NEW y \in Seq(S), NEW z \in Seq(S)
    PROVE  (x \o y) \o z \in Seq(S) /\ OfThree((x \o y) \o z, x, y, z)
  BY ThreeParts DEF OfThree

\* x and y make s.
Cut(s, x, y) == s = x \o y

LEMMA ConcatOfThree ==
    ASSUME NEW S, NEW x \in Seq(S), NEW y \in Seq(S), NEW z \in Seq(S)
    PROVE  Cut(x \o (y \o z), x \o y, z) /\ x \o y \in Seq(S)
<1>1. x \o y \in Seq(S)
  BY ConcatProperties
<1>2. (x \o y) \o z = x \o (y \o z)
  BY ConcatAssociative
<1> QED
  BY <1>1, <1>2 DEF Cut

\* Two ways to cut one sequence in two: the longer front goes on where the shorter ends.
LEMMA ConcatMeets ==
    ASSUME NEW S, NEW x \in Seq(S), NEW y \in Seq(S), NEW p \in Seq(S), NEW w \in Seq(S),
           NEW s, Cut(s, x, y), Cut(s, p, w), Len(x) <= Len(p)
    PROVE  \E z \in Seq(S) : Cut(p, x, z) /\ Cut(y, z, w)
<1> DEFINE n == Len(x)
           m == Len(p)
           z == SubSeq(p, n + 1, m)
<1>0. x \o y = p \o w
  BY DEF Cut
<1>1. n \in Nat /\ m \in Nat /\ n <= m /\ Len(y) \in Nat /\ Len(w) \in Nat
  BY LenProperties
<1>2. /\ Len(x \o y) = n + Len(y) /\ Len(p \o w) = m + Len(w)
      /\ \A i \in 1..n : (x \o y)[i] = x[i]
      /\ \A i \in 1..m : (p \o w)[i] = p[i]
  BY <1>0, <1>1, ConcatProperties
<1>3. z \in Seq(S) /\ Len(z) = m - n /\ \A i \in 1..(m - n) : z[i] = p[n + i]
  <2>1. \A i \in (n + 1)..m : p[i] \in S
    BY <1>1, ElementOfSeq
  <2>2. /\ z \in Seq(S) /\ Len(z) = (IF n + 1 <= m THEN m - (n + 1) + 1 ELSE 0)
        /\ \A i \in 1..(m - (n + 1) + 1) : z[i] = p[(n + 1) + i - 1]
    BY <1>1, <2>1, SubSeqProperties
  <2> HIDE DEF z
  <2> QED
    BY <1>1, <2>2
<1> HIDE DEF z
<1>4. p = x \o z
  <2>1. /\ x \o z \in Seq(S) /\ Len(x \o z) = n + (m - n)
        /\ \A i \in 1..(n + (m - n)) : (x \o z)[i] = IF i <= n THEN x[i] ELSE z[i - n]
    BY <1>3, ConcatProperties
  <2>2. Len(x \o z) = Len(p)
    BY <1>1, <2>1
  <2>3. ASSUME NEW i \in 1..Len(p) PROVE (x \o z)[i] = p[i]
    <3>1. CASE i <= n
      BY <1>0, <1>1, <1>2, <2>1, <3>1
    <3>2. CASE ~(i <= n)
      <4>1. i - n \in 1..(m - n) /\ n + (i - n) = i
        BY <1>1, <3>2
      <4> QED
        BY <1>0, <1>1, <1>2, <1>3, <2>1, <3>2, <4>1
    <3> QED
      BY <3>1, <3>2
  <2> QED
    BY <2>1, <2>2, <2>3, SeqEqual
<1>5. y = z \o w
  <2> z \in Seq(S)
    BY <1>3
  <2> DEFINE v == z \o w
  <2>1. v \in Seq(S)
    BY ConcatProperties
  <2>2. (x \o z) \o w = x \o v
    <3>1. Cut(x \o (z \o w), x \o z, w)
      BY ConcatOfThree
    <3> QED
      BY <3>1 DEF Cut
  <2> HIDE DEF v
  <2>3. x \o y = x \o v
    BY <1>0, <1>4, <2>2
  <2>4. \A t, u \in Seq(S) : x \o t = x \o u => t = u
    BY ConcatSimplifications
  <2> QED
    BY <2>1, <2>3, <2>4 DEF v
<1> QED
  BY <1>3, <1>4, <1>5 DEF Cut

\* y is what is left of x when its front is cut off.
EndsWith(S, x, y) == \E a \in Seq(S) : x = a \o y

LEMMA EndsWithOnward ==
    ASSUME NEW S, NEW x, NEW y, NEW z \in Seq(S), EndsWith(S, x, y), EndsWith(S, y, z)
    PROVE  EndsWith(S, x, z)
<1>1. PICK a \in Seq(S), b \in Seq(S) : x = a \o y /\ y = b \o z
  BY DEF EndsWith
<1>2. a \o b \in Seq(S)
  BY ConcatProperties
<1>3. (a \o b) \o z = a \o (b \o z)
  BY ConcatOfThree DEF Cut
<1> QED
  BY <1>1, <1>2, <1>3 DEF EndsWith

\* One cut of a sequence in two falls before or behind another.
LEMMA CutsMeet ==
    ASSUME NEW S, NEW x \in Seq(S), NEW y \in Seq(S), NEW p \in Seq(S), NEW w \in Seq(S),
           NEW s, Cut(s, x, y), Cut(s, p, w)
    PROVE  \/ \E z \in Seq(S) : Cut(p, x, z)
           \/ \E z \in Seq(S) : Cut(x, p, z) /\ Cut(w, z, y)
<1>1. Len(x) \in Nat /\ Len(p) \in Nat
  BY LenProperties
<1>2. CASE Len(x) <= Len(p)
  BY <1>2, ConcatMeets
<1>3. CASE Len(p) <= Len(x)
  BY <1>3, ConcatMeets
<1>4. Len(x) <= Len(p) \/ Len(p) <= Len(x)
  BY <1>1
<1> QED
  BY <1>2, <1>3, <1>4, Zenon

LEMMA NoElements ==
    ASSUME NEW S, NEW x \in Seq(S), ToSet(x) = {}
    PROVE  x = <<>>
<1>1. x # <<>> => 1 \in DOMAIN x
  BY EmptySeq, LenProperties
<1>2. 1 \in DOMAIN x => x[1] \in ToSet(x)
  BY DEF ToSet
<1> QED
  BY <1>1, <1>2

\* Without the first of the parts that has any element, it has lost its front.
LEMMA CutFront ==
    ASSUME NEW S, NEW a \in Seq(S), NEW v \in Seq(S), NEW b \in Seq(S), NEW c \in Seq(S),
           ToSet(a) = {} \/ ToSet(v) = {}
    PROVE  EndsWith(S, ((a \o v) \o b) \o c, (a \o b) \o c)
<1>1. CASE ToSet(a) = {}
  <2>1. a = <<>> /\ a \o v = v /\ a \o b = b
    BY <1>1, NoElements, ConcatEmptySeq
  <2>2. (v \o b) \o c = v \o (b \o c)
    BY ConcatAssociative
  <2> QED
    BY <2>1, <2>2 DEF EndsWith
<1>2. CASE ToSet(v) = {}
  <2> DEFINE rest == (a \o b) \o c
  <2>1. v = <<>> /\ a \o v = a
    BY <1>2, NoElements, ConcatEmptySeq
  <2>2. rest \in Seq(S)
    BY ConcatProperties
  <2>3. rest = <<>> \o rest /\ <<>> \in Seq(S)
    <3> HIDE DEF rest
    <3> QED
      BY <2>2, ConcatEmptySeq, EmptySeq
  <2> QED
    BY <2>1, <2>3 DEF EndsWith
<1> QED
  BY <1>1, <1>2

-----------------------------------------------------------------------------
(* Sequences that are made of another one, element by element. *)

Mapped(s, f) == [k \in DOMAIN s |-> f[s[k]]]

Grows(more, s, e) == more = Append(s, e)

LEMMA MappedAppend ==
    ASSUME NEW S, NEW T, NEW f \in [S -> T], NEW s \in Seq(S), NEW e \in S, NEW more, Grows(more, s, e)
    PROVE  Mapped(s, f) \in Seq(T) /\ Grows(Mapped(more, f), Mapped(s, f), f[e])
<1> DEFINE n == Len(s)
<1>1. n \in Nat /\ DOMAIN s = 1..n /\ \A i \in 1..n : s[i] \in S
  BY LenProperties, ElementOfSeq
<1>2. /\ DOMAIN more = 1..(n + 1) /\ more[n + 1] = e
      /\ \A i \in 1..n : more[i] = s[i]
  BY AppendProperties, LenProperties DEF Grows
<1> HIDE DEF n
<1>3. Mapped(s, f) \in Seq(T) /\ Len(Mapped(s, f)) = n
  <2>1. Mapped(s, f) = [k \in 1..n |-> Mapped(s, f)[k]] /\ \A i \in 1..n : Mapped(s, f)[i] \in T
    BY <1>1 DEF Mapped
  <2> QED
    BY <1>1, <2>1, TabulatedSeq
<1>4. Mapped(more, f) \in Seq(T) /\ Len(Mapped(more, f)) = n + 1
  <2>1. n + 1 \in Nat /\ \A i \in 1..(n + 1) : more[i] \in S
    BY <1>1, <1>2
  <2>2. Mapped(more, f) = [k \in 1..(n + 1) |-> Mapped(more, f)[k]] /\ \A i \in 1..(n + 1) : Mapped(more, f)[i] \in T
    BY <1>2, <2>1 DEF Mapped
  <2> QED
    BY <2>1, <2>2, TabulatedSeq
<1>5. \A i \in 1..n : Mapped(more, f)[i] = Mapped(s, f)[i]
  BY <1>1, <1>2 DEF Mapped
<1>6. Mapped(more, f)[n + 1] = f[e]
  BY <1>1, <1>2 DEF Mapped
<1> DEFINE a == Append(Mapped(s, f), f[e])
<1>7. a \in Seq(T) /\ Len(a) = n + 1 /\ a[n + 1] = f[e] /\ \A i \in 1..n : a[i] = Mapped(s, f)[i]
  <2>1. f[e] \in T
    OBVIOUS
  <2> QED
    BY <1>3, <2>1, AppendProperties
<1> HIDE DEF a
<1>8. Mapped(more, f) = a
  <2>1. \A i \in 1..Len(a) : Mapped(more, f)[i] = a[i]
    BY <1>1, <1>5, <1>6, <1>7
  <2> QED
    BY <1>4, <1>7, <2>1, SeqEqual
<1> QED
  BY <1>3, <1>8 DEF a, Grows

LEMMA MappedEmpty == ASSUME NEW f PROVE Mapped(<<>>, f) = <<>>
  BY DEF Mapped

FlatGrows(f, s, e) == FlattenSeq(Mapped(Append(s, e), f)) = FlattenSeq(Mapped(s, f)) \o f[e]

LEMMA FlattenMappedAppend ==
    ASSUME NEW S, NEW D, NEW f \in [S -> Seq(D)], NEW s \in Seq(S), NEW e \in S
    PROVE  FlatGrows(f, s, e)
<1> DEFINE T == Seq(D)
<1>0. f \in [S -> T]
  OBVIOUS
<1> HIDE DEF T
<1> DEFINE more == Append(s, e)
           x == f[e]
<1>1. Grows(more, s, e)
  BY DEF Grows
<1> HIDE DEF more
<1>2. Mapped(s, f) \in Seq(T) /\ Grows(Mapped(more, f), Mapped(s, f), f[e])
  BY <1>0, <1>1, MappedAppend
<1>3. x \in Seq(D) /\ Mapped(s, f) \in Seq(Seq(D)) /\ Mapped(more, f) = Append(Mapped(s, f), x)
  BY <1>0, <1>2 DEF T, Grows
<1> HIDE DEF x
<1>4. FlattenSeq(Mapped(more, f)) = FlattenSeq(Mapped(s, f)) \o x
  BY <1>3, FlattenAppend
<1> QED
  BY <1>4 DEF more, x, FlatGrows

LEMMA FlattenMappedIsSeq ==
    ASSUME NEW S, NEW D, NEW f \in [S -> Seq(D)], NEW s \in Seq(S)
    PROVE  FlattenSeq(Mapped(s, f)) \in Seq(D)
<1>1. Mapped(s, f) = [k \in 1..Len(s) |-> Mapped(s, f)[k]] /\ \A i \in 1..Len(s) : Mapped(s, f)[i] \in Seq(D)
  BY LenProperties, ElementOfSeq DEF Mapped
<1>2. Mapped(s, f) \in Seq(Seq(D))
  BY <1>1, TabulatedSeq, LenProperties
<1> QED
  BY <1>2, FlattenIsSeq

\* The elements of a sequence that lie in a set, in their order.
Choosing(S, M) == [x \in S |-> IF x \in M THEN <<x>> ELSE <<>>]
Chosen(s, S, M) == FlattenSeq(Mapped(s, Choosing(S, M)))

ChosenGrows(s, e, S, M) ==
    /\ Chosen(s, S, M) \in Seq(M)
    /\ e \in M => Chosen(Append(s, e), S, M) = Append(Chosen(s, S, M), e)
    /\ e \notin M => Chosen(Append(s, e), S, M) = Chosen(s, S, M)

LEMMA ChosenAppend ==
    ASSUME NEW S, NEW M \in SUBSET S, NEW s \in Seq(S), NEW e \in S
    PROVE  ChosenGrows(s, e, S, M)
<1> DEFINE g == Choosing(S, M)
           c == Chosen(s, S, M)
<1>1. g \in [S -> Seq(M)] /\ (e \in M => g[e] = <<e>>) /\ (e \notin M => g[e] = <<>>)
  BY EmptySeq DEF Choosing
<1> HIDE DEF g
<1>2. c \in Seq(M)
  BY <1>1, FlattenMappedIsSeq DEF Chosen, g
<1>3. Chosen(Append(s, e), S, M) = c \o g[e]
  <2>1. FlatGrows(g, s, e)
    BY <1>1, FlattenMappedAppend
  <2> QED
    BY <2>1 DEF Chosen, g, FlatGrows
<1> HIDE DEF c
<1>4. e \in M => c \o <<e>> = Append(c, e)
  BY <1>2, AppendIsConcat
<1>5. c \o <<>> = c
  BY <1>2, ConcatEmptySeq
<1> QED
  BY <1>1, <1>2, <1>3, <1>4, <1>5 DEF c, ChosenGrows

\* What the elements outside the set would add nothing to can be put together from the others.
LEMMA FlattenChosen ==
    ASSUME NEW S, NEW D, NEW M \in SUBSET S, NEW f \in [S -> Seq(D)],
           \A x \in S \ M : f[x] = <<>>, NEW s \in Seq(S)
    PROVE  FlattenSeq(Mapped(Chosen(s, S, M), f)) = FlattenSeq(Mapped(s, f))
<1> DEFINE T == {t \in Seq(S) : FlattenSeq(Mapped(Chosen(t, S, M), f)) = FlattenSeq(Mapped(t, f))}
<1>1. <<>> \in T
  <2>1. Chosen(<<>>, S, M) = <<>>
    BY MappedEmpty, FlattenEmpty DEF Chosen
  <2> QED
    BY <2>1, EmptySeq
<1>2. ASSUME NEW t \in T, NEW e \in S PROVE Append(t, e) \in T
  <2> DEFINE c == Chosen(t, S, M)
  <2>1. t \in Seq(S) /\ FlattenSeq(Mapped(c, f)) = FlattenSeq(Mapped(t, f))
    OBVIOUS
  <2> HIDE DEF T
  <2>2. /\ c \in Seq(M)
        /\ e \in M => Chosen(Append(t, e), S, M) = Append(c, e)
        /\ e \notin M => Chosen(Append(t, e), S, M) = c
    <3>1. ChosenGrows(t, e, S, M)
      BY <2>1, ChosenAppend
    <3> QED
      BY <3>1 DEF ChosenGrows
  <2>3. FlattenSeq(Mapped(Append(t, e), f)) = FlattenSeq(Mapped(t, f)) \o f[e]
    <3>1. FlatGrows(f, t, e)
      BY <2>1, FlattenMappedAppend
    <3> QED
      BY <3>1 DEF FlatGrows
  <2> HIDE DEF c
  <2>4. c \in Seq(S)
    <3>1. Len(c) \in Nat /\ c \in [1..Len(c) -> M]
      BY <2>2, LenProperties
    <3>2. c = [i \in 1..Len(c) |-> c[i]] /\ \A i \in 1..Len(c) : c[i] \in S
      BY <3>1
    <3> QED
      BY <3>1, <3>2, TabulatedSeq
  <2>5. FlattenSeq(Mapped(Append(c, e), f)) = FlattenSeq(Mapped(c, f)) \o f[e]
    <3>1. FlatGrows(f, c, e)
      BY <2>4, FlattenMappedAppend
    <3> QED
      BY <3>1 DEF FlatGrows
  <2>6. FlattenSeq(Mapped(t, f)) \o <<>> = FlattenSeq(Mapped(t, f))
    BY <2>1, FlattenMappedIsSeq, ConcatEmptySeq
  <2>7. Append(t, e) \in Seq(S)
    BY <2>1, AppendProperties
  <2>8. FlattenSeq(Mapped(Chosen(Append(t, e), S, M), f)) = FlattenSeq(Mapped(Append(t, e), f))
    <3>1. CASE e \in M
      BY <2>1, <2>2, <2>3, <2>5, <3>1
    <3>2. CASE e \notin M
      <4>1. f[e] = <<>>
        BY <3>2
      <4> QED
        BY <2>1, <2>2, <2>3, <2>6, <3>2, <4>1
    <3> QED
      BY <3>1, <3>2
  <2> QED
    BY <2>7, <2>8 DEF T
<1>3. T \in SUBSET Seq(S)
  OBVIOUS
<1> HIDE DEF T
<1>4. T = Seq(S)
  BY <1>1, <1>2, <1>3, SequencesByAppend
<1> QED
  BY <1>4 DEF T

LEMMA SetOfChosen ==
    ASSUME NEW S, NEW M \in SUBSET S, NEW s \in Seq(S)
    PROVE  /\ Chosen(s, S, M) \in Seq(M)
           /\ ToSet(Chosen(s, S, M)) = ToSet(s) \cap M
<1> DEFINE g == Choosing(S, M)
           m == Mapped(s, g)
<1>1. g \in [S -> Seq(M)] /\ \A x \in S : g[x] = IF x \in M THEN <<x>> ELSE <<>>
  BY EmptySeq DEF Choosing
<1> HIDE DEF g
<1>2. Chosen(s, S, M) \in Seq(M)
  BY <1>1, FlattenMappedIsSeq DEF Chosen, g
<1>3. Len(s) \in Nat /\ DOMAIN s = 1..Len(s) /\ \A i \in 1..Len(s) : s[i] \in S
  BY LenProperties, ElementOfSeq
<1>4. m \in Seq(Seq(M))
  <2>1. m = [k \in 1..Len(s) |-> m[k]] /\ \A i \in 1..Len(s) : m[i] \in Seq(M)
    BY <1>1, <1>3 DEF Mapped
  <2> HIDE DEF m
  <2> QED
    BY <1>3, <2>1, TabulatedSeq
<1>5. ToSet(Chosen(s, S, M)) = UNION {ToSet(q) : q \in ToSet(m)}
  <2> HIDE DEF m
  <2>1. ToSet(FlattenSeq(m)) = UNION {ToSet(q) : q \in ToSet(m)}
    BY <1>4, SetOfFlatten
  <2> QED
    BY <2>1 DEF Chosen, m, g
<1>6. ToSet(s) = {s[i] : i \in 1..Len(s)} /\ ToSet(m) = {g[s[i]] : i \in 1..Len(s)}
  BY <1>3 DEF ToSet, Mapped
<1>7. \A x \in M : ToSet(<<x>>) = {x}
  BY DEF ToSet
<1>8. ToSet(<<>>) = {}
  BY DEF ToSet
<1> HIDE DEF m
<1>9. UNION {ToSet(q) : q \in ToSet(m)} = UNION {ToSet(g[s[i]]) : i \in 1..Len(s)}
  BY <1>6
<1>10. \A i \in 1..Len(s) : ToSet(g[s[i]]) = {s[i]} \cap M
  BY <1>1, <1>3, <1>7, <1>8
<1> QED
  BY <1>2, <1>5, <1>6, <1>9, <1>10
=============================================================================
