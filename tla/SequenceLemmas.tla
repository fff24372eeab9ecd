---------------------------- MODULE SequenceLemmas ----------------------------
(***************************************************************************)
(* Facts about sequences of sequences and their concatenation (FlattenSeq),*)
(* which serialised arrays with end offsets rest on: where each piece is,  *)
(* and that it can be cut out again; and about Indices, what comes of them *)
(* element by element.                                                     *)
(***************************************************************************)
EXTENDS SequenceIndices, SequenceTheorems, FiniteSetTheorems, WellFoundedInduction,
        TLAPS

(* Induction over the naturals, by a least counterexample.                 *)
LEMMA Least ==
  ASSUME NEW T \in SUBSET Nat, T # {}
  PROVE  \E m \in T : \A n \in T : m <= n
<1>1. PICK m \in T : \A n \in T : <<n, m>> \notin OpToRel(<, Nat)
  BY NatLessThanWellFounded, WFMin
<1>2. \A n \in T : ~(n < m)
  BY <1>1 DEF OpToRel
<1>3. QED  BY <1>2

(* f concatenates the first elements of seqs, for each number up to n.     *)
IsFlattening(seqs, n, f) ==
  f = [k \in 1 .. n |-> IF k = 1 THEN seqs[k] ELSE f[k - 1] \o seqs[k]]

LEMMA FlatteningExists ==
  ASSUME NEW seqs, NEW len \in Nat
  PROVE  \E f : IsFlattening(seqs, len, f)
<1> DEFINE T == {n \in Nat : ~ \E f : IsFlattening(seqs, n, f)}
<1> SUFFICES ASSUME T # {} PROVE FALSE
  OBVIOUS
<1>1. PICK m \in T : \A n \in T : m <= n
  <2>1. T \in SUBSET Nat
    OBVIOUS
  <2> HIDE DEF T
  <2>2. QED  BY <2>1, Least
<1>2. m # 0
  <2>1. IsFlattening(seqs, 0, << >>)
    BY DEF IsFlattening
  <2>2. QED  BY <2>1
<1>3. m - 1 \in Nat /\ m - 1 \notin T
  BY <1>1, <1>2
<1>4. PICK f : IsFlattening(seqs, m - 1, f)
  BY <1>3
<1> DEFINE g == [k \in 1 .. m |->
                   IF k # m THEN f[k]
                   ELSE IF k = 1 THEN seqs[k] ELSE f[k - 1] \o seqs[k]]
<1>5. \A k \in 1 .. m - 1 : f[k] = IF k = 1 THEN seqs[k] ELSE f[k - 1] \o seqs[k]
  BY <1>4 DEF IsFlattening
<1>6. \A k \in 1 .. m : g[k] = IF k = 1 THEN seqs[k] ELSE g[k - 1] \o seqs[k]
  <2> TAKE k \in 1 .. m
  <2>1. m \in Nat /\ (k # 1 => k - 1 \in 1 .. m - 1) /\ (k # m => k \in 1 .. m - 1)
    OBVIOUS
  <2>2. k # 1 => g[k - 1] = f[k - 1]
    BY <2>1
  <2>3. CASE k = m
    BY <2>2, <2>3
  <2>4. CASE k # m
    BY <1>5, <2>1, <2>2, <2>4
  <2>5. QED  BY <2>3, <2>4
<1>7. g = [k \in 1 .. m |-> g[k]]
  OBVIOUS
<1> HIDE DEF g
<1>8. IsFlattening(seqs, m, g)
  BY <1>6, <1>7 DEF IsFlattening
<1>9. QED  BY <1>8

(* FlattenSeq is the last of them.                                         *)
LEMMA FlattenIsLast ==
  ASSUME NEW seqs, Len(seqs) \in Nat \ {0}
  PROVE  \E f : IsFlattening(seqs, Len(seqs), f) /\ FlattenSeq(seqs) = f[Len(seqs)]
<1> DEFINE f == CHOOSE h : IsFlattening(seqs, Len(seqs), h)
<1>1. IsFlattening(seqs, Len(seqs), f)
  BY FlatteningExists
<1>2. FlattenSeq(seqs) = f[Len(seqs)]
  BY DEF FlattenSeq, IsFlattening
<1>3. QED  BY <1>1, <1>2

LEMMA FlattenEmpty == FlattenSeq(<< >>) = << >>
BY DEF FlattenSeq

(* What comes first is concatenated as before when more follows.           *)
LEMMA FlattenAppend ==
  ASSUME NEW S, NEW seqs \in Seq(Seq(S)), NEW x \in Seq(S)
  PROVE  FlattenSeq(Append(seqs, x)) = FlattenSeq(seqs) \o x
<1> DEFINE n == Len(seqs)
           longer == Append(seqs, x)
<1>1. /\ n \in Nat /\ Len(longer) = n + 1 /\ longer[n + 1] = x
      /\ \A k \in 1 .. n : longer[k] = seqs[k]
  BY AppendProperties
<1> HIDE DEF n, longer
<1>2. PICK g : /\ IsFlattening(longer, n + 1, g)
               /\ FlattenSeq(longer) = g[n + 1]
  <2>1. Len(longer) \in Nat \ {0}
    BY <1>1
  <2>2. QED  BY <1>1, <2>1, FlattenIsLast
<1>3. CASE n = 0
  <2>1. seqs = << >>
    BY <1>3, EmptySeq DEF n
  <2>2. FlattenSeq(longer) = x
    BY <1>1, <1>2, <1>3 DEF IsFlattening
  <2>3. << >> \o x = x
    BY ConcatEmptySeq
  <2>4. QED  BY <2>1, <2>2, <2>3, FlattenEmpty DEF longer
<1>4. CASE n # 0
  <2>1. PICK f : IsFlattening(seqs, n, f) /\ FlattenSeq(seqs) = f[n]
    BY <1>1, <1>4, FlattenIsLast DEF n
  <2> DEFINE T == {k \in 1 .. n : g[k] # f[k]}
  <2>2. T = {}
    <3> SUFFICES ASSUME T # {} PROVE FALSE
      OBVIOUS
    <3>1. PICK k \in T : \A m \in T : k <= m
      <4>1. T \in SUBSET Nat
        OBVIOUS
      <4> HIDE DEF T
      <4>2. QED  BY <4>1, Least
    <3>2. k \in 1 .. n /\ k \in 1 .. n + 1 /\ longer[k] = seqs[k]
      BY <1>1, <3>1
    <3>3. k # 1 => k - 1 \in 1 .. n /\ k - 1 \notin T
      <4>1. \A m \in T : k <= m
        BY <3>1
      <4> HIDE DEF T
      <4>2. QED  BY <1>1, <3>2, <4>1
    <3>4. f[k] = IF k = 1 THEN seqs[k] ELSE f[k - 1] \o seqs[k]
      BY <2>1, <3>2 DEF IsFlattening
    <3>5. g[k] = IF k = 1 THEN longer[k] ELSE g[k - 1] \o longer[k]
      BY <1>2, <3>2 DEF IsFlattening
    <3>6. QED  BY <3>1, <3>2, <3>3, <3>4, <3>5
  <2>3. g[n] = f[n]
    BY <1>1, <1>4, <2>2
  <2>4. g[n + 1] = g[n] \o longer[n + 1]
    <3> DEFINE m == n + 1
    <3>1. m \in 1 .. n + 1 /\ m # 1 /\ m - 1 = n
      BY <1>1, <1>4
    <3>2. \A k \in 1 .. n + 1 :
            g[k] = IF k = 1 THEN longer[k] ELSE g[k - 1] \o longer[k]
      BY <1>2 DEF IsFlattening
    <3>3. n + 1 = m
      OBVIOUS
    <3> HIDE DEF m
    <3>4. g[m] = g[m - 1] \o longer[m]
      BY <3>1, <3>2
    <3>5. QED  BY <3>1, <3>3, <3>4
  <2>5. QED  BY <1>1, <1>2, <2>1, <2>3, <2>4 DEF longer
<1>5. QED  BY <1>3, <1>4

LEMMA FlattenType ==
  ASSUME NEW S, NEW seqs \in Seq(Seq(S))
  PROVE  FlattenSeq(seqs) \in Seq(S)
<1> DEFINE n == Len(seqs)
<1>1. n \in Nat
  OBVIOUS
<1>2. CASE n = 0
  <2>1. seqs = << >>
    BY <1>2, EmptySeq
  <2>2. FlattenSeq(seqs) = << >>
    BY <2>1, FlattenEmpty
  <2>3. << >> \in Seq(S)
    OBVIOUS
  <2>4. QED  BY <2>2, <2>3
<1>3. CASE n # 0
  <2>1. PICK f : IsFlattening(seqs, n, f) /\ FlattenSeq(seqs) = f[n]
    BY <1>1, <1>3, FlattenIsLast
  <2> DEFINE T == {k \in 1 .. n : f[k] \notin Seq(S)}
  <2>2. T = {}
    <3> SUFFICES ASSUME T # {} PROVE FALSE
      OBVIOUS
    <3>1. PICK k \in T : \A m \in T : k <= m
      <4>1. T \in SUBSET Nat
        OBVIOUS
      <4> HIDE DEF T
      <4>2. QED  BY <4>1, Least
    <3>2. k \in 1 .. n /\ seqs[k] \in Seq(S)
      BY <3>1
    <3>3. k # 1 => k - 1 \in 1 .. n /\ k - 1 \notin T
      BY <1>1, <3>1, <3>2
    <3> HIDE DEF n
    <3>4. f[k] = IF k = 1 THEN seqs[k] ELSE f[k - 1] \o seqs[k]
      BY <2>1, <3>2 DEF IsFlattening
    <3>5. CASE k = 1
      BY <3>1, <3>2, <3>4, <3>5
    <3>6. CASE k # 1
      <4>1. f[k - 1] \in Seq(S) /\ f[k] = f[k - 1] \o seqs[k]
        BY <3>3, <3>4, <3>6
      <4>2. f[k] \in Seq(S)
        BY <3>2, <4>1, ConcatProperties
      <4>3. QED  BY <3>1, <4>2
    <3>7. QED  BY <3>5, <3>6
  <2>3. QED  BY <1>1, <1>3, <2>1, <2>2
<1>4. QED  BY <1>2, <1>3

(* Where the n-th sequence of the concatenation ends.                      *)
EndOf(seqs, n) == Len(FlattenSeq(SubSeq(seqs, 1, n)))

LEMMA FlattenPrefix ==
  ASSUME NEW S, NEW seqs \in Seq(Seq(S)), NEW n \in 1 .. Len(seqs)
  PROVE  /\ FlattenSeq(SubSeq(seqs, 1, n))
              = FlattenSeq(SubSeq(seqs, 1, n - 1)) \o seqs[n]
         /\ FlattenSeq(SubSeq(seqs, 1, n)) \in Seq(S)
         /\ FlattenSeq(SubSeq(seqs, 1, n - 1)) \in Seq(S)
         /\ seqs[n] \in Seq(S)
         /\ EndOf(seqs, n - 1) \in Nat
         /\ EndOf(seqs, n) = EndOf(seqs, n - 1) + Len(seqs[n])
<1>1. SubSeq(seqs, 1, n) \in Seq(Seq(S)) /\ SubSeq(seqs, 1, n - 1) \in Seq(Seq(S))
  BY SubSeqProperties
<1>2. seqs[n] \in Seq(S)
  OBVIOUS
<1>3. SubSeq(seqs, 1, n) = SubSeq(seqs, 1, n - 1) \o << seqs[n] >>
  BY SubSeqRecursiveSecond
<1>4. SubSeq(seqs, 1, n) = Append(SubSeq(seqs, 1, n - 1), seqs[n])
  BY <1>1, <1>2, <1>3, AppendIsConcat
<1>5. FlattenSeq(SubSeq(seqs, 1, n)) = FlattenSeq(SubSeq(seqs, 1, n - 1)) \o seqs[n]
  BY <1>1, <1>2, <1>4, FlattenAppend
<1>6. /\ FlattenSeq(SubSeq(seqs, 1, n)) \in Seq(S)
      /\ FlattenSeq(SubSeq(seqs, 1, n - 1)) \in Seq(S)
  BY <1>1, FlattenType
<1>7. EndOf(seqs, n - 1) \in Nat
  BY <1>6, LenProperties DEF EndOf
<1>8. EndOf(seqs, n) = EndOf(seqs, n - 1) + Len(seqs[n])
  BY <1>2, <1>5, <1>6, ConcatProperties DEF EndOf
<1>9. QED  BY <1>2, <1>5, <1>6, <1>7, <1>8

LEMMA EndOfFirst ==
  ASSUME NEW S, NEW seqs \in Seq(Seq(S))
  PROVE  /\ EndOf(seqs, 0) = 0
         /\ EndOf(seqs, Len(seqs)) = Len(FlattenSeq(seqs))
<1>1. SubSeq(seqs, 1, 0) = << >> /\ SubSeq(seqs, 1, Len(seqs)) = seqs
  BY SubSeqEmpty, SubSeqFull
<1>2. EndOf(seqs, 0) = Len(<< >>)
  BY <1>1, FlattenEmpty DEF EndOf
<1>3. EndOf(seqs, Len(seqs)) = Len(FlattenSeq(seqs))
  BY <1>1 DEF EndOf
<1>4. QED  BY <1>2, <1>3

(* A prefix of the sequences is a prefix of the concatenation.             *)
LEMMA FlattenKeeps ==
  ASSUME NEW S, NEW seqs \in Seq(Seq(S)), NEW n \in 0 .. Len(seqs)
  PROVE  \A m \in n .. Len(seqs) :
           /\ EndOf(seqs, n) \in Nat /\ EndOf(seqs, m) \in Nat
           /\ EndOf(seqs, n) <= EndOf(seqs, m)
           /\ \A k \in 1 .. EndOf(seqs, n) :
                FlattenSeq(SubSeq(seqs, 1, m))[k] = FlattenSeq(SubSeq(seqs, 1, n))[k]
<1> DEFINE prefix(m) == FlattenSeq(SubSeq(seqs, 1, m))
           P(m) == /\ EndOf(seqs, n) \in Nat /\ EndOf(seqs, m) \in Nat
                   /\ EndOf(seqs, n) <= EndOf(seqs, m)
                   /\ \A k \in 1 .. EndOf(seqs, n) : prefix(m)[k] = prefix(n)[k]
           T == {m \in n .. Len(seqs) : ~P(m)}
<1> SUFFICES ASSUME T # {} PROVE FALSE
  OBVIOUS
<1>1. PICK m \in T : \A k \in T : m <= k
  <2>1. T \in SUBSET Nat
    OBVIOUS
  <2> HIDE DEF T
  <2>2. QED  BY <2>1, Least
<1>2. EndOf(seqs, n) \in Nat
  <2>1. SubSeq(seqs, 1, n) \in Seq(Seq(S))
    BY SubSeqProperties
  <2>2. QED  BY <2>1, FlattenType, LenProperties DEF EndOf
<1>3. m # n
  BY <1>1, <1>2
<1>4. m \in 1 .. Len(seqs) /\ m - 1 \in n .. Len(seqs) /\ m - 1 \notin T
  BY <1>1, <1>3
<1>5. P(m - 1)
  BY <1>4
<1>6. /\ prefix(m) = prefix(m - 1) \o seqs[m]
      /\ prefix(m - 1) \in Seq(S) /\ seqs[m] \in Seq(S)
      /\ EndOf(seqs, m) = EndOf(seqs, m - 1) + Len(seqs[m])
  BY <1>4, FlattenPrefix
<1>7. EndOf(seqs, m - 1) = Len(prefix(m - 1))
  BY DEF EndOf
<1> HIDE DEF prefix
<1>8. \A k \in 1 .. EndOf(seqs, m - 1) : prefix(m)[k] = prefix(m - 1)[k]
  <2> DEFINE s == prefix(m - 1)
  <2>1. \A k \in 1 .. Len(s) + Len(seqs[m]) :
          (s \o seqs[m])[k] = IF k <= Len(s) THEN s[k] ELSE seqs[m][k - Len(s)]
    BY <1>6, ConcatProperties
  <2>2. Len(s) \in Nat /\ Len(seqs[m]) \in Nat
    BY <1>6, LenProperties
  <2>3. prefix(m) = s \o seqs[m] /\ EndOf(seqs, m - 1) = Len(s)
    BY <1>6, <1>7
  <2> HIDE DEF s, P, T
  <2>4. \A k \in 1 .. Len(s) : (s \o seqs[m])[k] = s[k]
    BY <2>1, <2>2
  <2>5. \A k \in 1 .. EndOf(seqs, m - 1) : prefix(m)[k] = s[k]
    BY <2>3, <2>4
  <2>6. QED  BY <2>5 DEF s
<1>9. EndOf(seqs, m) \in Nat /\ EndOf(seqs, m - 1) <= EndOf(seqs, m)
  <2>1. Len(prefix(m - 1)) \in Nat /\ Len(seqs[m]) \in Nat
    BY <1>6, LenProperties
  <2> HIDE DEF P, T
  <2>2. QED  BY <1>6, <1>7, <2>1
<1>10. \A k \in 1 .. EndOf(seqs, n) : prefix(m)[k] = prefix(n)[k]
  <2>1. \A k \in 1 .. EndOf(seqs, n) : k \in 1 .. EndOf(seqs, m - 1)
    BY <1>5
  <2>2. QED  BY <1>5, <1>8, <2>1
<1>11. P(m)
  BY <1>2, <1>5, <1>9, <1>10
<1>12. QED  BY <1>1, <1>11

(* Each sequence can be cut out of the concatenation again.                *)
LEMMA FlattenPiece ==
  ASSUME NEW S, NEW seqs \in Seq(Seq(S)), NEW n \in 1 .. Len(seqs)
  PROVE  /\ EndOf(seqs, n - 1) \in Nat
         /\ EndOf(seqs, n) = EndOf(seqs, n - 1) + Len(seqs[n])
         /\ EndOf(seqs, n) <= Len(FlattenSeq(seqs))
         /\ SubSeq(FlattenSeq(seqs), EndOf(seqs, n - 1) + 1, EndOf(seqs, n)) = seqs[n]
<1> DEFINE whole == FlattenSeq(seqs)
           part == FlattenSeq(SubSeq(seqs, 1, n))
           before == FlattenSeq(SubSeq(seqs, 1, n - 1))
           b == EndOf(seqs, n - 1)
           e == EndOf(seqs, n)
<1>1. /\ part = before \o seqs[n]
      /\ part \in Seq(S) /\ before \in Seq(S) /\ seqs[n] \in Seq(S)
      /\ b \in Nat /\ e = b + Len(seqs[n])
  BY FlattenPrefix
<1>2. b = Len(before) /\ e = Len(part) /\ Len(seqs[n]) \in Nat
  BY <1>1 DEF EndOf
<1>3. e <= Len(whole) /\ \A k \in 1 .. e : whole[k] = part[k]
  <2>1. SubSeq(seqs, 1, Len(seqs)) = seqs
    BY SubSeqFull
  <2>2. Len(seqs) \in n .. Len(seqs) /\ n \in 0 .. Len(seqs)
    OBVIOUS
  <2>3. /\ e <= EndOf(seqs, Len(seqs))
        /\ \A k \in 1 .. e : FlattenSeq(SubSeq(seqs, 1, Len(seqs)))[k] = part[k]
    BY <2>2, FlattenKeeps
  <2>4. QED  BY <2>1, <2>3, EndOfFirst
<1>4. whole \in Seq(S)
  BY FlattenType
<1> HIDE DEF whole, part, before, b, e
<1>5. \A k \in 1 .. Len(seqs[n]) : whole[b + k] = seqs[n][k]
  <2> TAKE k \in 1 .. Len(seqs[n])
  <2>1. b + k \in 1 .. e /\ b + k > Len(before) /\ b + k - Len(before) = k
    BY <1>1, <1>2
  <2>2. part[b + k] = seqs[n][k]
    BY <1>1, <1>2, <2>1, ConcatProperties
  <2>3. QED  BY <1>3, <2>1, <2>2
<1>6. SubSeq(whole, b + 1, e) = seqs[n]
  <2> DEFINE cut == SubSeq(whole, b + 1, e)
  <2>1. \A k \in b + 1 .. e : whole[k] \in S
    BY <1>1, <1>2, <1>3, <1>4
  <2>2. b + 1 \in Int /\ e \in Int
    BY <1>1, <1>2
  <2>3. /\ cut \in Seq(S)
        /\ Len(cut) = IF b + 1 <= e THEN e - (b + 1) + 1 ELSE 0
        /\ \A k \in 1 .. e - (b + 1) + 1 : cut[k] = whole[b + 1 + k - 1]
    BY <2>1, <2>2, SubSeqProperties, SMTT(30)
  <2>4. Len(cut) = Len(seqs[n])
    BY <1>1, <1>2, <2>3
  <2>5. \A k \in 1 .. Len(cut) : cut[k] = seqs[n][k]
    <3> TAKE k \in 1 .. Len(cut)
    <3>1. k \in 1 .. e - (b + 1) + 1 /\ b + 1 + k - 1 = b + k
      BY <1>1, <1>2, <2>4
    <3>2. QED  BY <1>5, <2>3, <2>4, <3>1
  <2> HIDE DEF cut
  <2>6. cut = seqs[n]
    BY <1>1, <2>3, <2>4, <2>5, SeqEqual
  <2>7. QED  BY <2>6 DEF cut
<1>7. QED  BY <1>1, <1>3, <1>6 DEF whole, b, e

LEMMA FlattenAt ==
  ASSUME NEW S, NEW seqs \in Seq(Seq(S)), NEW n \in 1 .. Len(seqs)
  PROVE  \A j \in 1 .. Len(seqs[n]) :
           FlattenSeq(seqs)[EndOf(seqs, n - 1) + j] = seqs[n][j]
<1> DEFINE whole == FlattenSeq(seqs)
           b == EndOf(seqs, n - 1)
           e == EndOf(seqs, n)
           x == seqs[n]
<1>1. /\ b \in Nat /\ e = b + Len(x) /\ e <= Len(whole)
      /\ SubSeq(whole, b + 1, e) = x
  BY FlattenPiece
<1>2. whole \in Seq(S) /\ x \in Seq(S)
  BY FlattenType
<1> HIDE DEF whole, b, e, x
<1>3. \A j \in 1 .. e - (b + 1) + 1 : SubSeq(whole, b + 1, e)[j] = whole[b + 1 + j - 1]
  <2>1. \A k \in b + 1 .. e : whole[k] \in S
    BY <1>1, <1>2
  <2>2. b + 1 \in Int /\ e \in Int
    BY <1>1, <1>2
  <2>3. QED  BY <2>1, <2>2, SubSeqProperties
<1>4. ASSUME NEW j \in 1 .. Len(x) PROVE whole[b + j] = x[j]
  <2>1. j \in 1 .. e - (b + 1) + 1 /\ b + 1 + j - 1 = b + j
    BY <1>1, <1>2
  <2>2. QED  BY <1>1, <1>3, <2>1
<1>5. QED  BY <1>4 DEF whole, b, x

(* Where the parts of pairs are in their concatenation.                    *)
LEMMA FlattenPairs ==
  ASSUME NEW S, NEW p \in Seq(Seq(S)), \A k \in 1 .. Len(p) : Len(p[k]) = 2
  PROVE  /\ FlattenSeq(p) \in Seq(S) /\ Len(FlattenSeq(p)) = 2 * Len(p)
         /\ \A k \in 1 .. Len(p) :
              FlattenSeq(p)[2 * k - 1] = p[k][1] /\ FlattenSeq(p)[2 * k] = p[k][2]
<1> DEFINE n == Len(p)
           all == FlattenSeq(p)
           Bad == {k \in 0 .. n : EndOf(p, k) # 2 * k}
<1>1. n \in Nat /\ all \in Seq(S)
  BY FlattenType
<1> HIDE DEF n, all
<1>2. Bad = {}
  <2> SUFFICES ASSUME Bad # {} PROVE FALSE
    OBVIOUS
  <2>1. PICK k \in Bad : \A x \in Bad : k <= x
    <3>1. Bad \in SUBSET Nat
      BY <1>1
    <3> HIDE DEF Bad
    <3>2. QED  BY <3>1, Least
  <2>2. k # 0
    BY <1>1, <2>1, EndOfFirst
  <2>3. k \in 1 .. n /\ k - 1 \in 0 .. n /\ k - 1 \notin Bad
    BY <1>1, <2>1, <2>2
  <2>4. EndOf(p, k) = EndOf(p, k - 1) + Len(p[k]) /\ Len(p[k]) = 2
    BY <2>3, FlattenPrefix DEF n
  <2>5. QED  BY <1>1, <2>1, <2>3, <2>4
<1>3. \A k \in 0 .. n : EndOf(p, k) = 2 * k
  BY <1>2
<1>4. Len(all) = 2 * n
  <2>1. n \in 0 .. n
    BY <1>1
  <2>2. QED  BY <1>3, <2>1, EndOfFirst DEF n, all
<1>5. ASSUME NEW k \in 1 .. n
      PROVE  all[2 * k - 1] = p[k][1] /\ all[2 * k] = p[k][2]
  <2>1. EndOf(p, k) = 2 * k /\ EndOf(p, k - 1) = 2 * (k - 1)
    <3>1. k \in 0 .. n /\ k - 1 \in 0 .. n
      BY <1>1
    <3>2. QED  BY <1>3, <3>1
  <2> DEFINE cut == SubSeq(all, 2 * k - 1, 2 * k)
  <2>2. cut = p[k]
    <3>1. SubSeq(all, EndOf(p, k - 1) + 1, EndOf(p, k)) = p[k]
      BY FlattenPiece DEF n, all
    <3>2. 2 * (k - 1) + 1 = 2 * k - 1
      BY <1>1
    <3>3. QED  BY <2>1, <3>1, <3>2
  <2>3. cut[1] = all[2 * k - 1] /\ cut[2] = all[2 * k]
    <3>1. 2 * k - 1 \in Int /\ 2 * k \in Int
      BY <1>1
    <3>2. \A m \in 2 * k - 1 .. 2 * k : all[m] \in S
      BY <1>1, <1>4
    <3>3. \A m \in 1 .. 2 * k - (2 * k - 1) + 1 : cut[m] = all[2 * k - 1 + m - 1]
      BY <1>1, <3>1, <3>2, SubSeqProperties
    <3>4. /\ 1 \in 1 .. 2 * k - (2 * k - 1) + 1 /\ 2 \in 1 .. 2 * k - (2 * k - 1) + 1
          /\ 2 * k - 1 + 1 - 1 = 2 * k - 1 /\ 2 * k - 1 + 2 - 1 = 2 * k
      BY <1>1
    <3> HIDE DEF cut
    <3>5. QED  BY <3>3, <3>4
  <2> HIDE DEF cut
  <2>4. QED  BY <2>2, <2>3
<1>6. QED  BY <1>1, <1>4, <1>5 DEF n, all

(* Sequences of one element are concatenated to these elements.            *)
LEMMA FlattenSingles ==
  ASSUME NEW S, NEW seqs \in Seq(Seq(S)), NEW b \in Nat, NEW x \in Seq(S),
         b + Len(x) <= Len(seqs), \A j \in 1 .. Len(x) : seqs[b + j] = <<x[j]>>
  PROVE  FlattenSeq(SubSeq(seqs, 1, b + Len(x))) = FlattenSeq(SubSeq(seqs, 1, b)) \o x
<1> DEFINE prefix(m) == FlattenSeq(SubSeq(seqs, 1, m))
           Bad == {j \in 0 .. Len(x) : prefix(b + j) # prefix(b) \o SubSeq(x, 1, j)}
<1>1. prefix(b) \in Seq(S)
  <2>1. SubSeq(seqs, 1, b) \in Seq(Seq(S))
    BY SubSeqProperties
  <2>2. QED  BY <2>1, FlattenType
<1>2. Bad = {}
  <2> SUFFICES ASSUME Bad # {} PROVE FALSE
    OBVIOUS
  <2>1. PICK j \in Bad : \A y \in Bad : j <= y
    <3>1. Bad \in SUBSET Nat
      OBVIOUS
    <3> HIDE DEF Bad
    <3>2. QED  BY <3>1, Least
  <2>2. j # 0
    <3>1. SubSeq(x, 1, 0) = <<>>
      BY SubSeqEmpty
    <3> HIDE DEF prefix
    <3>2. prefix(b) \o <<>> = prefix(b) /\ b + 0 = b
      BY <1>1, ConcatEmptySeq
    <3>3. QED  BY <2>1, <3>1, <3>2
  <2> DEFINE n == b + j
  <2>3. /\ j \in 1 .. Len(x) /\ j - 1 \in 0 .. Len(x) /\ j - 1 \notin Bad
        /\ n \in 1 .. Len(seqs) /\ b + (j - 1) = n - 1
    <3>1. j \in 0 .. Len(x) /\ \A y \in Bad : j <= y
      BY <2>1
    <3> HIDE DEF Bad, prefix
    <3>2. Len(seqs) \in Nat /\ Len(x) \in Nat
      BY LenProperties
    <3>3. QED  BY <2>2, <3>1, <3>2
  <2>4. prefix(b + (j - 1)) = prefix(b) \o SubSeq(x, 1, j - 1)
    BY <2>3
  <2>5. prefix(n) = prefix(n - 1) \o <<x[j]>>
    <3>1. \A m \in 1 .. Len(seqs) : prefix(m) = prefix(m - 1) \o seqs[m]
      BY FlattenPrefix
    <3>2. seqs[n] = <<x[j]>>
      BY <2>3
    <3> HIDE DEF prefix, n
    <3>3. QED  BY <2>3, <3>1, <3>2
  <2>6. /\ SubSeq(x, 1, j) = SubSeq(x, 1, j - 1) \o <<x[j]>>
        /\ SubSeq(x, 1, j - 1) \in Seq(S) /\ <<x[j]>> \in Seq(S)
    <3>1. x[j] \in S
      BY <2>3
    <3>2. SubSeq(x, 1, j) = SubSeq(x, 1, j - 1) \o <<x[j]>>
      <4>1. 1 \in 1 .. Len(x) /\ j \in 1 .. Len(x)
        BY <2>3
      <4>2. \A k \in 1 .. Len(x) : SubSeq(x, 1, k) = SubSeq(x, 1, k - 1) \o << x[k] >>
        BY <4>1, SubSeqRecursiveSecond
      <4>3. QED  BY <4>1, <4>2
    <3>3. \A k \in 1 .. j - 1 : x[k] \in S
      BY <2>3
    <3>4. SubSeq(x, 1, j - 1) \in Seq(S)
      BY <2>3, <3>3, SubSeqProperties
    <3>5. <<x[j]>> \in Seq(S)
      BY <3>1
    <3>6. QED  BY <3>2, <3>4, <3>5
  <2>7. prefix(n) = prefix(b) \o SubSeq(x, 1, j)
    <3> DEFINE first == prefix(b)
               part == SubSeq(x, 1, j - 1)
    <3>1. prefix(n - 1) = first \o part
      BY <2>3, <2>4
    <3>2. first \in Seq(S) /\ part \in Seq(S) /\ <<x[j]>> \in Seq(S)
      BY <1>1, <2>6
    <3> HIDE DEF first, part
    <3>3. (first \o part) \o <<x[j]>> = first \o (part \o <<x[j]>>)
      <4> DEFINE last == <<x[j]>>
      <4>1. last \in Seq(S)
        BY <3>2
      <4>2. first \in Seq(S) /\ part \in Seq(S)
        BY <3>2
      <4> HIDE DEF last, prefix, Bad, n
      <4>3. (first \o part) \o last = first \o (part \o last)
        BY <4>1, <4>2, SMTT(30)
      <4>4. QED  BY <4>3 DEF last
    <3> HIDE DEF prefix, n
    <3>4. QED  BY <2>5, <2>6, <3>1, <3>3 DEF first, part
  <2>8. QED  BY <2>1, <2>7
<1>3. prefix(b + Len(x)) = prefix(b) \o SubSeq(x, 1, Len(x))
  <2>1. Len(x) \in 0 .. Len(x)
    OBVIOUS
  <2>2. QED  BY <1>2, <2>1
<1>4. SubSeq(x, 1, Len(x)) = x
  BY SubSeqFull
<1>5. QED  BY <1>3, <1>4

LEMMA FlattenEach ==
  ASSUME NEW S, NEW seqs \in Seq(Seq(S)), NEW x \in Seq(S), Len(seqs) = Len(x),
         \A j \in 1 .. Len(x) : seqs[j] = <<x[j]>>
  PROVE  FlattenSeq(seqs) = x
<1>1. 0 + Len(x) = Len(x) /\ \A j \in 1 .. Len(x) : 0 + j = j
  OBVIOUS
<1>2. FlattenSeq(SubSeq(seqs, 1, 0 + Len(x))) = FlattenSeq(SubSeq(seqs, 1, 0)) \o x
  <2>1. \A b \in Nat : /\ b + Len(x) <= Len(seqs)
                       /\ \A j \in 1 .. Len(x) : seqs[b + j] = <<x[j]>>
          => FlattenSeq(SubSeq(seqs, 1, b + Len(x))) = FlattenSeq(SubSeq(seqs, 1, b)) \o x
    BY FlattenSingles
  <2>2. 0 \in Nat /\ 0 + Len(x) <= Len(seqs)
    BY <1>1
  <2>3. \A j \in 1 .. Len(x) : seqs[0 + j] = <<x[j]>>
    BY <1>1
  <2>4. QED  BY <2>1, <2>2, <2>3
<1>3. /\ SubSeq(seqs, 1, Len(seqs)) = seqs
      /\ SubSeq(seqs, 1, 0) = <<>>
      /\ <<>> \o x = x
  BY SubSeqFull, SubSeqEmpty, ConcatEmptySeq
<1>4. QED  BY <1>1, <1>2, <1>3, FlattenEmpty

-----------------------------------------------------------------------------
(* Picking elements out of a sequence, element by element.                 *)
Marks(s, S) == [k \in DOMAIN s |-> IF s[k] \in S THEN <<k>> ELSE <<>>]
Found(s, S, n) == FlattenSeq(SubSeq(Marks(s, S), 1, n))

LEMMA MarksType ==
  ASSUME NEW T, NEW s \in Seq(T), NEW S
  PROVE  /\ Marks(s, S) \in Seq(Seq({k \in 1 .. Len(s) : s[k] \in S}))
         /\ Len(Marks(s, S)) = Len(s)
         /\ \A k \in 1 .. Len(s) :
              Marks(s, S)[k] = IF s[k] \in S THEN <<k>> ELSE <<>>
<1>1. DOMAIN s = 1 .. Len(s) /\ Len(s) \in Nat
  OBVIOUS
<1>2. \A k \in 1 .. Len(s) :
        (IF s[k] \in S THEN <<k>> ELSE <<>>) \in Seq({m \in 1 .. Len(s) : s[m] \in S})
  <2> TAKE k \in 1 .. Len(s)
  <2> DEFINE I == {m \in 1 .. Len(s) : s[m] \in S}
  <2>1. s[k] \in S => k \in I
    OBVIOUS
  <2> HIDE DEF I
  <2>2. <<>> \in Seq(I) /\ (k \in I => <<k>> \in Seq(I))
    OBVIOUS
  <2>3. QED  BY <2>1, <2>2 DEF I
<1>3. Marks(s, S) = [k \in 1 .. Len(s) |-> IF s[k] \in S THEN <<k>> ELSE <<>>]
  BY <1>1 DEF Marks
<1>4. QED  BY <1>1, <1>2, <1>3

LEMMA FoundFirst ==
  ASSUME NEW T, NEW s \in Seq(T), NEW S
  PROVE  Found(s, S, 0) = <<>>
<1>1. SubSeq(Marks(s, S), 1, 0) = <<>>
  BY SubSeqEmpty
<1>2. QED  BY <1>1, FlattenEmpty DEF Found

(* All of them have been found at the end.                                 *)
LEMMA FoundLast ==
  ASSUME NEW T, NEW s \in Seq(T), NEW S
  PROVE  Found(s, S, Len(s)) = Indices(s, S)
<1>1. SubSeq(Marks(s, S), 1, Len(s)) = Marks(s, S)
  <2> DEFINE I == {k \in 1 .. Len(s) : s[k] \in S}
  <2>1. Marks(s, S) \in Seq(Seq(I)) /\ Len(Marks(s, S)) = Len(s)
    BY MarksType
  <2> HIDE DEF I
  <2>2. QED  BY <2>1, SubSeqFull
<1>2. QED  BY <1>1 DEF Found, Indices, Marks

(* They are elements of S, and the next one comes last.                    *)
LEMMA FoundType ==
  ASSUME NEW T, NEW s \in Seq(T), NEW S, NEW n \in 0 .. Len(s)
  PROVE  /\ Found(s, S, n) \in Seq({k \in 1 .. Len(s) : s[k] \in S})
         /\ Len(Found(s, S, n)) \in Nat
         /\ \A m \in 1 .. Len(Found(s, S, n)) :
              Found(s, S, n)[m] \in 1 .. Len(s) /\ s[Found(s, S, n)[m]] \in S
<1> DEFINE I == {k \in 1 .. Len(s) : s[k] \in S}
<1>1. Marks(s, S) \in Seq(Seq(I)) /\ Len(Marks(s, S)) = Len(s)
  BY MarksType
<1> HIDE DEF I
<1>2. SubSeq(Marks(s, S), 1, n) \in Seq(Seq(I))
  BY <1>1, SubSeqProperties
<1>3. Found(s, S, n) \in Seq(I)
  BY <1>2, FlattenType DEF Found
<1>4. \A m \in 1 .. Len(Found(s, S, n)) : Found(s, S, n)[m] \in I
  BY <1>3, ElementOfSeq
<1>5. QED  BY <1>3, <1>4, LenProperties DEF I

LEMMA FoundNext ==
  ASSUME NEW T, NEW s \in Seq(T), NEW S, NEW n \in 1 .. Len(s)
  PROVE  Found(s, S, n) = IF s[n] \in S THEN Append(Found(s, S, n - 1), n)
                          ELSE Found(s, S, n - 1)
<1> DEFINE I == {k \in 1 .. Len(s) : s[k] \in S}
<1>1. /\ Marks(s, S) \in Seq(Seq(I)) /\ Len(Marks(s, S)) = Len(s)
      /\ Marks(s, S)[n] = IF s[n] \in S THEN <<n>> ELSE <<>>
  <2>1. /\ Marks(s, S) \in Seq(Seq(I)) /\ Len(Marks(s, S)) = Len(s)
        /\ \A k \in 1 .. Len(s) :
             Marks(s, S)[k] = IF s[k] \in S THEN <<k>> ELSE <<>>
    BY MarksType
  <2> HIDE DEF I
  <2>2. QED  BY <2>1
<1>2. s[n] \in S => n \in I
  OBVIOUS
<1> HIDE DEF I
<1>3. /\ Found(s, S, n) = Found(s, S, n - 1) \o Marks(s, S)[n]
      /\ Found(s, S, n - 1) \in Seq(I)
  BY <1>1, FlattenPrefix DEF Found
<1>4. CASE s[n] \in S
  BY <1>1, <1>2, <1>3, <1>4, AppendIsConcat
<1>5. CASE s[n] \notin S
  <2>1. Found(s, S, n - 1) \o <<>> = Found(s, S, n - 1)
    BY <1>3, ConcatEmptySeq
  <2>2. QED  BY <1>1, <1>3, <1>5, <2>1
<1>6. QED  BY <1>4, <1>5

(* What was found first stays first.                                       *)
LEMMA FoundKeeps ==
  ASSUME NEW T, NEW s \in Seq(T), NEW S, NEW n \in 0 .. Len(s),
         NEW m \in n .. Len(s)
  PROVE  /\ Len(Found(s, S, n)) <= Len(Found(s, S, m))
         /\ \A k \in 1 .. Len(Found(s, S, n)) : Found(s, S, m)[k] = Found(s, S, n)[k]
<1> DEFINE I == {k \in 1 .. Len(s) : s[k] \in S}
<1>1. Marks(s, S) \in Seq(Seq(I)) /\ Len(Marks(s, S)) = Len(s)
  BY MarksType
<1> HIDE DEF I
<1>2. /\ EndOf(Marks(s, S), n) <= EndOf(Marks(s, S), m)
      /\ \A k \in 1 .. EndOf(Marks(s, S), n) : Found(s, S, m)[k] = Found(s, S, n)[k]
  BY <1>1, FlattenKeeps DEF Found
<1>3. QED  BY <1>2 DEF EndOf, Found

(* They are found in order.                                                *)
LEMMA FoundInOrder ==
  ASSUME NEW T, NEW s \in Seq(T), NEW S, NEW n \in 0 .. Len(s)
  PROVE  \A j \in 1 .. Len(Found(s, S, n)) :
           /\ Found(s, S, n)[j] <= n
           /\ j > 1 => Found(s, S, n)[j - 1] < Found(s, S, n)[j]
<1> DEFINE P(m) == \A j \in 1 .. Len(Found(s, S, m)) :
                     /\ Found(s, S, m)[j] <= m
                     /\ j > 1 => Found(s, S, m)[j - 1] < Found(s, S, m)[j]
           Bad == {m \in 0 .. Len(s) : ~P(m)}
<1> SUFFICES ASSUME Bad # {} PROVE FALSE
  OBVIOUS
<1>1. PICK m \in Bad : \A x \in Bad : m <= x
  <2>1. Bad \in SUBSET Nat
    OBVIOUS
  <2> HIDE DEF Bad
  <2>2. QED  BY <2>1, Least
<1>2. m # 0
  <2>1. Found(s, S, 0) = <<>>
    BY FoundFirst
  <2>2. P(0)
    BY <2>1
  <2>3. QED  BY <1>1, <2>2
<1>3. m \in 1 .. Len(s) /\ m - 1 \in 0 .. Len(s) /\ m - 1 \notin Bad
  <2>1. m \in 0 .. Len(s)
    BY <1>1
  <2> HIDE DEF Bad
  <2>2. QED  BY <1>1, <1>2, <2>1
<1> DEFINE f == Found(s, S, m)
           g == Found(s, S, m - 1)
<1>4. \A j \in 1 .. Len(g) : g[j] <= m - 1 /\ (j > 1 => g[j - 1] < g[j])
  BY <1>3
<1>5. f = IF s[m] \in S THEN Append(g, m) ELSE g
  BY <1>3, FoundNext
<1>6. g \in Seq(Nat)
  <2>1. g \in Seq({k \in 1 .. Len(s) : s[k] \in S})
    BY <1>3, FoundType
  <2>2. QED  BY <2>1
<1> HIDE DEF g
<1>7. \A j \in 1 .. Len(f) : f[j] <= m /\ (j > 1 => f[j - 1] < f[j])
  <2> HIDE DEF f, P, Bad
  <2>1. Len(g) \in Nat /\ \A j \in 1 .. Len(g) : g[j] \in Nat
    BY <1>6, LenProperties, ElementOfSeq
  <2>2. CASE s[m] \in S
    <3>1. /\ Len(f) = Len(g) + 1 /\ f[Len(g) + 1] = m
          /\ \A j \in 1 .. Len(g) : f[j] = g[j]
      BY <1>3, <1>5, <1>6, <2>2, AppendProperties
    <3> TAKE j \in 1 .. Len(f)
    <3>2. CASE j \in 1 .. Len(g)
      <4>0. m \in Nat
        BY <1>3
      <4>1. f[j] = g[j] /\ g[j] \in Nat /\ g[j] <= m - 1 /\ m \in Nat
        BY <1>4, <2>1, <3>1, <3>2, <4>0
      <4>2. j > 1 => j - 1 \in 1 .. Len(g) /\ g[j - 1] < g[j]
        BY <1>4, <2>1, <3>2
      <4>3. j > 1 => f[j - 1] = g[j - 1]
        BY <3>1, <4>2
      <4>4. QED  BY <4>1, <4>2, <4>3
    <3>3. CASE j = Len(g) + 1
      <4>1. j > 1 => j - 1 \in 1 .. Len(g) /\ j - 1 = Len(g)
        BY <2>1, <3>3
      <4>2. j > 1 => f[j - 1] = g[j - 1] /\ g[j - 1] <= m - 1 /\ g[j - 1] \in Nat
        BY <1>4, <2>1, <3>1, <4>1
      <4>3. f[j] = m
        BY <3>1, <3>3
      <4>4. QED  BY <1>3, <4>2, <4>3
    <3>4. QED  BY <2>1, <3>1, <3>2, <3>3
  <2>3. CASE s[m] \notin S
    <3>1. f = g
      BY <1>5, <2>3
    <3>2. \A j \in 1 .. Len(g) : g[j] \in Nat /\ g[j] <= m - 1 => g[j] <= m
      BY <1>3
    <3>3. QED  BY <1>4, <2>1, <3>1, <3>2
  <2>4. QED  BY <2>2, <2>3
<1>8. P(m)
  BY <1>7
<1>9. QED  BY <1>1, <1>8

(* Nothing is found where there is nothing.                                *)
LEMMA FoundNothing ==
  ASSUME NEW T, NEW s \in Seq(T), NEW S, NEW n \in 0 .. Len(s),
         NEW m \in n .. Len(s), \A k \in n + 1 .. m : s[k] \notin S
  PROVE  Found(s, S, m) = Found(s, S, n)
<1> DEFINE Bad == {k \in n .. m : Found(s, S, k) # Found(s, S, n)}
<1> SUFFICES ASSUME Bad # {} PROVE FALSE
  OBVIOUS
<1>1. PICK k \in Bad : \A x \in Bad : k <= x
  <2>1. Bad \in SUBSET Nat
    OBVIOUS
  <2> HIDE DEF Bad
  <2>2. QED  BY <2>1, Least
<1>2. k \in n + 1 .. m /\ k \in 1 .. Len(s) /\ k - 1 \in n .. m /\ k - 1 \notin Bad
  BY <1>1
<1>3. Found(s, S, k) = Found(s, S, k - 1)
  BY <1>2, FoundNext
<1>4. QED  BY <1>1, <1>2, <1>3

(* Mapping a function over one element more.                               *)
LEMMA MapAppend ==
  ASSUME NEW D, NEW g \in Seq(D), NEW x \in D, NEW f
  PROVE  [r \in DOMAIN Append(g, x) |-> f[Append(g, x)[r]]]
           = Append([r \in DOMAIN g |-> f[g[r]]], f[x])
<1> DEFINE n == Len(g)
           h == Append(g, x)
           F == {f[d] : d \in D}
           left == [r \in DOMAIN h |-> f[h[r]]]
           mapped == [r \in DOMAIN g |-> f[g[r]]]
           right == Append(mapped, f[x])
<1>1. /\ n \in Nat /\ h \in Seq(D) /\ Len(h) = n + 1 /\ h[n + 1] = x
      /\ \A r \in 1 .. n : h[r] = g[r]
      /\ DOMAIN h = 1 .. n + 1 /\ DOMAIN g = 1 .. n
  BY AppendProperties, LenProperties
<1>2. mapped \in Seq(F) /\ Len(mapped) = n /\ f[x] \in F
      /\ \A r \in 1 .. n : mapped[r] = f[g[r]]
  OBVIOUS
<1>3. left \in Seq(F) /\ Len(left) = n + 1
      /\ \A r \in 1 .. n + 1 : left[r] = f[h[r]]
  BY <1>1
<1> HIDE DEF n, h, F, left, mapped
<1>4. /\ right \in Seq(F) /\ Len(right) = n + 1 /\ right[n + 1] = f[x]
      /\ \A r \in 1 .. n : right[r] = mapped[r]
  BY <1>2, AppendProperties
<1> HIDE DEF right
<1>5. \A r \in 1 .. n + 1 : r = n + 1 \/ r \in 1 .. n
  BY <1>1
<1>6. \A r \in 1 .. n + 1 : left[r] = right[r]
  BY <1>1, <1>2, <1>3, <1>4, <1>5
<1>7. left = right
  BY <1>3, <1>4, <1>6, SeqEqual
<1>8. QED  BY <1>7 DEF left, right, mapped, h

(* What s has at these indices.                                            *)
Picked(s, w) == [k \in DOMAIN w |-> s[w[k]]]

(* What is found through the elements of K and then among them, for L in K,*)
(* is what is found at once.                                               *)
LEMMA FoundThrough ==
  ASSUME NEW T, NEW s \in Seq(T), NEW K, NEW L \in SUBSET K
  PROVE  LET w == Indices(s, K)
             types == Picked(s, w)
             among == Indices(types, L)
         IN  /\ w \in Seq(1 .. Len(s)) /\ types \in Seq(K) /\ Len(types) = Len(w)
             /\ Indices(s, L) = Picked(w, among)
<1> DEFINE w == Indices(s, K)
           types == Picked(s, w)
           to(n) == Found(types, L, Len(Found(s, K, n)))
           P(n) == Found(s, L, n) = [r \in DOMAIN to(n) |-> w[to(n)[r]]]
           Bad == {n \in 0 .. Len(s) : ~P(n)}
<1>1. w = Found(s, K, Len(s)) /\ Len(s) \in 0 .. Len(s)
  BY FoundLast
<1>2. /\ w \in Seq({k \in 1 .. Len(s) : s[k] \in K}) /\ Len(w) \in Nat
      /\ \A k \in 1 .. Len(w) : w[k] \in 1 .. Len(s) /\ s[w[k]] \in K
  BY <1>1, FoundType
<1>3. w \in Seq(1 .. Len(s)) /\ DOMAIN w = 1 .. Len(w)
  BY <1>2
<1> HIDE DEF w
<1>4. /\ types \in Seq(K) /\ Len(types) = Len(w)
      /\ \A k \in 1 .. Len(w) : types[k] = s[w[k]]
  BY <1>2, <1>3 DEF Picked
<1> HIDE DEF types
<1>5. Bad = {}
  <2> SUFFICES ASSUME Bad # {} PROVE FALSE
    OBVIOUS
  <2>1. PICK n \in Bad : \A x \in Bad : n <= x
    <3>1. Bad \in SUBSET Nat
      OBVIOUS
    <3> HIDE DEF Bad
    <3>2. QED  BY <3>1, Least
  <2>2. n # 0
    <3>1. Found(s, K, 0) = <<>> /\ Found(s, L, 0) = <<>> /\ Found(types, L, 0) = <<>>
      BY <1>4, FoundFirst
    <3>2. to(0) = <<>>
      BY <3>1
    <3>3. [r \in DOMAIN <<>> |-> w[<<>>[r]]] = <<>>
      OBVIOUS
    <3>4. P(0)
      BY <3>1, <3>2, <3>3
    <3>5. QED  BY <2>1, <3>4
  <2>3. n \in 1 .. Len(s) /\ n \in 0 .. Len(s) /\ n - 1 \in 0 .. Len(s)
    BY <2>1, <2>2
  <2>4. P(n - 1)
    BY <2>1, <2>3
  <2> DEFINE a == Found(s, K, n - 1)
             b == Found(s, K, n)
             m == Len(b)
  <2>5. b = IF s[n] \in K THEN Append(a, n) ELSE a
    BY <2>3, FoundNext
  <2>6. Found(s, L, n) = IF s[n] \in L THEN Append(Found(s, L, n - 1), n)
                         ELSE Found(s, L, n - 1)
    BY <2>3, FoundNext
  <2>7. CASE s[n] \notin K
    <3>1. a = b /\ Found(s, L, n) = Found(s, L, n - 1)
      BY <2>5, <2>6, <2>7
    <3>2. to(n) = to(n - 1)
      BY <3>1
    <3> HIDE DEF to
    <3>3. P(n)
      BY <2>4, <3>1, <3>2
    <3>4. QED  BY <2>1, <3>3
  <2>8. CASE s[n] \in K
    <3>1. /\ a \in Seq({k \in 1 .. Len(s) : s[k] \in K}) /\ Len(a) \in Nat
          /\ n \in {k \in 1 .. Len(s) : s[k] \in K}
      BY <2>3, <2>8, FoundType
    <3>2. m = Len(a) + 1 /\ b[m] = n
      BY <2>5, <2>8, <3>1, AppendProperties
    <3>3. m <= Len(w) /\ w[m] = n
      <4>1. /\ Len(b) <= Len(w)
            /\ \A k \in 1 .. Len(b) : w[k] = b[k]
        <5> HIDE DEF P, Bad, m
        <5>1. Len(s) \in n .. Len(s)
          BY <2>3
        <5>2. QED  BY <1>1, <2>3, <5>1, FoundKeeps
      <4>2. m = Len(b)
        OBVIOUS
      <4> HIDE DEF a, b, m
      <4>3. m \in 1 .. Len(b)
        BY <3>1, <3>2, <4>2
      <4>4. QED  BY <1>2, <3>2, <4>1, <4>2, <4>3
    <3>4. m \in 1 .. Len(types) /\ types[m] = s[n] /\ m - 1 = Len(a)
      <4> HIDE DEF a, m
      <4>1. m \in 1 .. Len(w) /\ m - 1 = Len(a)
        BY <1>2, <3>1, <3>2, <3>3
      <4>2. QED  BY <1>4, <3>3, <4>1
    <3>5. to(n) = IF s[n] \in L THEN Append(to(n - 1), m) ELSE to(n - 1)
      <4>1. Found(types, L, m) = IF types[m] \in L
                                 THEN Append(Found(types, L, m - 1), m)
                                 ELSE Found(types, L, m - 1)
        <5>1. types \in Seq(K)
          BY <1>4
        <5> HIDE DEF m, to, a, b, P, Bad
        <5>2. \A k \in 1 .. Len(types) :
                Found(types, L, k) = IF types[k] \in L
                                     THEN Append(Found(types, L, k - 1), k)
                                     ELSE Found(types, L, k - 1)
          BY <5>1, FoundNext
        <5>3. QED  BY <3>4, <5>2
      <4>2. to(n) = Found(types, L, m) /\ to(n - 1) = Found(types, L, m - 1)
        BY <3>4
      <4> HIDE DEF to, m
      <4>3. QED  BY <3>4, <4>1, <4>2
    <3>6. to(n - 1) \in Seq(1 .. Len(types))
      <4>1. Len(a) \in 0 .. Len(types)
        BY <3>1, <3>4
      <4>2. to(n - 1) \in Seq({k \in 1 .. Len(types) : types[k] \in L})
        BY <1>4, <4>1, FoundType
      <4>3. QED  BY <4>2
    <3> HIDE DEF to, a, b, m
    <3>7. s[n] \in L => [r \in DOMAIN to(n) |-> w[to(n)[r]]]
                          = Append([r \in DOMAIN to(n - 1) |-> w[to(n - 1)[r]]], n)
      <4> SUFFICES ASSUME s[n] \in L
                   PROVE  [r \in DOMAIN to(n) |-> w[to(n)[r]]]
                            = Append([r \in DOMAIN to(n - 1) |-> w[to(n - 1)[r]]], n)
        OBVIOUS
      <4> DEFINE g == to(n - 1)
      <4>1. to(n) = Append(g, m)
        BY <3>5
      <4>2. g \in Seq(1 .. Len(types)) /\ m \in 1 .. Len(types)
        BY <3>4, <3>6
      <4> HIDE DEF g
      <4>3. [r \in DOMAIN Append(g, m) |-> w[Append(g, m)[r]]]
              = Append([r \in DOMAIN g |-> w[g[r]]], w[m])
        BY <4>2, MapAppend
      <4>4. [r \in DOMAIN to(n) |-> w[to(n)[r]]] = Append([r \in DOMAIN g |-> w[g[r]]], n)
        BY <3>3, <4>1, <4>3
      <4>5. QED  BY <4>4 DEF g
    <3>8. P(n)
      BY <2>4, <2>6, <3>5, <3>7
    <3>9. QED  BY <2>1, <3>8
  <2>9. QED  BY <2>7, <2>8
<1>6. P(Len(s))
  BY <1>1, <1>5
<1>7. to(Len(s)) = Indices(types, L)
  BY <1>1, <1>4, FoundLast
<1>8. Found(s, L, Len(s)) = Indices(s, L)
  BY FoundLast
<1> HIDE DEF to
<1>9. Indices(s, L) = Picked(w, Indices(types, L))
  BY <1>6, <1>7, <1>8 DEF Picked
<1>10. QED  BY <1>3, <1>4, <1>9 DEF w, types

(* There are as many as are found.                                         *)
LEMMA FoundCounts ==
  ASSUME NEW T, NEW s \in Seq(T), NEW S, NEW n \in 0 .. Len(s)
  PROVE  /\ IsFiniteSet({k \in 1 .. n : s[k] \in S})
         /\ Cardinality({k \in 1 .. n : s[k] \in S}) = Len(Found(s, S, n))
<1> DEFINE I(m) == {k \in 1 .. m : s[k] \in S}
           P(m) == IsFiniteSet(I(m)) /\ Cardinality(I(m)) = Len(Found(s, S, m))
           Bad == {m \in 0 .. Len(s) : ~P(m)}
<1> SUFFICES ASSUME Bad # {} PROVE FALSE
  OBVIOUS
<1>1. PICK m \in Bad : \A x \in Bad : m <= x
  <2>1. Bad \in SUBSET Nat
    OBVIOUS
  <2> HIDE DEF Bad
  <2>2. QED  BY <2>1, Least
<1>2. m # 0
  <2>1. I(0) = {} /\ Found(s, S, 0) = <<>>
    BY FoundFirst
  <2> HIDE DEF I
  <2>2. P(0)
    BY <2>1, FS_EmptySet
  <2>3. QED  BY <1>1, <2>2
<1>3. m \in 1 .. Len(s) /\ m - 1 \in 0 .. Len(s) /\ m - 1 \notin Bad
  BY <1>1, <1>2
<1>4. P(m - 1)
  BY <1>3
<1>5. /\ Found(s, S, m) = IF s[m] \in S THEN Append(Found(s, S, m - 1), m)
                          ELSE Found(s, S, m - 1)
      /\ Found(s, S, m - 1) \in Seq(Nat)
  <2>1. Found(s, S, m - 1) \in Seq({k \in 1 .. Len(s) : s[k] \in S})
    BY <1>3, FoundType
  <2>2. Found(s, S, m - 1) \in Seq(Nat)
    BY <2>1
  <2>3. QED  BY <1>3, <2>2, FoundNext
<1>6. I(m) = IF s[m] \in S THEN I(m - 1) \cup {m} ELSE I(m - 1)
  <2>1. \A k : k \in 1 .. m <=> k \in 1 .. m - 1 \/ k = m
    BY <1>3
  <2>2. QED  BY <2>1
<1>7. m \notin I(m - 1)
  BY <1>3
<1> HIDE DEF I
<1>8. CASE s[m] \in S
  <2>1. /\ IsFiniteSet(I(m)) /\ Cardinality(I(m)) = Cardinality(I(m - 1)) + 1
    BY <1>4, <1>6, <1>7, <1>8, FS_AddElement
  <2>2. Len(Found(s, S, m)) = Len(Found(s, S, m - 1)) + 1
    BY <1>3, <1>5, <1>8, AppendProperties
  <2>3. P(m)
    BY <1>4, <2>1, <2>2
  <2>4. QED  BY <1>1, <2>3
<1>9. CASE s[m] \notin S
  <2>1. P(m)
    BY <1>4, <1>5, <1>6, <1>9
  <2>2. QED  BY <1>1, <2>1
<1>10. QED  BY <1>8, <1>9
=============================================================================
