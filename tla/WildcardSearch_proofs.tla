------------------------ MODULE WildcardSearch_proofs ------------------------
(***************************************************************************)
(* What EncodedSubqueries promises of each subquery and its iterators, and *)
(* WildcardSearch of the batches that are matched against it, for queries  *)
(* of any number of subqueries and variables.                              *)
(***************************************************************************)
EXTENDS WildcardSearch, BatchMatching_proofs, SequenceLemmas

-----------------------------------------------------------------------------
(* Bounds come in pairs.                                                   *)
Pairs(indices) == [k \in DOMAIN indices |-> <<BeginPos(indices[k]), EndPos(indices[k])>>]

LEMMA Positions ==
  ASSUME NEW k \in Nat
  PROVE  BeginPos(k) \in Nat /\ EndPos(k) \in Nat /\ BeginPos(k) <= EndPos(k)
BY DEF BeginPos, EndPos

LEMMA PairsType ==
  ASSUME NEW indices \in Seq(Nat)
  PROVE  /\ Pairs(indices) \in Seq(Seq(Nat)) /\ Len(Pairs(indices)) = Len(indices)
         /\ \A k \in 1 .. Len(indices) :
              /\ Pairs(indices)[k] = <<BeginPos(indices[k]), EndPos(indices[k])>>
              /\ indices[k] \in Nat
<1>1. DOMAIN indices = 1 .. Len(indices) /\ Len(indices) \in Nat
  OBVIOUS
<1>2. \A k \in 1 .. Len(indices) :
        indices[k] \in Nat /\ <<BeginPos(indices[k]), EndPos(indices[k])>> \in Seq(Nat)
  <2> TAKE k \in 1 .. Len(indices)
  <2>1. indices[k] \in Nat
    OBVIOUS
  <2>2. BeginPos(indices[k]) \in Nat /\ EndPos(indices[k]) \in Nat
    BY <2>1, Positions
  <2>3. QED  BY <2>1, <2>2
<1>3. Pairs(indices) = [k \in 1 .. Len(indices) |->
                          <<BeginPos(indices[k]), EndPos(indices[k])>>]
  BY <1>1 DEF Pairs
<1>4. QED  BY <1>1, <1>2, <1>3

LEMMA BoundsEmpty == BoundsOf(<<>>) = <<>>
<1>1. [k \in DOMAIN <<>> |-> <<BeginPos(<<>>[k]), EndPos(<<>>[k])>>] = <<>>
  OBVIOUS
<1>2. QED  BY <1>1, FlattenEmpty DEF BoundsOf

LEMMA BoundsAppend ==
  ASSUME NEW indices \in Seq(Nat), NEW x \in Nat
  PROVE  BoundsOf(Append(indices, x)) = AppendBounds(BoundsOf(indices), x)
<1> DEFINE f == [k \in Nat |-> <<BeginPos(k), EndPos(k)>>]
<1>1. \A g \in Seq(Nat) : Pairs(g) = [r \in DOMAIN g |-> f[g[r]]]
  BY DEF Pairs
<1>2. f[x] = <<BeginPos(x), EndPos(x)>>
  OBVIOUS
<1>3. Append(indices, x) \in Seq(Nat)
  OBVIOUS
<1> HIDE DEF f
<1>4. Pairs(Append(indices, x)) = Append(Pairs(indices), <<BeginPos(x), EndPos(x)>>)
  <2>1. [r \in DOMAIN Append(indices, x) |-> f[Append(indices, x)[r]]]
          = Append([r \in DOMAIN indices |-> f[indices[r]]], f[x])
    BY MapAppend
  <2>2. /\ Pairs(indices) = [r \in DOMAIN indices |-> f[indices[r]]]
        /\ Pairs(Append(indices, x))
             = [r \in DOMAIN Append(indices, x) |-> f[Append(indices, x)[r]]]
    BY <1>1, <1>3
  <2>3. QED  BY <1>2, <2>1, <2>2
<1>5. Pairs(indices) \in Seq(Seq(Nat)) /\ <<BeginPos(x), EndPos(x)>> \in Seq(Nat)
  <2>1. BeginPos(x) \in Nat /\ EndPos(x) \in Nat
    BY Positions
  <2>2. <<BeginPos(x), EndPos(x)>> \in Seq(Nat)
    BY <2>1
  <2>3. QED  BY <2>2, PairsType
<1>6. FlattenSeq(Pairs(Append(indices, x)))
        = FlattenSeq(Pairs(indices)) \o <<BeginPos(x), EndPos(x)>>
  BY <1>4, <1>5, FlattenAppend
<1>7. QED  BY <1>6 DEF BoundsOf, Pairs, AppendBounds

LEMMA BoundsAt ==
  ASSUME NEW indices \in Seq(Nat)
  PROVE  /\ BoundsOf(indices) \in Seq(Nat)
         /\ Len(BoundsOf(indices)) = 2 * Len(indices)
         /\ \A k \in 1 .. Len(indices) :
              /\ BoundsOf(indices)[2 * k - 1] = BeginPos(indices[k])
              /\ BoundsOf(indices)[2 * k] = EndPos(indices[k])
<1> DEFINE p == Pairs(indices)
<1>1. /\ p \in Seq(Seq(Nat)) /\ Len(p) = Len(indices)
      /\ \A k \in 1 .. Len(indices) :
           p[k] = <<BeginPos(indices[k]), EndPos(indices[k])>>
  BY PairsType
<1>2. BoundsOf(indices) = FlattenSeq(p)
  BY DEF BoundsOf, Pairs
<1> HIDE DEF p
<1>3. \A k \in 1 .. Len(p) :
        /\ Len(p[k]) = 2
        /\ p[k][1] = BeginPos(indices[k]) /\ p[k][2] = EndPos(indices[k])
  <2> TAKE k \in 1 .. Len(p)
  <2>1. p[k] = <<BeginPos(indices[k]), EndPos(indices[k])>>
    BY <1>1
  <2>2. QED  BY <2>1
<1>4. /\ FlattenSeq(p) \in Seq(Nat) /\ Len(FlattenSeq(p)) = 2 * Len(p)
      /\ \A k \in 1 .. Len(p) :
           FlattenSeq(p)[2 * k - 1] = p[k][1] /\ FlattenSeq(p)[2 * k] = p[k][2]
  BY <1>1, <1>3, FlattenPairs
<1>5. QED  BY <1>1, <1>2, <1>3, <1>4

-----------------------------------------------------------------------------
(* What the vectors hold when the first n variables of s have been visited.*)
DictBounds(s, n) == BoundsOf(Found(s, {"exactDictionary"}, n))
EncodedVars(s, n) ==
  [k \in DOMAIN Found(s, {"exactEncoded"}, n) |->
     EncodedValue(Found(s, {"exactEncoded"}, n)[k])]
WildcardTypes(s, n) ==
  [k \in DOMAIN Found(s, Placeholders, n) |-> s[Found(s, Placeholders, n)[k]]]
WildcardBounds(s, n) == BoundsOf(Found(s, Placeholders, n))

LEMMA FoundIndices ==
  ASSUME NEW s \in Seq(VarKinds), NEW S, NEW n \in 0 .. Len(s)
  PROVE  Found(s, S, n) \in Seq(Nat)
<1>1. Found(s, S, n) \in Seq({k \in 1 .. Len(s) : s[k] \in S})
  BY FoundType
<1>2. QED  BY <1>1

LEMMA VectorsType ==
  ASSUME NEW s \in Seq(VarKinds), NEW n \in 0 .. Len(s)
  PROVE  /\ DictBounds(s, n) \in Seq(Nat) /\ Len(DictBounds(s, n)) % 2 = 0
         /\ EncodedVars(s, n) \in Seq(Nat)
         /\ WildcardTypes(s, n) \in Seq(Placeholders)
         /\ WildcardBounds(s, n) \in Seq(Nat)
         /\ Len(WildcardBounds(s, n)) = 2 * Len(WildcardTypes(s, n))
<1>1. DictBounds(s, n) \in Seq(Nat) /\ Len(DictBounds(s, n)) % 2 = 0
  <2> DEFINE d == Found(s, {"exactDictionary"}, n)
  <2>1. d \in Seq(Nat)
    BY FoundIndices
  <2> HIDE DEF d
  <2>2. BoundsOf(d) \in Seq(Nat) /\ Len(BoundsOf(d)) = 2 * Len(d) /\ Len(d) \in Nat
    BY <2>1, BoundsAt
  <2>3. \A k \in Nat : (2 * k) % 2 = 0
    OBVIOUS
  <2>4. QED  BY <2>2, <2>3 DEF DictBounds, d
<1>2. EncodedVars(s, n) \in Seq(Nat)
  <2> DEFINE e == Found(s, {"exactEncoded"}, n)
  <2>1. e \in Seq(Nat)
    BY FoundIndices
  <2> HIDE DEF e
  <2>2. [k \in DOMAIN e |-> EncodedValue(e[k])] \in Seq(Nat)
    BY <2>1 DEF EncodedValue
  <2>3. QED  BY <2>2 DEF EncodedVars, e
<1>3. /\ WildcardTypes(s, n) \in Seq(Placeholders)
      /\ WildcardBounds(s, n) \in Seq(Nat)
      /\ Len(WildcardBounds(s, n)) = 2 * Len(WildcardTypes(s, n))
  <2> DEFINE w == Found(s, Placeholders, n)
             types == [k \in DOMAIN w |-> s[w[k]]]
  <2>1. w \in Seq(Nat) /\ \A k \in 1 .. Len(w) : s[w[k]] \in Placeholders
    BY FoundIndices, FoundType
  <2> HIDE DEF w
  <2>2. DOMAIN w = 1 .. Len(w) /\ Len(w) \in Nat
    BY <2>1
  <2>3. types \in Seq(Placeholders) /\ Len(types) = Len(w)
    BY <2>1, <2>2
  <2>4. BoundsOf(w) \in Seq(Nat) /\ Len(BoundsOf(w)) = 2 * Len(w)
    BY <2>1, BoundsAt
  <2>5. QED  BY <2>3, <2>4 DEF WildcardTypes, WildcardBounds, w
<1>4. QED  BY <1>1, <1>2, <1>3

LEMMA VectorsFirst ==
  ASSUME NEW s \in Seq(VarKinds)
  PROVE  /\ DictBounds(s, 0) = <<>> /\ EncodedVars(s, 0) = <<>>
         /\ WildcardTypes(s, 0) = <<>> /\ WildcardBounds(s, 0) = <<>>
<1>1. \A S : Found(s, S, 0) = <<>>
  BY FoundFirst
<1>2. DictBounds(s, 0) = <<>> /\ WildcardBounds(s, 0) = <<>>
  BY <1>1, BoundsEmpty DEF DictBounds, WildcardBounds
<1>3. EncodedVars(s, 0) = [k \in DOMAIN <<>> |-> EncodedValue(<<>>[k])]
  BY <1>1 DEF EncodedVars
<1>4. WildcardTypes(s, 0) = [k \in DOMAIN <<>> |-> s[<<>>[k]]]
  BY <1>1 DEF WildcardTypes
<1>5. QED  BY <1>2, <1>3, <1>4

(* Visiting one variable more appends to the vectors of its kind.          *)
LEMMA VectorsNext ==
  ASSUME NEW s \in Seq(VarKinds), NEW n \in 1 .. Len(s)
  PROVE  /\ DictBounds(s, n) = IF s[n] = "exactDictionary"
                               THEN AppendBounds(DictBounds(s, n - 1), n)
                               ELSE DictBounds(s, n - 1)
         /\ EncodedVars(s, n) = IF s[n] = "exactEncoded"
                                THEN Append(EncodedVars(s, n - 1), EncodedValue(n))
                                ELSE EncodedVars(s, n - 1)
         /\ WildcardTypes(s, n) = IF s[n] \in Placeholders
                                  THEN Append(WildcardTypes(s, n - 1), s[n])
                                  ELSE WildcardTypes(s, n - 1)
         /\ WildcardBounds(s, n) = IF s[n] \in Placeholders
                                   THEN AppendBounds(WildcardBounds(s, n - 1), n)
                                   ELSE WildcardBounds(s, n - 1)
<1>1. \A S : /\ Found(s, S, n) = IF s[n] \in S THEN Append(Found(s, S, n - 1), n)
                                 ELSE Found(s, S, n - 1)
             /\ Found(s, S, n - 1) \in Seq(Nat)
  <2>1. n - 1 \in 0 .. Len(s)
    OBVIOUS
  <2>2. QED  BY <2>1, FoundNext, FoundIndices
<1>2. n \in Nat /\ \A kind : s[n] = kind <=> s[n] \in {kind}
  OBVIOUS
<1>3. DictBounds(s, n) = IF s[n] = "exactDictionary"
                         THEN AppendBounds(DictBounds(s, n - 1), n)
                         ELSE DictBounds(s, n - 1)
  <2> DEFINE d == Found(s, {"exactDictionary"}, n - 1)
  <2>1. /\ Found(s, {"exactDictionary"}, n)
            = IF s[n] = "exactDictionary" THEN Append(d, n) ELSE d
        /\ d \in Seq(Nat)
    BY <1>1, <1>2
  <2> HIDE DEF d
  <2>2. BoundsOf(Append(d, n)) = AppendBounds(BoundsOf(d), n)
    BY <1>2, <2>1, BoundsAppend
  <2>3. QED  BY <2>1, <2>2 DEF DictBounds, d
<1>4. WildcardBounds(s, n) = IF s[n] \in Placeholders
                             THEN AppendBounds(WildcardBounds(s, n - 1), n)
                             ELSE WildcardBounds(s, n - 1)
  <2> DEFINE w == Found(s, Placeholders, n - 1)
  <2>1. /\ Found(s, Placeholders, n)
            = IF s[n] \in Placeholders THEN Append(w, n) ELSE w
        /\ w \in Seq(Nat)
    BY <1>1
  <2> HIDE DEF w
  <2>2. BoundsOf(Append(w, n)) = AppendBounds(BoundsOf(w), n)
    BY <1>2, <2>1, BoundsAppend
  <2>3. QED  BY <2>1, <2>2 DEF WildcardBounds, w
<1>5. EncodedVars(s, n) = IF s[n] = "exactEncoded"
                          THEN Append(EncodedVars(s, n - 1), EncodedValue(n))
                          ELSE EncodedVars(s, n - 1)
  <2> DEFINE e == Found(s, {"exactEncoded"}, n - 1)
             f == [k \in Nat |-> EncodedValue(k)]
  <2>1. /\ Found(s, {"exactEncoded"}, n)
            = IF s[n] = "exactEncoded" THEN Append(e, n) ELSE e
        /\ e \in Seq(Nat)
    BY <1>1, <1>2
  <2>2. \A g \in Seq(Nat) : [k \in DOMAIN g |-> EncodedValue(g[k])]
                              = [k \in DOMAIN g |-> f[g[k]]]
    OBVIOUS
  <2>3. f[n] = EncodedValue(n)
    BY <1>2
  <2> HIDE DEF e, f
  <2>4. [k \in DOMAIN Append(e, n) |-> f[Append(e, n)[k]]]
          = Append([k \in DOMAIN e |-> f[e[k]]], f[n])
    BY <1>2, <2>1, MapAppend
  <2>5. Append(e, n) \in Seq(Nat)
    BY <1>2, <2>1
  <2>6. [k \in DOMAIN Append(e, n) |-> EncodedValue(Append(e, n)[k])]
          = Append([k \in DOMAIN e |-> EncodedValue(e[k])], EncodedValue(n))
    BY <2>1, <2>2, <2>3, <2>4, <2>5
  <2>7. QED  BY <2>1, <2>6 DEF EncodedVars, e
<1>6. WildcardTypes(s, n) = IF s[n] \in Placeholders
                            THEN Append(WildcardTypes(s, n - 1), s[n])
                            ELSE WildcardTypes(s, n - 1)
  <2> DEFINE w == Found(s, Placeholders, n - 1)
  <2>1. /\ Found(s, Placeholders, n)
            = IF s[n] \in Placeholders THEN Append(w, n) ELSE w
        /\ w \in Seq(Nat)
    BY <1>1
  <2> HIDE DEF w
  <2>2. [k \in DOMAIN Append(w, n) |-> s[Append(w, n)[k]]]
          = Append([k \in DOMAIN w |-> s[w[k]]], s[n])
    BY <1>2, <2>1, MapAppend
  <2>3. QED  BY <2>1, <2>2 DEF WildcardTypes, w
<1>7. QED  BY <1>3, <1>4, <1>5, <1>6

-----------------------------------------------------------------------------
(* Encoding.  Each subquery that has been made is the one of all its       *)
(* variables; the vectors are those of the variables visited so far.       *)
SubqueryOf(s) ==
  [query |-> Parent,
   dictVarBounds |-> DictBounds(s, Len(s)),
   encodedVars |-> EncodedVars(s, Len(s)),
   wildcardVarPlaceholders |-> WildcardTypes(s, Len(s)),
   wildcardVarBounds |-> WildcardBounds(s, Len(s))]

VectorsAre(s, n) ==
  /\ dict_var_bounds = DictBounds(s, n)
  /\ encoded_vars = EncodedVars(s, n)
  /\ wildcard_var_placeholders = WildcardTypes(s, n)
  /\ wildcard_var_bounds = WildcardBounds(s, n)

VisitInv ==
  /\ pc \in {"idle", "next", "visit", "make", "read"}
  /\ query \in Seq(Seq(VarKinds))
  /\ i \in Nat /\ j \in Nat
  /\ Len(dict_var_bounds) % 2 = 0
  /\ Len(wildcard_var_bounds) = 2 * Len(wildcard_var_placeholders)
  /\ pc \in {"next", "visit"} => Len(subqueries) = i
  /\ pc = "visit" =>
       i < Len(query) /\ j <= Len(query[i + 1]) /\ VectorsAre(query[i + 1], j)

SubqueriesInv ==
  /\ subqueries \in Seq({SubqueryOf(s) : s \in Seq(VarKinds)})
  /\ Len(subqueries) <= Len(query)
  /\ \A n \in 1 .. Len(subqueries) : subqueries[n] = SubqueryOf(query[n])

EncodingInv == VisitInv /\ SubqueriesInv

LEMMA InitEncodingInv == Init => EncodingInv
<1> SUFFICES ASSUME Init PROVE EncodingInv
  OBVIOUS
<1>1. VisitInv
  BY DEF Init, VisitInv
<1>2. SubqueriesInv
  BY DEF Init, SubqueriesInv
<1>3. QED  BY <1>1, <1>2 DEF EncodingInv

(* Steps that touch nothing but the iterator.                              *)
LEMMA EncodingKept ==
  ASSUME EncodingInv, UNCHANGED <<pc, query, encoding, subqueries>>
  PROVE  EncodingInv'
BY DEF EncodingInv, VisitInv, SubqueriesInv, VectorsAre, encoding

LEMMA EncodeInv ==
  ASSUME EncodingInv, Encode
  PROVE  EncodingInv'
<1> USE SubqueriesAssumption DEF EncodingInv, Encode
<1>1. query' \in Seq(Seq(VarKinds)) /\ subqueries' = <<>> /\ Len(query') \in Nat
  OBVIOUS
<1>2. VisitInv'
  BY <1>1 DEF VisitInv
<1>3. SubqueriesInv'
  BY <1>1 DEF SubqueriesInv
<1>4. QED  BY <1>2, <1>3

LEMMA NextSubqueryInv ==
  ASSUME EncodingInv, NextSubquery
  PROVE  EncodingInv'
<1> USE DEF EncodingInv, NextSubquery
<1>1. SubqueriesInv'
  BY DEF SubqueriesInv
<1>2. CASE pc' = "visit"
  <2>1. /\ i \in Nat /\ i < Len(query) /\ Len(query) \in Nat /\ query' = query
        /\ i' = i /\ j' = 0 /\ subqueries' = subqueries /\ Len(subqueries) = i
        /\ dict_var_bounds' = <<>> /\ encoded_vars' = <<>>
        /\ wildcard_var_placeholders' = <<>> /\ wildcard_var_bounds' = <<>>
    BY <1>2 DEF VisitInv, ClearVectors
  <2>2. query[i + 1] \in Seq(VarKinds)
    BY <2>1 DEF VisitInv
  <2>3. VectorsAre(query[i + 1], 0)'
    BY <2>1, <2>2, VectorsFirst DEF VectorsAre, DictBounds, EncodedVars,
                                    WildcardTypes, WildcardBounds
  <2>4. Len(query[i + 1]) \in Nat
    BY <2>2
  <2>5. VisitInv'
    BY <1>2, <2>1, <2>3, <2>4 DEF VisitInv, VectorsAre
  <2>6. QED  BY <1>1, <2>5
<1>3. CASE pc' = "read"
  BY <1>1, <1>3 DEF VisitInv, DropLocals
<1>4. QED  BY <1>2, <1>3

LEMMA VisitVariableInv ==
  ASSUME EncodingInv, Visit
  PROVE  EncodingInv'
<1> USE DEF EncodingInv, Visit
<1>1. SubqueriesInv'
  BY DEF SubqueriesInv
<1> DEFINE s == query[i + 1]
           n == j + 1
<1>2. /\ s \in Seq(VarKinds) /\ n \in 1 .. Len(s) /\ n - 1 = j /\ n \in 0 .. Len(s)
      /\ VectorsAre(s, j) /\ pc = "visit" /\ pc' = pc /\ j' = n
      /\ query' = query /\ i' = i /\ subqueries' = subqueries
      /\ i \in Nat /\ i < Len(query) /\ Len(subqueries) = i
  BY DEF VisitInv
<1>3. s[n] \in VarKinds
  BY <1>2
<1>4. /\ dict_var_bounds' = IF s[n] = "exactDictionary"
                            THEN AppendBounds(dict_var_bounds, n) ELSE dict_var_bounds
      /\ encoded_vars' = IF s[n] = "exactEncoded"
                         THEN Append(encoded_vars, EncodedValue(n)) ELSE encoded_vars
      /\ wildcard_var_placeholders' = IF s[n] \in Placeholders
                                      THEN Append(wildcard_var_placeholders, s[n])
                                      ELSE wildcard_var_placeholders
      /\ wildcard_var_bounds' = IF s[n] \in Placeholders
                                THEN AppendBounds(wildcard_var_bounds, n)
                                ELSE wildcard_var_bounds
  BY DEF Placeholders
<1> HIDE DEF s, n
<1>5. /\ dict_var_bounds' = DictBounds(s, n)
      /\ encoded_vars' = EncodedVars(s, n)
      /\ wildcard_var_placeholders' = WildcardTypes(s, n)
      /\ wildcard_var_bounds' = WildcardBounds(s, n)
  BY <1>2, <1>4, VectorsNext DEF VectorsAre
<1>6. /\ Len(dict_var_bounds') % 2 = 0
      /\ Len(wildcard_var_bounds') = 2 * Len(wildcard_var_placeholders')
  BY <1>2, <1>5, VectorsType
<1>7. VisitInv'
  BY <1>2, <1>5, <1>6 DEF VisitInv, VectorsAre, s, n
<1>8. QED  BY <1>1, <1>7

LEMMA MakeSubqueryInv ==
  ASSUME EncodingInv, MakeSubquery
  PROVE  EncodingInv'
<1> USE DEF EncodingInv, MakeSubquery
<1> DEFINE s == query[i + 1]
           Made == {SubqueryOf(t) : t \in Seq(VarKinds)}
<1>1. /\ s \in Seq(VarKinds) /\ j = Len(s) /\ VectorsAre(s, Len(s))
      /\ i \in Nat /\ i < Len(query) /\ Len(query) \in Nat /\ Len(subqueries) = i
      /\ query' = query /\ i' = i + 1 /\ pc' = "next"
  BY DEF VisitInv
<1>2. subqueries' = Append(subqueries, SubqueryOf(s))
  BY <1>1 DEF VectorsAre, SubqueryOf
<1>3. subqueries \in Seq(Made) /\ SubqueryOf(s) \in Made
  BY <1>1 DEF SubqueriesInv
<1> HIDE DEF Made
<1>4. /\ subqueries' \in Seq(Made) /\ Len(subqueries') = i + 1
      /\ subqueries'[i + 1] = SubqueryOf(s)
      /\ \A n \in 1 .. i : subqueries'[n] = subqueries[n]
  BY <1>1, <1>2, <1>3, AppendProperties
<1>5. VisitInv'
  BY <1>1, <1>4 DEF VisitInv
<1>6. \A n \in 1 .. i + 1 : subqueries'[n] = SubqueryOf(query[n])
  <2>1. \A n \in 1 .. i + 1 : n = i + 1 \/ n \in 1 .. i
    BY <1>1
  <2>2. \A n \in 1 .. i : subqueries[n] = SubqueryOf(query[n])
    BY <1>1 DEF SubqueriesInv
  <2>3. QED  BY <1>4, <2>1, <2>2
<1>7. SubqueriesInv'
  <2>1. Len(subqueries') <= Len(query')
    BY <1>1, <1>4
  <2>2. \A n \in 1 .. Len(subqueries') : subqueries'[n] = SubqueryOf(query'[n])
    BY <1>1, <1>4, <1>6
  <2>3. subqueries' \in Seq({SubqueryOf(t) : t \in Seq(VarKinds)})
    BY <1>4 DEF Made
  <2>4. QED  BY <2>1, <2>2, <2>3 DEF SubqueriesInv
<1>8. QED  BY <1>5, <1>7

LEMMA EndEncodingInv ==
  ASSUME EncodingInv, EncodeFails \/ Done
  PROVE  EncodingInv'
<1>1. query' = <<>> /\ subqueries' = <<>> /\ pc' = "idle"
  BY DEF EncodeFails, Done
<1>2. SubqueriesInv'
  BY <1>1 DEF SubqueriesInv
<1>3. VisitInv'
  BY <1>1 DEF VisitInv, EncodingInv, EncodeFails, Done, DropLocals, encoding
<1>4. QED  BY <1>2, <1>3 DEF EncodingInv

LEMMA NextEncodingInv ==
  ASSUME EncodingInv, [Next]_vars
  PROVE  EncodingInv'
<1>1. CASE UNCHANGED vars
  BY <1>1, EncodingKept DEF vars
<1>2. CASE StartIteration \/ HasNext \/ NextVar
  BY <1>2, EncodingKept DEF StartIteration, HasNext, NextVar
<1>3. QED
  BY <1>1, <1>2, EncodeInv, NextSubqueryInv, VisitVariableInv, MakeSubqueryInv,
     EndEncodingInv DEF Next

(* A subquery holds each variable once.                                    *)
LEMMA MadeSubquery ==
  ASSUME EncodingInv, NEW n \in 1 .. Len(subqueries)
  PROVE  LET s == query[n]
             exactEncoded == Indices(s, {"exactEncoded"})
             wildcards == Indices(s, Placeholders)
         IN  /\ s \in Seq(VarKinds)
             /\ subqueries[n].query = "clean"
             /\ subqueries[n].dictVarBounds = BoundsOf(Indices(s, {"exactDictionary"}))
             /\ subqueries[n].encodedVars
                  = [k \in DOMAIN exactEncoded |-> EncodedValue(exactEncoded[k])]
             /\ subqueries[n].wildcardVarPlaceholders
                  = [k \in DOMAIN wildcards |-> s[wildcards[k]]]
             /\ subqueries[n].wildcardVarBounds = BoundsOf(wildcards)
             /\ subqueries[n].wildcardVarPlaceholders \in Seq(Placeholders)
             /\ Len(subqueries[n].dictVarBounds) % 2 = 0
             /\ Len(subqueries[n].wildcardVarBounds)
                  = 2 * Len(subqueries[n].wildcardVarPlaceholders)
<1> DEFINE s == query[n]
<1>1. s \in Seq(VarKinds) /\ subqueries[n] = SubqueryOf(s) /\ Len(s) \in 0 .. Len(s)
  <2>1. /\ query \in Seq(Seq(VarKinds)) /\ Len(subqueries) <= Len(query)
        /\ Len(subqueries) \in Nat /\ Len(query) \in Nat
    BY DEF EncodingInv, VisitInv, SubqueriesInv
  <2>2. n \in 1 .. Len(query)
    BY <2>1
  <2>3. s \in Seq(VarKinds)
    BY <2>1, <2>2
  <2>4. QED  BY <2>3 DEF EncodingInv, SubqueriesInv
<1> HIDE DEF s
<1>2. \A S : Found(s, S, Len(s)) = Indices(s, S)
  BY <1>1, FoundLast
<1>3. /\ subqueries[n].query = "clean"
      /\ subqueries[n].dictVarBounds = DictBounds(s, Len(s))
      /\ subqueries[n].encodedVars = EncodedVars(s, Len(s))
      /\ subqueries[n].wildcardVarPlaceholders = WildcardTypes(s, Len(s))
      /\ subqueries[n].wildcardVarBounds = WildcardBounds(s, Len(s))
  BY <1>1 DEF SubqueryOf, Parent
<1>4. /\ WildcardTypes(s, Len(s)) \in Seq(Placeholders)
      /\ Len(DictBounds(s, Len(s))) % 2 = 0
      /\ Len(WildcardBounds(s, Len(s))) = 2 * Len(WildcardTypes(s, Len(s)))
  BY <1>1, VectorsType
<1>5. /\ DictBounds(s, Len(s)) = BoundsOf(Indices(s, {"exactDictionary"}))
      /\ EncodedVars(s, Len(s))
           = [k \in DOMAIN Indices(s, {"exactEncoded"}) |->
                EncodedValue(Indices(s, {"exactEncoded"})[k])]
      /\ WildcardTypes(s, Len(s))
           = [k \in DOMAIN Indices(s, Placeholders) |-> s[Indices(s, Placeholders)[k]]]
      /\ WildcardBounds(s, Len(s)) = BoundsOf(Indices(s, Placeholders))
  BY <1>2 DEF DictBounds, EncodedVars, WildcardTypes, WildcardBounds
<1>6. QED  BY <1>1, <1>3, <1>4, <1>5 DEF s

(* A subquery has none of the three only if it has no variable.            *)
LEMMA ContainsVariablesIff ==
  ASSUME EncodingInv, NEW n \in 1 .. Len(subqueries)
  PROVE  ContainsVariables(subqueries[n]) <=> query[n] # <<>>
<1> DEFINE s == query[n]
           d == Indices(s, {"exactDictionary"})
           e == Indices(s, {"exactEncoded"})
           w == Indices(s, Placeholders)
<1>1. /\ s \in Seq(VarKinds)
      /\ subqueries[n].dictVarBounds = BoundsOf(d)
      /\ subqueries[n].encodedVars = [k \in DOMAIN e |-> EncodedValue(e[k])]
      /\ subqueries[n].wildcardVarPlaceholders = [k \in DOMAIN w |-> s[w[k]]]
  BY MadeSubquery
<1> HIDE DEF s
<1>2. \A S : Indices(s, S) = Found(s, S, Len(s)) /\ Indices(s, S) \in Seq(Nat)
  <2>1. Len(s) \in 0 .. Len(s)
    BY <1>1
  <2>2. QED  BY <1>1, <2>1, FoundLast, FoundIndices
<1>3. CASE s = <<>>
  <2>1. Len(s) = 0
    BY <1>3
  <2>2. d = <<>> /\ e = <<>> /\ w = <<>>
    BY <1>1, <1>2, <2>1, FoundFirst
  <2>3. /\ subqueries[n].dictVarBounds = <<>>
        /\ subqueries[n].encodedVars = [k \in DOMAIN <<>> |-> EncodedValue(<<>>[k])]
        /\ subqueries[n].wildcardVarPlaceholders = [k \in DOMAIN <<>> |-> s[<<>>[k]]]
    BY <1>1, <2>2, BoundsEmpty
  <2>4. ~ContainsVariables(subqueries[n])
    BY <2>3 DEF ContainsVariables
  <2>5. QED  BY <1>3, <2>4 DEF s
<1>4. CASE s # <<>>
  <2> DEFINE m == Len(s)
  <2>1. m \in 1 .. Len(s) /\ m - 1 \in 0 .. Len(s)
    BY <1>1, <1>4, EmptySeq
  <2>2. s[m] \in VarKinds
    BY <1>1, <2>1
  <2>3. ASSUME NEW S, s[m] \in S
        PROVE  Len(Indices(s, S)) \in Nat \ {0}
    <3>1. Found(s, S, m) = Append(Found(s, S, m - 1), m)
      BY <1>1, <2>1, <2>3, FoundNext
    <3>2. Found(s, S, m - 1) \in Seq(Nat) /\ m \in Nat
      BY <1>1, <2>1, FoundIndices
    <3> HIDE DEF m
    <3>3. Len(Found(s, S, m)) \in Nat \ {0}
      BY <3>1, <3>2
    <3>4. QED  BY <1>2, <3>3 DEF m
  <2> HIDE DEF m
  <2>4. CASE s[m] = "exactDictionary"
    <3>1. d \in Seq(Nat) /\ Len(d) \in Nat \ {0}
      BY <1>2, <2>3, <2>4
    <3> HIDE DEF d
    <3>2. Len(BoundsOf(d)) = 2 * Len(d)
      BY <3>1, BoundsAt
    <3>3. Len(BoundsOf(d)) # 0
      BY <3>1, <3>2
    <3>4. QED  BY <1>1, <1>4, <3>3 DEF ContainsVariables, s
  <2>5. CASE s[m] = "exactEncoded"
    <3>1. e \in Seq(Nat) /\ Len(e) \in Nat \ {0}
      BY <1>2, <2>3, <2>5
    <3> HIDE DEF e
    <3>2. 1 \in DOMAIN subqueries[n].encodedVars
      BY <1>1, <3>1
    <3>3. QED  BY <1>4, <3>2 DEF ContainsVariables, s
  <2>6. CASE s[m] \in Placeholders
    <3>1. w \in Seq(Nat) /\ Len(w) \in Nat \ {0}
      BY <1>2, <2>3, <2>6
    <3> HIDE DEF w
    <3>2. 1 \in DOMAIN subqueries[n].wildcardVarPlaceholders
      BY <1>1, <3>1
    <3>3. QED  BY <1>4, <3>2 DEF ContainsVariables, s
  <2>7. QED  BY <2>2, <2>4, <2>5, <2>6 DEF VarKinds, Exact
<1>5. QED  BY <1>3, <1>4

LEMMA EachVariableOnceHolds == EncodingInv => EachVariableOnce
<1> SUFFICES ASSUME EncodingInv PROVE EachVariableOnce
  OBVIOUS
<1>1. DOMAIN subqueries = 1 .. Len(subqueries)
  BY DEF EncodingInv, SubqueriesInv
<1>2. QED
  BY <1>1, MadeSubquery, ContainsVariablesIff DEF EachVariableOnce, VarsOf

-----------------------------------------------------------------------------
(* Iterating.  A wildcard iterator's two indices stay in step, and within  *)
(* the variables of its subquery.                                          *)
Types == Subquery(iterator).wildcardVarPlaceholders

IteratorTypes ==
  [kind : IteratorKinds, of : Nat, varIdx : Nat, boundsIdx : Nat,
   hasNext : {"unknown", "true", "false"}]

IteratorInv ==
  /\ iterator \in IteratorTypes
  /\ iterator.of <= Len(subqueries)
  /\ pc # "read" => iterator.of = 0
  /\ iterator.of # 0 /\ iterator.kind # "DictVars" =>
       iterator.varIdx <= Len(Types) /\ iterator.boundsIdx = 2 * iterator.varIdx

(* isRelevantType is what the iterables' names say.                        *)
LEMMA Relevant ==
  ASSUME NEW kind \in IteratorKinds, kind # "DictVars", NEW type \in Placeholders
  PROVE  isRelevantType(kind, type) <=> type \in KindsOf(kind)
BY DEF IteratorKinds, Placeholders, isRelevantType, KindsOf

LEMMA IteratedTypes ==
  ASSUME EncodingInv, IteratorInv, iterator.of # 0
  PROVE  /\ iterator.of \in 1 .. Len(subqueries)
         /\ Types \in Seq(Placeholders)
<1>1. iterator.of \in 1 .. Len(subqueries)
  <2>1. Len(subqueries) \in Nat /\ iterator.of \in Nat /\ iterator.of <= Len(subqueries)
    BY DEF EncodingInv, SubqueriesInv, IteratorInv, IteratorTypes
  <2>2. QED  BY <2>1
<1>2. QED  BY <1>1, MadeSubquery DEF Types, Subquery

(* hasNext() of a wildcard iterator goes to the next variable of its type. *)
SkippedFrom(s, it, p) ==
  LET types == s.wildcardVarPlaceholders
  IN  /\ p \in it.varIdx .. Len(types)
      /\ Skip(s, it) = [it EXCEPT !.varIdx = p, !.boundsIdx = 2 * p]
      /\ \A k \in it.varIdx + 1 .. p : types[k] \notin KindsOf(it.kind)
      /\ p < Len(types) => types[p + 1] \in KindsOf(it.kind)

LEMMA SkipsFrom ==
  ASSUME NEW s, NEW it \in IteratorTypes, it.kind # "DictVars",
         s.wildcardVarPlaceholders \in Seq(Placeholders),
         it.varIdx <= Len(s.wildcardVarPlaceholders), it.boundsIdx = 2 * it.varIdx
  PROVE  \E p \in Nat : SkippedFrom(s, it, p)
<1> DEFINE T == s.wildcardVarPlaceholders
           v == it.varIdx
           len == Len(T)
           stop == {n \in v .. len - 1 : isRelevantType(it.kind, T[n + 1])}
           skipped == {n \in v .. len - 1 : \A m \in stop : n < m}
<1>1. /\ v \in Nat /\ len \in Nat /\ v <= len /\ it.boundsIdx = 2 * v
      /\ T \in Seq(Placeholders) /\ it.kind \in IteratorKinds
  BY DEF IteratorTypes
<1>2. Skipped(s, it) = skipped
  BY DEF Skipped
<1>3. \A k \in 1 .. len : isRelevantType(it.kind, T[k]) <=> T[k] \in KindsOf(it.kind)
  BY <1>1, Relevant
<1> HIDE DEF T, v, len
<1>4. PICK p \in v .. len :
        /\ skipped = v .. p - 1
        /\ \A n \in v .. p - 1 : n \notin stop
        /\ p < len => p \in stop
  <2>1. CASE stop = {}
    <3> HIDE DEF stop
    <3>1. skipped = v .. len - 1
      BY <2>1
    <3>2. len \in v .. len
      BY <1>1
    <3>3. QED  BY <2>1, <3>1, <3>2
  <2>2. CASE stop # {}
    <3>1. PICK p \in stop : \A m \in stop : p <= m
      <4>1. stop \in SUBSET Nat
        BY <1>1
      <4> HIDE DEF stop
      <4>2. QED  BY <2>2, <4>1, Least
    <3>2. p \in v .. len - 1 /\ p \in v .. len
      BY <1>1, <3>1
    <3>3. skipped = v .. p - 1
      <4>1. p \in Nat /\ v <= p /\ p <= len - 1
        BY <1>1, <3>2
      <4>2. \A n \in v .. len - 1 : (\A m \in stop : n < m) <=> n < p
        <5>1. stop \in SUBSET Nat
          BY <1>1
        <5> HIDE DEF stop
        <5>2. QED  BY <1>1, <3>1, <4>1, <5>1
      <4> HIDE DEF stop
      <4>3. QED  BY <1>1, <4>1, <4>2
    <3>4. \A n \in v .. p - 1 : n \notin stop
      BY <1>1, <3>1, <3>2
    <3> HIDE DEF stop, skipped
    <3>5. QED  BY <3>1, <3>2, <3>3, <3>4
  <2>3. QED  BY <2>1, <2>2
<1>5. p \in Nat /\ v <= p /\ p <= len
  BY <1>1, <1>4
<1>6. Cardinality(Skipped(s, it)) = p - v
  <2>1. Cardinality(v .. p - 1) = IF v > p - 1 THEN 0 ELSE p - 1 - v + 1
    BY <1>1, <1>5, FS_Interval
  <2>2. Cardinality(v .. p - 1) = p - v
    BY <1>1, <1>5, <2>1
  <2>3. QED  BY <1>2, <1>4, <2>2
<1>7. Skip(s, it) = [it EXCEPT !.varIdx = p, !.boundsIdx = 2 * p]
  <2>1. Skip(s, it) = [it EXCEPT !.varIdx = v + (p - v),
                                          !.boundsIdx = 2 * v + 2 * (p - v)]
    BY <1>1, <1>6 DEF Skip, v
  <2>2. v + (p - v) = p /\ 2 * v + 2 * (p - v) = 2 * p
    BY <1>1, <1>5
  <2>3. QED  BY <2>1, <2>2
<1>8. \A k \in v + 1 .. p : T[k] \notin KindsOf(it.kind)
  <2> TAKE k \in v + 1 .. p
  <2>1. k - 1 \in v .. p - 1 /\ k - 1 \in v .. len - 1 /\ k \in 1 .. len /\ k - 1 + 1 = k
    BY <1>1, <1>5
  <2>2. k - 1 \notin stop
    BY <1>4, <2>1
  <2>3. ~isRelevantType(it.kind, T[k])
    BY <2>1, <2>2
  <2>4. QED  BY <1>3, <2>1, <2>3
<1>9. p < len => T[p + 1] \in KindsOf(it.kind)
  <2>1. p < len => p + 1 \in 1 .. len /\ isRelevantType(it.kind, T[p + 1])
    BY <1>1, <1>4, <1>5
  <2>2. QED  BY <1>3, <2>1
<1>10. QED  BY <1>4, <1>5, <1>7, <1>8, <1>9 DEF SkippedFrom, T, v, len

SkippedTo(p) ==
  /\ p \in iterator.varIdx .. Len(Types)
  /\ Skip(Subquery(iterator), iterator) = [iterator EXCEPT !.varIdx = p, !.boundsIdx = 2 * p]
  /\ \A k \in iterator.varIdx + 1 .. p : Types[k] \notin KindsOf(iterator.kind)
  /\ p < Len(Types) => Types[p + 1] \in KindsOf(iterator.kind)

LEMMA SkipsToRelevant ==
  ASSUME EncodingInv, IteratorInv, iterator.of # 0, iterator.kind # "DictVars"
  PROVE  \E p \in Nat : SkippedTo(p)
<1>1. /\ iterator \in IteratorTypes /\ Types \in Seq(Placeholders)
      /\ iterator.varIdx <= Len(Types)
      /\ iterator.boundsIdx = 2 * iterator.varIdx
  BY IteratedTypes DEF IteratorInv, Types
<1>2. PICK p \in Nat : SkippedFrom(Subquery(iterator), iterator, p)
  <2>1. Types = Subquery(iterator).wildcardVarPlaceholders
    BY DEF Types
  <2>2. QED  BY <1>1, <2>1, SkipsFrom
<1>3. SkippedTo(p)
  BY <1>2 DEF SkippedFrom, SkippedTo, Types
<1>4. QED  BY <1>3

LEMMA InitIteratorInv == Init => IteratorInv
BY DEF Init, IteratorInv, IteratorTypes, NewIterator, IteratorKinds

LEMMA StartIterationInv ==
  ASSUME EncodingInv, IteratorInv, StartIteration
  PROVE  IteratorInv'
<1>1. PICK kind \in IteratorKinds, n \in DOMAIN subqueries :
        iterator' = NewIterator(kind, n)
  BY DEF StartIteration
<1>2. n \in 1 .. Len(subqueries) /\ Len(subqueries) \in Nat
  BY DEF EncodingInv, SubqueriesInv
<1>3. subqueries' = subqueries /\ pc' = "read"
  BY DEF StartIteration
<1>4. /\ iterator' \in IteratorTypes
      /\ iterator'.of = n /\ iterator'.varIdx = 0 /\ iterator'.boundsIdx = 0
  BY <1>1, <1>2 DEF NewIterator, IteratorTypes
<1>5. Len(Types') \in Nat
  <2>1. subqueries[n].wildcardVarPlaceholders \in Seq(Placeholders)
    BY <1>2, MadeSubquery
  <2>2. Types' = subqueries[n].wildcardVarPlaceholders
    BY <1>3, <1>4 DEF Types, Subquery
  <2>3. QED  BY <2>1, <2>2
<1>6. QED  BY <1>2, <1>3, <1>4, <1>5 DEF IteratorInv

LEMMA HasNextInv ==
  ASSUME EncodingInv, IteratorInv, HasNext
  PROVE  /\ IteratorInv'
         /\ iterator'.kind = iterator.kind /\ iterator'.of = iterator.of
         /\ Types' = Types /\ subqueries' = subqueries /\ query' = query
         /\ returned' = returned
         /\ iterator.kind = "DictVars" =>
              /\ iterator'.boundsIdx = iterator.boundsIdx
              /\ iterator'.hasNext = "true"
                   <=> iterator.boundsIdx < Len(Subquery(iterator).dictVarBounds)
         /\ iterator.kind # "DictVars" =>
              /\ SkippedTo(iterator'.varIdx)
              /\ iterator'.hasNext = "true" <=> iterator'.varIdx # Len(Types)
         /\ iterator'.hasNext \in {"true", "false"}
<1>1. /\ iterator \in IteratorTypes
      /\ iterator.of # 0 /\ pc = "read" /\ pc' = pc
      /\ subqueries' = subqueries /\ query' = query /\ returned' = returned
      /\ iterator.of <= Len(subqueries)
  BY DEF HasNext, IteratorInv
<1>2. CASE iterator.kind = "DictVars"
  <2>1. iterator' = [iterator EXCEPT !.hasNext =
                       IF iterator.boundsIdx < Len(Subquery(iterator).dictVarBounds)
                       THEN "true" ELSE "false"]
    BY <1>2 DEF HasNext
  <2>2. Types' = Types
    BY <1>1, <2>1 DEF Types, Subquery
  <2>3. IteratorInv'
    BY <1>1, <1>2, <2>1, <2>2 DEF IteratorInv, IteratorTypes
  <2>4. QED  BY <1>1, <1>2, <2>1, <2>2, <2>3 DEF IteratorTypes
<1>3. CASE iterator.kind # "DictVars"
  <2>1. PICK p \in Nat : SkippedTo(p)
    BY <1>1, <1>3, SkipsToRelevant
  <2> DEFINE it == [iterator EXCEPT !.varIdx = p, !.boundsIdx = 2 * p]
  <2>2. /\ Skip(Subquery(iterator), iterator) = it /\ p <= Len(Types) /\ Len(Types) \in Nat
    BY <1>1, <2>1, IteratedTypes DEF SkippedTo
  <2>3. it.of = iterator.of /\ it.kind = iterator.kind /\ it.varIdx = p
    BY <1>1 DEF IteratorTypes
  <2>4. Subquery(it) = Subquery(iterator)
    BY <2>3 DEF Subquery
  <2>5. iterator' = [it EXCEPT !.hasNext =
                       IF it.varIdx # Len(Types) THEN "true" ELSE "false"]
    BY <1>3, <2>2, <2>4 DEF HasNext, Types
  <2>6. /\ iterator' \in IteratorTypes
        /\ iterator'.kind = iterator.kind /\ iterator'.of = iterator.of
        /\ iterator'.varIdx = p /\ iterator'.boundsIdx = 2 * p
        /\ iterator'.hasNext = IF p # Len(Types) THEN "true" ELSE "false"
    <3> DEFINE h == IF p # Len(Types) THEN "true" ELSE "false"
    <3>1. iterator' = [iterator EXCEPT !.boundsIdx = 2 * p, !.varIdx = p, !.hasNext = h]
      BY <1>1, <2>3, <2>5 DEF IteratorTypes
    <3>2. h \in {"unknown", "true", "false"} /\ 2 * p \in Nat
      OBVIOUS
    <3> HIDE DEF h
    <3>3. /\ iterator' \in IteratorTypes
          /\ iterator'.kind = iterator.kind /\ iterator'.of = iterator.of
          /\ iterator'.varIdx = p /\ iterator'.boundsIdx = 2 * p
          /\ iterator'.hasNext = h
      BY <1>1, <3>1, <3>2 DEF IteratorTypes
    <3>4. QED  BY <3>3 DEF h
  <2>7. Types' = Types
    BY <1>1, <2>6 DEF Types, Subquery
  <2>8. IteratorInv'
    BY <1>1, <2>2, <2>6, <2>7 DEF IteratorInv
  <2>9. QED  BY <1>1, <1>3, <2>1, <2>6, <2>7, <2>8
<1>4. QED  BY <1>2, <1>3

LEMMA NextVarInv ==
  ASSUME EncodingInv, IteratorInv, NextVar
  PROVE  /\ IteratorInv'
         /\ iterator'.kind = iterator.kind /\ iterator'.of = iterator.of
         /\ iterator.of # 0 /\ Types' = Types
         /\ subqueries' = subqueries /\ query' = query
         /\ iterator'.boundsIdx = iterator.boundsIdx + 2
         /\ iterator'.hasNext = "unknown"
         /\ iterator.kind # "DictVars" =>
              iterator'.varIdx = iterator.varIdx + 1 /\ iterator.varIdx < Len(Types)
<1>1. /\ iterator \in IteratorTypes
      /\ iterator.of # 0 /\ pc = "read" /\ pc' = pc
      /\ subqueries' = subqueries /\ query' = query
      /\ iterator.of <= Len(subqueries)
      /\ iterator' = AfterNext(iterator)
      /\ iterator.kind # "DictVars" => iterator.varIdx < Len(Types)
  BY DEF NextVar, IteratorInv, Types
<1>2. /\ iterator' \in IteratorTypes
      /\ iterator'.kind = iterator.kind /\ iterator'.of = iterator.of
      /\ iterator'.boundsIdx = iterator.boundsIdx + 2
      /\ iterator'.varIdx = IF iterator.kind = "DictVars" THEN iterator.varIdx
                            ELSE iterator.varIdx + 1
      /\ iterator'.hasNext = "unknown"
  <2> DEFINE v == IF iterator.kind = "DictVars" THEN iterator.varIdx
                  ELSE iterator.varIdx + 1
             b == iterator.boundsIdx + 2
  <2>1. v \in Nat /\ b \in Nat
    BY <1>1 DEF IteratorTypes
  <2>2. iterator' = [iterator EXCEPT !.boundsIdx = b, !.varIdx = v,
                                     !.hasNext = "unknown"]
    BY <1>1 DEF AfterNext
  <2> HIDE DEF v, b
  <2>3. /\ iterator' \in IteratorTypes
        /\ iterator'.kind = iterator.kind /\ iterator'.of = iterator.of
        /\ iterator'.varIdx = v /\ iterator'.boundsIdx = b
        /\ iterator'.hasNext = "unknown"
    BY <1>1, <2>1, <2>2 DEF IteratorTypes
  <2>4. QED  BY <2>3 DEF v, b
<1>3. Types' = Types
  BY <1>1, <1>2 DEF Types, Subquery
<1>4. Len(Types) \in Nat
  BY <1>1, IteratedTypes
<1>5. IteratorInv'
  BY <1>1, <1>2, <1>3, <1>4 DEF IteratorInv, IteratorTypes
<1>6. QED  BY <1>1, <1>2, <1>3, <1>5

LEMMA NextIteratorInv ==
  ASSUME EncodingInv, IteratorInv, [Next]_vars
  PROVE  IteratorInv'
<1>1. CASE UNCHANGED vars
  BY <1>1 DEF vars, reading, IteratorInv, Types, Subquery
<1>2. CASE Encode \/ NextSubquery \/ Visit \/ MakeSubquery \/ EncodeFails
  <2>1. iterator' = iterator /\ pc # "read"
    BY <1>2 DEF Encode, NextSubquery, Visit, MakeSubquery, EncodeFails, reading
  <2>2. Len(subqueries') \in Nat
    BY NextEncodingInv DEF EncodingInv, SubqueriesInv
  <2>3. QED  BY <2>1, <2>2 DEF IteratorInv
<1>3. CASE Done
  <2>1. subqueries' = <<>>
    BY <1>3 DEF Done
  <2>2. QED  BY <1>3, <2>1 DEF Done, IteratorInv, IteratorTypes, NewIterator, IteratorKinds
<1>4. QED
  BY <1>1, <1>2, <1>3, StartIterationInv, HasNextInv, NextVarInv DEF Next

LEMMA TypesHold == EncodingInv /\ IteratorInv => TypeOK
<1> SUFFICES ASSUME EncodingInv, IteratorInv PROVE TypeOK
  OBVIOUS
<1>1. DOMAIN subqueries = 1 .. Len(subqueries)
  BY DEF EncodingInv, SubqueriesInv
<1>2. \A n \in 1 .. Len(subqueries) :
        /\ subqueries[n].query \in Parents
        /\ Len(subqueries[n].dictVarBounds) % 2 = 0
        /\ subqueries[n].wildcardVarPlaceholders \in Seq(Placeholders)
        /\ Len(subqueries[n].wildcardVarBounds)
             = 2 * Len(subqueries[n].wildcardVarPlaceholders)
  BY MadeSubquery DEF Parents
<1>3. QED
  BY <1>1, <1>2 DEF TypeOK, EncodingInv, VisitInv, IteratorInv, IteratorTypes

(* The vectors, the subqueries and the iterator have their types.          *)
THEOREM VectorsPaired == Spec => []TypeOK
<1>1. Init => EncodingInv /\ IteratorInv
  BY InitEncodingInv, InitIteratorInv
<1>2. EncodingInv /\ IteratorInv /\ [Next]_vars => EncodingInv' /\ IteratorInv'
  BY NextEncodingInv, NextIteratorInv
<1>3. QED  BY <1>1, <1>2, TypesHold, PTL DEF Spec

(* Each variable of a subquery reaches Java once, with its kind and bounds:*)
(* the reused vectors of encode_native hold nothing of another subquery.   *)
THEOREM SubqueriesAreTheirs == Spec => []EachVariableOnce
<1>1. EncodingInv /\ [Next]_vars => EncodingInv'
  BY NextEncodingInv
<1>2. QED  BY <1>1, InitEncodingInv, EachVariableOnceHolds, PTL DEF Spec

-----------------------------------------------------------------------------
(* What an iteration has returned: the first of the exact dictionary       *)
(* variables, or the variables of its type among the first varIdx with     *)
(* wildcards.  hasNext() has found another, or has found the end.          *)
Entry(kind, s, v) ==
  [type |-> IF kind = "DictVars" THEN "none" ELSE s[v], parent |-> "clean",
   begin |-> BeginPos(v), end |-> EndPos(v)]
Entries == [type : VarKinds \cup {"none"}, parent : {"clean"}, begin : Nat, end : Nat]

Iterated == query[iterator.of]
ExactOnes == Indices(Iterated, {"exactDictionary"})
Wildcards == Indices(Iterated, Placeholders)
Among == Found(Types, KindsOf(iterator.kind), iterator.varIdx)

DictReturned ==
  /\ iterator.boundsIdx = 2 * Len(returned)
  /\ Len(returned) <= Len(ExactOnes)
  /\ \A r \in 1 .. Len(returned) :
       returned[r] = Entry("DictVars", Iterated, ExactOnes[r])
  /\ iterator.hasNext = "true" => Len(returned) < Len(ExactOnes)
  /\ iterator.hasNext = "false" => Len(returned) = Len(ExactOnes)

WildcardsReturned ==
  /\ Len(returned) = Len(Among)
  /\ \A r \in 1 .. Len(returned) :
       returned[r] = Entry(iterator.kind, Iterated, Wildcards[Among[r]])
  /\ iterator.hasNext = "true" =>
       /\ iterator.varIdx < Len(Types)
       /\ Types[iterator.varIdx + 1] \in KindsOf(iterator.kind)
  /\ iterator.hasNext = "false" => iterator.varIdx = Len(Types)

ReturnedInv ==
  /\ returned \in Seq(Entries)
  /\ iterator.of # 0 =>
       /\ iterator.kind = "DictVars" => DictReturned
       /\ iterator.kind # "DictVars" => WildcardsReturned

(* What is iterated over.                                                  *)
LEMMA IteratedFields ==
  ASSUME EncodingInv, IteratorInv, iterator.of # 0
  PROVE  /\ Iterated \in Seq(VarKinds)
         /\ ExactOnes \in Seq(1 .. Len(Iterated)) /\ Len(ExactOnes) \in Nat
         /\ Wildcards \in Seq(1 .. Len(Iterated)) /\ Len(Wildcards) \in Nat
         /\ Types = [k \in DOMAIN Wildcards |-> Iterated[Wildcards[k]]]
         /\ Types \in Seq(Placeholders) /\ Len(Types) = Len(Wildcards)
         /\ \A k \in 1 .. Len(Types) : Types[k] = Iterated[Wildcards[k]]
         /\ Subquery(iterator).query = "clean"
         /\ Subquery(iterator).dictVarBounds = BoundsOf(ExactOnes)
         /\ Subquery(iterator).wildcardVarBounds = BoundsOf(Wildcards)
<1>1. iterator.of \in 1 .. Len(subqueries)
  BY IteratedTypes
<1>2. /\ Iterated \in Seq(VarKinds)
      /\ Types = [k \in DOMAIN Wildcards |-> Iterated[Wildcards[k]]]
      /\ Types \in Seq(Placeholders)
      /\ Subquery(iterator).query = "clean"
      /\ Subquery(iterator).dictVarBounds = BoundsOf(ExactOnes)
      /\ Subquery(iterator).wildcardVarBounds = BoundsOf(Wildcards)
  BY <1>1, MadeSubquery DEF Iterated, ExactOnes, Wildcards, Types, Subquery
<1>3. \A S : Indices(Iterated, S) \in Seq(1 .. Len(Iterated))
  <2> SUFFICES ASSUME NEW S PROVE Indices(Iterated, S) \in Seq(1 .. Len(Iterated))
    OBVIOUS
  <2>1. Len(Iterated) \in 0 .. Len(Iterated)
    BY <1>2
  <2>2. Indices(Iterated, S) \in Seq({k \in 1 .. Len(Iterated) : Iterated[k] \in S})
    BY <1>2, <2>1, FoundLast, FoundType
  <2>3. QED  BY <2>2
<1>4. ExactOnes \in Seq(1 .. Len(Iterated)) /\ Wildcards \in Seq(1 .. Len(Iterated))
  BY <1>3 DEF ExactOnes, Wildcards
<1>5. DOMAIN Wildcards = 1 .. Len(Wildcards) /\ Len(Wildcards) \in Nat
  BY <1>4
<1>6. Len(Types) = Len(Wildcards)
      /\ \A k \in 1 .. Len(Types) : Types[k] = Iterated[Wildcards[k]]
  BY <1>2, <1>5
<1>7. QED  BY <1>1, <1>2, <1>4, <1>5, <1>6

LEMMA InitReturnedInv == Init => ReturnedInv
BY DEF Init, ReturnedInv, NewIterator

LEMMA StartIterationReturned ==
  ASSUME EncodingInv, IteratorInv, StartIteration
  PROVE  ReturnedInv'
<1>1. returned' = <<>> /\ iterator'.varIdx = 0 /\ iterator'.boundsIdx = 0
      /\ iterator'.hasNext = "unknown" /\ iterator'.of # 0
  <2>1. PICK kind \in IteratorKinds, n \in DOMAIN subqueries :
          iterator' = NewIterator(kind, n)
    BY DEF StartIteration
  <2>2. n # 0
    BY DEF EncodingInv, SubqueriesInv
  <2>3. QED  BY <2>1, <2>2 DEF NewIterator, StartIteration
<1>2. EncodingInv' /\ IteratorInv'
  <2>1. Next
    BY DEF Next
  <2>2. QED  BY <2>1, NextEncodingInv, StartIterationInv
<1>3. /\ Types' \in Seq(Placeholders) /\ Len(ExactOnes') \in Nat
  <2>1. (EncodingInv /\ IteratorInv /\ iterator.of # 0
           => Types \in Seq(Placeholders) /\ Len(ExactOnes) \in Nat)'
    BY IteratedFields, PTL
  <2>2. QED  BY <1>1, <1>2, <2>1
<1>4. Among' = <<>>
  BY <1>1, <1>3, FoundFirst DEF Among
<1>5. DictReturned' /\ WildcardsReturned'
  BY <1>1, <1>3, <1>4 DEF DictReturned, WildcardsReturned
<1>6. QED  BY <1>1, <1>5 DEF ReturnedInv

LEMMA HasNextReturned ==
  ASSUME EncodingInv, IteratorInv, ReturnedInv, HasNext
  PROVE  ReturnedInv'
<1>1. /\ iterator'.kind = iterator.kind /\ iterator'.of = iterator.of
      /\ Types' = Types /\ query' = query /\ returned' = returned
      /\ iterator.of # 0 /\ iterator'.hasNext \in {"true", "false"}
  BY HasNextInv DEF HasNext
<1>2. Iterated' = Iterated /\ ExactOnes' = ExactOnes /\ Wildcards' = Wildcards
  BY <1>1 DEF Iterated, ExactOnes, Wildcards
<1>3. /\ Types \in Seq(Placeholders) /\ Len(Types) \in Nat
      /\ ExactOnes \in Seq(Nat) /\ Len(ExactOnes) \in Nat
      /\ Subquery(iterator).dictVarBounds = BoundsOf(ExactOnes)
      /\ Len(returned) \in Nat
  <2>1. ExactOnes \in Seq(1 .. Len(Iterated))
    BY <1>1, IteratedFields
  <2>2. QED  BY <1>1, <2>1, IteratedFields DEF ReturnedInv
<1>4. CASE iterator.kind = "DictVars"
  <2>1. DictReturned
    BY <1>1, <1>4 DEF ReturnedInv
  <2>2. Len(BoundsOf(ExactOnes)) = 2 * Len(ExactOnes)
    BY <1>3, BoundsAt
  <2>3. /\ iterator'.boundsIdx = iterator.boundsIdx
        /\ iterator'.hasNext = "true" <=> iterator.boundsIdx < 2 * Len(ExactOnes)
    BY <1>3, <1>4, <2>2, HasNextInv
  <2>4. DictReturned'
    <3>1. /\ iterator.boundsIdx = 2 * Len(returned) /\ Len(returned) <= Len(ExactOnes)
          /\ \A r \in 1 .. Len(returned) :
               returned[r] = Entry("DictVars", Iterated, ExactOnes[r])
      BY <2>1 DEF DictReturned
    <3>2. /\ iterator'.hasNext = "true" => Len(returned) < Len(ExactOnes)
          /\ iterator'.hasNext = "false" => Len(returned) = Len(ExactOnes)
      <4> DEFINE r == Len(returned)
                 e == Len(ExactOnes)
      <4>1. r \in Nat /\ e \in Nat
        BY <1>3
      <4>2. (iterator'.hasNext = "true") <=> 2 * r < 2 * e
        BY <2>3, <3>1
      <4>3. r <= e
        BY <3>1
      <4> HIDE DEF r, e
      <4>4. QED  BY <1>1, <4>1, <4>2, <4>3 DEF r, e
    <3>3. iterator'.boundsIdx = 2 * Len(returned)
      BY <2>3, <3>1
    <3>4. QED  BY <1>1, <1>2, <3>1, <3>2, <3>3 DEF DictReturned
  <2>5. QED  BY <1>1, <1>4, <2>4 DEF ReturnedInv
<1>5. CASE iterator.kind # "DictVars"
  <2>1. WildcardsReturned
    BY <1>1, <1>5 DEF ReturnedInv
  <2> DEFINE p == iterator'.varIdx
             v == iterator.varIdx
  <2>2. /\ SkippedTo(p)
        /\ iterator'.hasNext = "true" <=> p # Len(Types)
    BY <1>5, HasNextInv
  <2>3. v \in Nat /\ p \in v .. Len(Types) /\ v \in 0 .. Len(Types)
    BY <1>1, <1>3, <2>2 DEF SkippedTo, IteratorInv, IteratorTypes
  <2>4. \A k \in v + 1 .. p : Types[k] \notin KindsOf(iterator.kind)
    BY <2>2 DEF SkippedTo
  <2> HIDE DEF p, v
  <2>5. Found(Types, KindsOf(iterator.kind), p) = Found(Types, KindsOf(iterator.kind), v)
    BY <1>3, <2>3, <2>4, FoundNothing
  <2>6. Among' = Among
    BY <1>1, <2>5 DEF Among, p, v
  <2>7. p < Len(Types) => Types[p + 1] \in KindsOf(iterator.kind)
    BY <2>2 DEF SkippedTo
  <2>8. /\ iterator'.hasNext = "true" =>
             p < Len(Types) /\ Types[p + 1] \in KindsOf(iterator.kind)
        /\ iterator'.hasNext = "false" => p = Len(Types)
    BY <1>3, <2>2, <2>3, <2>7
  <2>9. WildcardsReturned'
    BY <1>1, <1>2, <2>1, <2>6, <2>8 DEF WildcardsReturned, p
  <2>10. QED  BY <1>1, <1>5, <2>9 DEF ReturnedInv
<1>6. QED  BY <1>4, <1>5

(* next() returns the variable at its index, with its own bounds.          *)
LEMMA NextVarReturned ==
  ASSUME ForEachOnly, EncodingInv, IteratorInv, ReturnedInv, NextVar
  PROVE  ReturnedInv'
<1>1. /\ iterator'.kind = iterator.kind /\ iterator'.of = iterator.of
      /\ Types' = Types /\ query' = query /\ iterator.of # 0
      /\ iterator'.boundsIdx = iterator.boundsIdx + 2
      /\ iterator'.hasNext = "unknown" /\ iterator.hasNext = "true"
  BY NextVarInv DEF NextVar
<1>2. Iterated' = Iterated /\ ExactOnes' = ExactOnes /\ Wildcards' = Wildcards
  BY <1>1 DEF Iterated, ExactOnes, Wildcards
<1>3. /\ Iterated \in Seq(VarKinds)
      /\ Types \in Seq(Placeholders) /\ Len(Types) \in Nat
      /\ Len(Types) = Len(Wildcards)
      /\ \A k \in 1 .. Len(Types) : Types[k] = Iterated[Wildcards[k]]
      /\ ExactOnes \in Seq(1 .. Len(Iterated)) /\ Len(ExactOnes) \in Nat
      /\ Wildcards \in Seq(1 .. Len(Iterated))
      /\ Subquery(iterator).query = "clean"
      /\ Subquery(iterator).dictVarBounds = BoundsOf(ExactOnes)
      /\ Subquery(iterator).wildcardVarBounds = BoundsOf(Wildcards)
      /\ Len(returned) \in Nat /\ returned \in Seq(Entries)
  BY <1>1, IteratedFields DEF ReturnedInv
<1> DEFINE m == Len(returned) + 1
           s == Iterated
           kind == iterator.kind
<1>4. ASSUME NEW v \in 1 .. Len(s), returned' = Append(returned, Entry(kind, s, v))
      PROVE  /\ returned' \in Seq(Entries) /\ Len(returned') = m
             /\ returned'[m] = Entry(kind, s, v)
             /\ \A r \in 1 .. m - 1 : returned'[r] = returned[r]
             /\ \A r \in 1 .. m : r = m \/ r \in 1 .. m - 1
  <2> DEFINE e == Entry(kind, s, v)
  <2>1. s[v] \in VarKinds /\ v \in Nat
    BY <1>3
  <2>2. e \in Entries
    BY <2>1, Positions DEF Entry, Entries
  <2> HIDE DEF e, s, kind
  <2>3. returned' = Append(returned, e)
    BY <1>4 DEF e
  <2>4. /\ returned' \in Seq(Entries) /\ Len(returned') = m
        /\ returned'[m] = e
        /\ \A r \in 1 .. m - 1 : returned'[r] = returned[r]
    BY <1>3, <2>2, <2>3, AppendProperties
  <2>5. \A r \in 1 .. m : r = m \/ r \in 1 .. m - 1
    BY <1>3
  <2>6. QED  BY <2>4, <2>5 DEF e
<1>5. CASE kind = "DictVars"
  <2>1. DictReturned
    BY <1>1, <1>5 DEF ReturnedInv
  <2>2. /\ iterator.boundsIdx = 2 * Len(returned) /\ Len(returned) < Len(ExactOnes)
        /\ \A r \in 1 .. Len(returned) :
             returned[r] = Entry("DictVars", Iterated, ExactOnes[r])
    BY <1>1, <2>1 DEF DictReturned
  <2> DEFINE v == ExactOnes[m]
  <2>3. m \in 1 .. Len(ExactOnes) /\ v \in 1 .. Len(s)
    BY <1>3, <2>2
  <2>4. /\ BoundsOf(ExactOnes)[2 * m - 1] = BeginPos(v)
        /\ BoundsOf(ExactOnes)[2 * m] = EndPos(v)
    <3>1. ExactOnes \in Seq(Nat)
      BY <1>3
    <3>2. QED  BY <2>3, <3>1, BoundsAt
  <2>5. iterator.boundsIdx + 1 = 2 * m - 1 /\ iterator.boundsIdx + 2 = 2 * m
    BY <1>3, <2>2
  <2>6. returned' = Append(returned, [type |-> "none", parent |-> "clean",
                                      begin |-> BeginPos(v), end |-> EndPos(v)])
    BY <1>3, <1>5, <2>4, <2>5 DEF NextVar
  <2>7. returned' = Append(returned, Entry(kind, s, v))
    BY <1>5, <2>6 DEF Entry
  <2>8. /\ returned' \in Seq(Entries) /\ Len(returned') = m
        /\ returned'[m] = Entry(kind, s, v)
        /\ \A r \in 1 .. m - 1 : returned'[r] = returned[r]
        /\ \A r \in 1 .. m : r = m \/ r \in 1 .. m - 1
    BY <1>4, <2>3, <2>7
  <2>9. \A r \in 1 .. m : returned'[r] = Entry("DictVars", s, ExactOnes[r])
    <3>1. m - 1 = Len(returned)
      BY <1>3
    <3>2. QED  BY <1>5, <2>2, <2>8, <3>1
  <2>10. iterator'.boundsIdx = 2 * m
    BY <1>1, <2>5
  <2> HIDE DEF m, s, v
  <2>11. DictReturned'
    BY <1>1, <1>2, <1>3, <2>3, <2>8, <2>9, <2>10 DEF DictReturned, s
  <2>12. QED  BY <1>1, <1>5, <2>8, <2>11 DEF ReturnedInv
<1>6. CASE kind # "DictVars"
  <2>1. WildcardsReturned
    BY <1>1, <1>6 DEF ReturnedInv
  <2> DEFINE x == iterator.varIdx + 1
             v == Wildcards[x]
  <2>2. /\ Len(returned) = Len(Among)
        /\ \A r \in 1 .. Len(returned) :
             returned[r] = Entry(kind, s, Wildcards[Among[r]])
        /\ x - 1 < Len(Types) /\ Types[x] \in KindsOf(kind)
    <3>1. iterator.varIdx \in Nat
      BY DEF IteratorInv, IteratorTypes
    <3>2. QED  BY <1>1, <2>1, <3>1 DEF WildcardsReturned
  <2>3. /\ x \in Nat /\ x \in 1 .. Len(Types) /\ x - 1 \in 0 .. Len(Types)
        /\ iterator.boundsIdx = 2 * (x - 1)
    <3>1. iterator.varIdx \in Nat /\ iterator.boundsIdx = 2 * iterator.varIdx
      BY <1>1, <1>6 DEF IteratorInv, IteratorTypes
    <3>2. Len(Types) \in Nat /\ iterator.varIdx < Len(Types) /\ x - 1 = iterator.varIdx
      BY <1>3, <2>2, <3>1
    <3>3. QED  BY <3>1, <3>2
  <2>4. v \in 1 .. Len(s) /\ Types[x] = s[v]
    <3>1. x \in 1 .. Len(Wildcards) /\ Wildcards \in Seq(1 .. Len(s))
      BY <1>3, <2>3
    <3> HIDE DEF x
    <3>2. QED  BY <1>3, <2>3, <3>1
  <2>5. /\ BoundsOf(Wildcards)[2 * x - 1] = BeginPos(v)
        /\ BoundsOf(Wildcards)[2 * x] = EndPos(v)
    <3>1. Wildcards \in Seq(Nat) /\ x \in 1 .. Len(Wildcards)
      BY <1>3, <2>3
    <3> HIDE DEF x
    <3>2. QED  BY <3>1, BoundsAt
  <2>6. iterator.boundsIdx + 1 = 2 * x - 1 /\ iterator.boundsIdx + 2 = 2 * x
    BY <2>3
  <2>7. returned' = Append(returned, [type |-> Types[x], parent |-> "clean",
                                      begin |-> BoundsOf(Wildcards)[2 * x - 1],
                                      end |-> BoundsOf(Wildcards)[2 * x]])
    BY <1>3, <1>6, <2>6 DEF NextVar, Types
  <2>8. returned' = Append(returned, Entry(kind, s, v))
    BY <1>6, <2>4, <2>5, <2>7 DEF Entry
  <2>9. /\ returned' \in Seq(Entries) /\ Len(returned') = m
        /\ returned'[m] = Entry(kind, s, v)
        /\ \A r \in 1 .. m - 1 : returned'[r] = returned[r]
        /\ \A r \in 1 .. m : r = m \/ r \in 1 .. m - 1
    BY <1>4, <2>4, <2>8
  <2> DEFINE g == Found(Types, KindsOf(kind), x - 1)
  <2>10. g = Among
    <3>1. x - 1 = iterator.varIdx
      BY DEF IteratorInv, IteratorTypes
    <3> HIDE DEF x
    <3>2. QED  BY <3>1 DEF Among
  <2>11. Among' = Append(g, x)
    <3>1. \A k \in 1 .. Len(Types) :
            Found(Types, KindsOf(kind), k)
              = IF Types[k] \in KindsOf(kind)
                THEN Append(Found(Types, KindsOf(kind), k - 1), k)
                ELSE Found(Types, KindsOf(kind), k - 1)
      BY <1>3, FoundNext
    <3>2. iterator'.varIdx = x
      BY <1>6, NextVarInv
    <3>3. Among' = Found(Types, KindsOf(kind), x)
      BY <1>1, <3>2 DEF Among
    <3> HIDE DEF x
    <3>4. QED  BY <2>2, <2>3, <3>1, <3>3
  <2>12. g \in Seq(Nat)
    <3>1. Types \in Seq(Placeholders)
      BY <1>3
    <3>2. \A k \in 0 .. Len(Types) :
            Found(Types, KindsOf(kind), k)
              \in Seq({y \in 1 .. Len(Types) : Types[y] \in KindsOf(kind)})
      BY <3>1, FoundType
    <3>3. g \in Seq({y \in 1 .. Len(Types) : Types[y] \in KindsOf(kind)})
      BY <2>3, <3>2
    <3>4. QED  BY <3>3
  <2> HIDE DEF g, x
  <2>13. /\ Len(Among') = m /\ Among'[m] = x
         /\ \A r \in 1 .. m - 1 : Among'[r] = Among[r]
    BY <1>3, <2>2, <2>3, <2>10, <2>11, <2>12, AppendProperties
  <2>14. \A r \in 1 .. m : returned'[r] = Entry(kind, s, Wildcards[Among'[r]])
    <3>1. m - 1 = Len(returned)
      BY <1>3
    <3> HIDE DEF m
    <3>2. QED  BY <2>2, <2>9, <2>13, <3>1
  <2> HIDE DEF m, s, v
  <2>15. WildcardsReturned'
    BY <1>1, <1>2, <2>9, <2>13, <2>14 DEF WildcardsReturned, s
  <2>16. QED  BY <1>1, <1>6, <2>9, <2>15 DEF ReturnedInv
<1>7. QED  BY <1>5, <1>6

LEMMA NextReturnedInv ==
  ASSUME ForEachOnly, EncodingInv, IteratorInv, ReturnedInv, [Next]_vars
  PROVE  ReturnedInv'
<1>1. CASE UNCHANGED vars
  BY <1>1 DEF vars, reading, ReturnedInv, DictReturned, WildcardsReturned, Types,
              Subquery, Iterated, ExactOnes, Wildcards, Among
<1>2. CASE Encode \/ NextSubquery \/ Visit \/ MakeSubquery \/ EncodeFails
  <2>1. iterator.of = 0 /\ iterator' = iterator /\ returned' = returned
    BY <1>2 DEF Encode, NextSubquery, Visit, MakeSubquery, EncodeFails, reading,
                IteratorInv
  <2>2. QED  BY <2>1 DEF ReturnedInv
<1>3. CASE Done
  BY <1>3 DEF Done, ReturnedInv, NewIterator
<1>4. QED
  BY <1>1, <1>2, <1>3, StartIterationReturned, HasNextReturned, NextVarReturned
     DEF Next

(* What has been returned is the beginning of what is documented.          *)
LEMMA ReturnedDocumented ==
  ASSUME EncodingInv, IteratorInv, ReturnedInv, iterator.of # 0
  PROVE  /\ Documented(iterator) \in Seq(Entries)
         /\ returned \in Seq(Entries)
         /\ Len(returned) <= Len(Documented(iterator))
         /\ \A r \in 1 .. Len(returned) : returned[r] = Documented(iterator)[r]
         /\ iterator.hasNext = "false" => Len(returned) = Len(Documented(iterator))
         /\ iterator.hasNext = "true" => Len(returned) < Len(Documented(iterator))
<1> DEFINE s == Iterated
           kind == iterator.kind
           indices == Indices(s, KindsOf(kind))
           doc == [k \in DOMAIN indices |-> Entry(kind, s, indices[k])]
<1>1. Documented(iterator) = doc
  BY DEF Documented, VarsOf, Iterated, Entry
<1>2. /\ s \in Seq(VarKinds) /\ kind \in IteratorKinds
      /\ returned \in Seq(Entries) /\ Len(returned) \in Nat
  BY IteratedFields DEF IteratorInv, IteratorTypes, ReturnedInv
<1> HIDE DEF s, kind
<1>3. indices \in Seq(1 .. Len(s))
  <2>1. Len(s) \in 0 .. Len(s)
    BY <1>2
  <2>2. indices \in Seq({k \in 1 .. Len(s) : s[k] \in KindsOf(kind)})
    BY <1>2, <2>1, FoundLast, FoundType
  <2> HIDE DEF indices
  <2>3. QED  BY <2>2
<1> HIDE DEF indices
<1>4. /\ doc \in Seq(Entries) /\ Len(doc) = Len(indices)
      /\ \A k \in 1 .. Len(indices) : doc[k] = Entry(kind, s, indices[k])
  <2>1. \A v \in 1 .. Len(s) : Entry(kind, s, v) \in Entries
    <3> TAKE v \in 1 .. Len(s)
    <3>1. s[v] \in VarKinds /\ v \in Nat
      BY <1>2
    <3>2. BeginPos(v) \in Nat /\ EndPos(v) \in Nat
      BY <3>1, Positions
    <3>3. QED  BY <3>1, <3>2 DEF Entry, Entries
  <2>2. DOMAIN indices = 1 .. Len(indices) /\ Len(indices) \in Nat
    BY <1>3
  <2>3. \A k \in 1 .. Len(indices) : Entry(kind, s, indices[k]) \in Entries
    BY <1>3, <2>1
  <2>4. QED  BY <2>2, <2>3
<1> HIDE DEF doc
<1>5. CASE kind = "DictVars"
  <2>1. indices = ExactOnes
    BY <1>5 DEF indices, s, kind, ExactOnes, KindsOf
  <2>2. DictReturned
    BY <1>5 DEF ReturnedInv, kind
  <2>3. /\ Len(returned) <= Len(indices)
        /\ \A r \in 1 .. Len(returned) : returned[r] = Entry(kind, s, indices[r])
        /\ iterator.hasNext = "false" => Len(returned) = Len(indices)
        /\ iterator.hasNext = "true" => Len(returned) < Len(indices)
    BY <1>5, <2>1, <2>2 DEF DictReturned, s
  <2>4. \A r \in 1 .. Len(returned) : r \in 1 .. Len(indices)
    BY <1>2, <1>3, <2>3
  <2>5. QED  BY <1>1, <1>2, <1>4, <2>3, <2>4
<1>6. CASE kind # "DictVars"
  <2> DEFINE K == KindsOf(kind)
             among == Indices(Types, K)
  <2>1. WildcardsReturned
    BY <1>6 DEF ReturnedInv, kind
  <2>2. /\ Types = [k \in DOMAIN Wildcards |-> s[Wildcards[k]]]
        /\ Types \in Seq(Placeholders) /\ Len(Types) \in Nat
    BY IteratedFields DEF s
  <2>3. K \in SUBSET Placeholders
    BY <1>2, <1>6 DEF KindsOf, IteratorKinds, Placeholders
  <2>4. indices = [r \in DOMAIN among |-> Wildcards[among[r]]]
    <3>1. \A t \in Seq(VarKinds) : \A L \in SUBSET Placeholders :
            Indices(t, L)
              = Picked(Indices(t, Placeholders),
                       Indices(Picked(t, Indices(t, Placeholders)), L))
      BY FoundThrough
    <3>2. Wildcards = Indices(s, Placeholders) /\ Types = Picked(s, Wildcards)
      BY <2>2 DEF Wildcards, Picked, s
    <3> HIDE DEF K
    <3>3. indices = Picked(Wildcards, Indices(Types, K))
      BY <1>2, <2>3, <3>1, <3>2 DEF indices, K
    <3>4. QED  BY <3>3 DEF Picked
  <2> DEFINE v == iterator.varIdx
             len == Len(Types)
  <2>5. v \in Nat /\ v \in 0 .. len /\ len \in v .. len /\ len \in 0 .. len
    BY <1>6, <2>2 DEF IteratorInv, IteratorTypes, kind
  <2>6. Among = Found(Types, K, v) /\ among = Found(Types, K, len)
    BY <2>2, FoundLast DEF Among, kind
  <2> HIDE DEF K, among, v, len
  <2>7. /\ Len(Among) <= Len(among)
        /\ \A k \in 1 .. Len(Among) : among[k] = Among[k]
    <3>1. \A n \in 0 .. Len(Types) : \A m \in n .. Len(Types) :
            /\ Len(Found(Types, K, n)) <= Len(Found(Types, K, m))
            /\ \A k \in 1 .. Len(Found(Types, K, n)) :
                 Found(Types, K, m)[k] = Found(Types, K, n)[k]
      <4>1. Types \in Seq(Placeholders)
        BY <2>2
      <4> TAKE n \in 0 .. Len(Types)
      <4> TAKE m \in n .. Len(Types)
      <4>2. QED  BY <4>1, FoundKeeps
    <3>2. Len(Types) = len
      BY DEF len
    <3>3. QED  BY <2>5, <2>6, <3>1, <3>2
  <2>8. among \in Seq(1 .. len) /\ Len(among) \in Nat /\ Among \in Seq(1 .. len)
    <3> DEFINE I == {k \in 1 .. Len(Types) : Types[k] \in K}
    <3>1. \A n \in 0 .. Len(Types) : Found(Types, K, n) \in Seq(I)
      BY <2>2, FoundType
    <3>2. Len(Types) = len /\ I \in SUBSET (1 .. len)
      BY DEF len
    <3> HIDE DEF I
    <3>3. Found(Types, K, v) \in Seq(I) /\ Found(Types, K, len) \in Seq(I)
      BY <2>5, <3>1, <3>2
    <3>4. Among \in Seq(I) /\ among \in Seq(I)
      BY <2>6, <3>3
    <3>5. Among \in Seq(1 .. len) /\ among \in Seq(1 .. len)
      BY <3>2, <3>4, SeqMonotonic
    <3>6. QED  BY <3>5
  <2>9. Len(indices) = Len(among)
        /\ \A r \in 1 .. Len(among) : indices[r] = Wildcards[among[r]]
    <3>1. DOMAIN among = 1 .. Len(among)
      BY <2>8
    <3>2. QED  BY <1>3, <2>4, <2>8, <3>1
  <2>10. /\ Len(returned) = Len(Among)
         /\ \A r \in 1 .. Len(returned) :
              returned[r] = Entry(kind, s, Wildcards[Among[r]])
    BY <2>1 DEF WildcardsReturned, s, kind
  <2>11. Len(returned) <= Len(indices)
         /\ \A r \in 1 .. Len(returned) : returned[r] = Entry(kind, s, indices[r])
    <3>1. \A r \in 1 .. Len(returned) : r \in 1 .. Len(among) /\ r \in 1 .. Len(Among)
      BY <1>2, <2>7, <2>8, <2>10
    <3>2. QED  BY <2>7, <2>9, <2>10, <3>1
  <2>12. iterator.hasNext = "false" => Len(returned) = Len(indices)
    <3>1. iterator.hasNext = "false" => Among = among
      BY <2>1, <2>6 DEF WildcardsReturned, v, len
    <3>2. QED  BY <2>9, <2>10, <3>1
  <2>13. iterator.hasNext = "true" => Len(returned) < Len(indices)
    <3> SUFFICES ASSUME iterator.hasNext = "true"
                 PROVE  Len(returned) < Len(indices)
      OBVIOUS
    <3> DEFINE x == v + 1
    <3>1. v < len /\ Types[x] \in K
      BY <2>1 DEF WildcardsReturned, v, len, K, kind
    <3>2. x \in 1 .. len /\ x - 1 = v /\ len \in x .. len /\ x \in 0 .. len
      BY <2>2, <2>5, <3>1 DEF len
    <3> HIDE DEF x
    <3>3. Found(Types, K, x) = Append(Found(Types, K, x - 1), x)
      BY <2>2, <3>1, <3>2, FoundNext DEF len
    <3>4. Len(Found(Types, K, x)) = Len(Among) + 1
      BY <2>6, <2>8, <3>2, <3>3
    <3>5. Len(Found(Types, K, x)) <= Len(among)
      BY <2>2, <2>6, <3>2, FoundKeeps DEF len
    <3>6. QED  BY <2>8, <2>9, <2>10, <3>4, <3>5
  <2>14. \A r \in 1 .. Len(returned) : r \in 1 .. Len(indices)
    BY <1>2, <1>3, <2>11
  <2>15. QED  BY <1>1, <1>2, <1>4, <2>11, <2>12, <2>13, <2>14
<1>7. QED  BY <1>5, <1>6

LEMMA IterationCompleteHolds ==
  EncodingInv /\ IteratorInv /\ ReturnedInv => IterationComplete
<1> SUFFICES ASSUME EncodingInv, IteratorInv, ReturnedInv, iterator.of # 0
             PROVE  /\ IsPrefix(returned, Documented(iterator))
                    /\ iterator.hasNext = "false" => returned = Documented(iterator)
                    /\ iterator.hasNext = "true" => returned # Documented(iterator)
  BY DEF IterationComplete
<1> DEFINE doc == Documented(iterator)
           n == Len(returned)
<1>1. /\ doc \in Seq(Entries) /\ returned \in Seq(Entries)
      /\ n <= Len(doc) /\ n \in Nat /\ Len(doc) \in Nat
      /\ \A r \in 1 .. n : returned[r] = doc[r]
      /\ iterator.hasNext = "false" => n = Len(doc)
      /\ iterator.hasNext = "true" => n < Len(doc)
  BY ReturnedDocumented
<1> HIDE DEF doc
<1>2. SubSeq(returned, 1, n) = returned
  BY <1>1, SubSeqFull
<1>3. SubSeq(doc, 1, n) = returned
  <2> DEFINE cut == SubSeq(doc, 1, n)
  <2>1. /\ cut \in Seq(Entries) /\ Len(cut) = n
        /\ \A r \in 1 .. n : cut[r] = doc[r]
    <3>1. \A r \in 1 .. n : doc[r] \in Entries
      BY <1>1
    <3>2. /\ cut \in Seq(Entries) /\ Len(cut) = IF 1 <= n THEN n - 1 + 1 ELSE 0
          /\ \A r \in 1 .. n - 1 + 1 : cut[r] = doc[1 + r - 1]
      BY <1>1, <3>1, SubSeqProperties
    <3> HIDE DEF cut, n
    <3>3. QED  BY <1>1, <3>2
  <2> HIDE DEF cut
  <2>2. cut = returned
    BY <1>1, <2>1, SeqEqual
  <2>3. QED  BY <2>2 DEF cut
<1>4. IsPrefix(returned, doc)
  BY <1>1, <1>2, <1>3 DEF IsPrefix
<1>5. n = Len(doc) => returned = doc
  BY <1>1, SeqEqual
<1>6. QED  BY <1>1, <1>4, <1>5 DEF doc

(* An iteration whose next() always follows a hasNext() that was true      *)
(* returns the variables of its type, with their bounds, and all of them.  *)
THEOREM IterationsAreComplete ==
  ASSUME ForEachOnly
  PROVE  Spec => []IterationComplete
<1>1. Init => EncodingInv /\ IteratorInv /\ ReturnedInv
  BY InitEncodingInv, InitIteratorInv, InitReturnedInv
<1>2. EncodingInv /\ IteratorInv /\ ReturnedInv /\ [Next]_vars
        => EncodingInv' /\ IteratorInv' /\ ReturnedInv'
  BY NextEncodingInv, NextIteratorInv, NextReturnedInv
<1>3. QED  BY <1>1, <1>2, IterationCompleteHolds, PTL DEF Spec
-----------------------------------------------------------------------------
(* Matching.                                                               *)

(* The first of the pieces are the pieces of the first segments.           *)
LEMMA PiecesOfFirst ==
  ASSUME NEW T, NEW segments \in Seq(T), NEW k \in 1 .. Len(segments)
  PROVE  Serialized(SubSeq(segments, 1, k))
           = FlattenSeq(SubSeq([m \in DOMAIN segments |-> toByteArray(segments[m])], 1, k))
<1> DEFINE first == SubSeq(segments, 1, k)
           pieces == [m \in DOMAIN segments |-> toByteArray(segments[m])]
           left == [m \in DOMAIN first |-> toByteArray(first[m])]
           right == SubSeq(pieces, 1, k)
           P == {toByteArray(x) : x \in T}
<1>1. /\ first \in Seq(T) /\ Len(first) = k
      /\ \A m \in 1 .. k : first[m] = segments[m]
  BY SubSeqProperties
<1>2. /\ pieces \in Seq(P) /\ Len(pieces) = Len(segments)
      /\ \A m \in 1 .. Len(segments) : pieces[m] = toByteArray(segments[m])
  OBVIOUS
<1>3. /\ left \in Seq(P) /\ Len(left) = k
      /\ \A m \in 1 .. k : left[m] = toByteArray(segments[m])
  BY <1>1
<1> HIDE DEF pieces, P, left, first
<1>4. /\ right \in Seq(P) /\ Len(right) = k
      /\ \A m \in 1 .. k : right[m] = pieces[m]
  BY <1>2, SubSeqProperties
<1>5. \A m \in 1 .. k : right[m] = left[m]
  BY <1>2, <1>3, <1>4
<1> HIDE DEF right
<1>6. left = right
  BY <1>3, <1>4, <1>5, SeqEqual
<1>7. QED  BY <1>6 DEF Serialized, left, right, first, pieces
(* The variables that are searched for, and their bytes.                   *)
EncodedWildcards == VarsOf(iterator.of, {"Integer", "Float"})
Text(v) == [n \in 1 .. EndPos(v) - BeginPos(v) |-> <<"clean", BeginPos(v) + n - 1>>]
Texts == [k \in DOMAIN EncodedWildcards |-> Text(EncodedWildcards[k])]

Complete ==
  /\ iterator.of # 0
  /\ iterator.kind = "EncodedVarWildcardQueries" /\ iterator.hasNext = "false"

(* The recursion of the loop that counts, and what it comes to: from varIdx*)
(* on, the variables that are found after it.                              *)
IsCount(s, f) ==
  f = [v \in 0 .. Len(s.wildcardVarPlaceholders) |->
         IF Skip(s, CountingFrom(v)).varIdx = Len(s.wildcardVarPlaceholders)
         THEN 0 ELSE 1 + f[Skip(s, CountingFrom(v)).varIdx + 1]]

LEMMA CountSteps ==
  ASSUME NEW s, s.wildcardVarPlaceholders \in Seq(Placeholders),
         NEW v \in 0 .. Len(s.wildcardVarPlaceholders)
  PROVE  LET T == s.wildcardVarPlaceholders
             K == {"Integer", "Float"}
             p == Skip(s, CountingFrom(v)).varIdx
         IN  /\ p \in v .. Len(T)
             /\ Found(T, K, p) = Found(T, K, v)
             /\ p # Len(T) => /\ p + 1 \in 0 .. Len(T)
                              /\ Len(Found(T, K, p + 1)) = Len(Found(T, K, p)) + 1
<1> DEFINE T == s.wildcardVarPlaceholders
           K == {"Integer", "Float"}
           it == CountingFrom(v)
           p == Skip(s, it).varIdx
<1>1. T \in Seq(Placeholders) /\ Len(T) \in Nat
  <2>1. T \in Seq(Placeholders)
    OBVIOUS
  <2> HIDE DEF T
  <2>2. QED  BY <2>1
<1>2. /\ it = [kind |-> "EncodedVarWildcardQueries", of |-> 0, varIdx |-> v,
               boundsIdx |-> 2 * v, hasNext |-> "unknown"]
      /\ v \in Nat /\ v <= Len(T) /\ 2 * v \in Nat
  <2>1. v \in Nat /\ v <= Len(T) /\ 2 * v \in Nat
    BY <1>1
  <2> DEFINE w == 2 * v
  <2>2. it = [kind |-> "EncodedVarWildcardQueries", of |-> 0, varIdx |-> v,
              boundsIdx |-> w, hasNext |-> "unknown"]
    <3> HIDE DEF w
    <3>1. it = [NewIterator("EncodedVarWildcardQueries", 0)
                  EXCEPT !.varIdx = v, !.boundsIdx = w]
      BY DEF CountingFrom, w
    <3> HIDE DEF it
    <3>2. QED  BY <3>1 DEF NewIterator
  <2> HIDE DEF T, it
  <2>3. QED  BY <2>1, <2>2
<1> HIDE DEF T, it
<1>3. /\ it \in IteratorTypes /\ it.kind = "EncodedVarWildcardQueries"
      /\ it.varIdx = v /\ it.boundsIdx = 2 * v
  <2>1. "EncodedVarWildcardQueries" \in IteratorKinds
    BY DEF IteratorKinds
  <2>2. it \in IteratorTypes
    BY <1>2, <2>1 DEF IteratorTypes
  <2>3. QED  BY <1>2, <2>2
<1>4. T = s.wildcardVarPlaceholders
  BY DEF T
<1>5. PICK q \in Nat : SkippedFrom(s, it, q)
  BY <1>1, <1>2, <1>3, <1>4, SkipsFrom
<1>6. p = q
  <2>1. Skip(s, it) = [it EXCEPT !.varIdx = q, !.boundsIdx = 2 * q]
    BY <1>5 DEF SkippedFrom
  <2>2. QED  BY <1>2, <2>1
<1>7. KindsOf(it.kind) = K
  BY <1>3 DEF KindsOf
<1>8. /\ q \in v .. Len(T) /\ \A k \in v + 1 .. q : T[k] \notin K
      /\ q < Len(T) => T[q + 1] \in K
  BY <1>3, <1>4, <1>5, <1>7 DEF SkippedFrom
<1> HIDE DEF K, p
<1>9. v \in 0 .. Len(T) /\ Found(T, K, q) = Found(T, K, v)
  <2>1. v \in 0 .. Len(T)
    BY <1>1, <1>2
  <2>2. QED  BY <1>1, <1>8, <2>1, FoundNothing
<1>10. ASSUME q # Len(T)
       PROVE  q + 1 \in 0 .. Len(T) /\ Len(Found(T, K, q + 1)) = Len(Found(T, K, q)) + 1
  <2>1. q + 1 \in 1 .. Len(T) /\ q \in 0 .. Len(T) /\ q + 1 - 1 = q /\ T[q + 1] \in K
    BY <1>1, <1>2, <1>8, <1>10
  <2>2. Found(T, K, q + 1) = Append(Found(T, K, q), q + 1)
    BY <1>1, <2>1, FoundNext
  <2>3. Found(T, K, q) \in Seq(Nat)
    <3> DEFINE I == {k \in 1 .. Len(T) : T[k] \in K}
    <3>1. Found(T, K, q) \in Seq(I)
      BY <1>1, <2>1, FoundType
    <3>2. I \subseteq Nat
      OBVIOUS
    <3> HIDE DEF I
    <3>3. QED  BY <3>1, <3>2, SeqMonotonic
  <2>4. Len(Found(T, K, q + 1)) = Len(Found(T, K, q)) + 1
    BY <2>2, <2>3, AppendProperties
  <2>5. QED  BY <2>1, <2>4
<1>11. QED  BY <1>6, <1>8, <1>9, <1>10 DEF T, K, it, p

LEMMA Counted ==
  ASSUME NEW s, s.wildcardVarPlaceholders \in Seq(Placeholders)
  PROVE  LET T == s.wildcardVarPlaceholders
         IN  getNumEncodedVarWildcardQueries(s) = Len(Found(T, {"Integer", "Float"}, Len(T)))
<1> DEFINE T == s.wildcardVarPlaceholders
           K == {"Integer", "Float"}
           l == Len(T)
           found(v) == Len(Found(T, K, v))
           p(v) == Skip(s, CountingFrom(v)).varIdx
           g == [v \in 0 .. l |-> found(l) - found(v)]
           f == CHOOSE h : IsCount(s, h)
<1>1. T \in Seq(Placeholders) /\ l \in Nat
  <2>1. T \in Seq(Placeholders)
    OBVIOUS
  <2> HIDE DEF T
  <2>2. QED  BY <2>1
<1>2. \A v \in 0 .. l : found(v) \in Nat
  BY <1>1, FoundType
<1>3. \A v \in 0 .. l :
        /\ p(v) \in v .. l /\ found(p(v)) = found(v)
        /\ p(v) # l => p(v) + 1 \in 0 .. l /\ found(p(v) + 1) = found(p(v)) + 1
  BY CountSteps
<1>4. \A h : IsCount(s, h) <=>
        h = [v \in 0 .. l |-> IF p(v) = l THEN 0 ELSE 1 + h[p(v) + 1]]
  BY DEF IsCount
<1>5. getNumEncodedVarWildcardQueries(s) = f[0]
  BY DEF getNumEncodedVarWildcardQueries, IsCount
<1>6. found(0) = 0
  <2>1. Found(T, K, 0) = <<>>
    BY <1>1, FoundFirst
  <2>2. QED  BY <2>1
<1> HIDE DEF found, p, l, T, K
<1>7. IsCount(s, g)
  <2>1. \A v \in 0 .. l : g[v] = IF p(v) = l THEN 0 ELSE 1 + g[p(v) + 1]
    <3> TAKE v \in 0 .. l
    <3>1. g[v] = found(l) - found(v) /\ found(l) \in Nat /\ found(v) \in Nat
      BY <1>1, <1>2
    <3>2. CASE p(v) = l
      BY <1>3, <3>1, <3>2
    <3>3. CASE p(v) # l
      <4>1. p(v) + 1 \in 0 .. l /\ found(p(v) + 1) = found(v) + 1
        BY <1>3, <3>3
      <4>2. g[p(v) + 1] = found(l) - found(p(v) + 1)
        BY <4>1
      <4> HIDE DEF g
      <4>3. g[v] = 1 + g[p(v) + 1]
        BY <3>1, <4>1, <4>2
      <4>4. QED  BY <3>3, <4>3
    <3>4. QED  BY <3>2, <3>3
  <2>2. g = [v \in 0 .. l |-> g[v]]
    OBVIOUS
  <2> HIDE DEF g
  <2>3. QED  BY <1>4, <2>1, <2>2
<1>8. IsCount(s, f)
  BY <1>7
<1>9. f = [v \in 0 .. l |-> IF p(v) = l THEN 0 ELSE 1 + f[p(v) + 1]]
  BY <1>4, <1>8
<1> HIDE DEF f
<1> DEFINE Bad == {d \in 0 .. l : f[l - d] # g[l - d]}
<1>10. Bad = {}
  <2> SUFFICES ASSUME Bad # {} PROVE FALSE
    OBVIOUS
  <2>1. PICK d \in Bad : \A e \in Bad : d <= e
    <3>1. Bad \in SUBSET Nat
      OBVIOUS
    <3> HIDE DEF Bad
    <3>2. QED  BY <3>1, Least
  <2> DEFINE v == l - d
             next == p(v) + 1
  <2>2. v \in 0 .. l /\ d \in 0 .. l /\ f[v] # g[v]
    BY <1>1, <2>1
  <2>3. /\ g[v] = IF p(v) = l THEN 0 ELSE 1 + g[next]
        /\ f[v] = IF p(v) = l THEN 0 ELSE 1 + f[next]
    <3>1. g = [u \in 0 .. l |-> IF p(u) = l THEN 0 ELSE 1 + g[p(u) + 1]]
      BY <1>4, <1>7
    <3> HIDE DEF g, v
    <3>2. QED  BY <1>9, <2>2, <3>1
  <2>4. p(v) # l
    BY <2>2, <2>3
  <2>5. p(v) \in v .. l /\ next \in 0 .. l
    BY <1>3, <2>2, <2>4
  <2>6. l - next \in 0 .. l /\ l - next < d /\ l - (l - next) = next
    BY <1>1, <2>2, <2>5
  <2> DEFINE e == l - next
  <2>7. e \notin Bad
    <3>1. e \in Nat /\ d \in Nat /\ e < d
      BY <1>1, <2>2, <2>6
    <3> HIDE DEF Bad, e
    <3>2. QED  BY <2>1, <3>1
  <2>8. f[next] = g[next]
    BY <2>6, <2>7
  <2>9. QED  BY <2>2, <2>3, <2>4, <2>8
<1>11. f[0] = g[0]
  <2>1. l \in 0 .. l /\ l - l = 0
    BY <1>1
  <2> HIDE DEF g
  <2>2. f[l - l] = g[l - l]
    BY <1>10, <2>1
  <2>3. QED  BY <2>1, <2>2
<1>12. f[0] = found(l)
  <2>1. 0 \in 0 .. l /\ found(l) \in Nat
    BY <1>1, <1>2
  <2>2. QED  BY <1>6, <1>11, <2>1
<1>13. QED  BY <1>5, <1>12 DEF found, l, T, K

LEMMA EncodedReturned ==
  ASSUME EncodingInv, IteratorInv, ReturnedInv, Complete
  PROVE  /\ EncodedWildcards \in Seq(1 .. Len(Iterated)) /\ Len(EncodedWildcards) \in Nat
         /\ returned \in Seq(Entries) /\ Len(returned) = Len(EncodedWildcards)
         /\ \A k \in 1 .. Len(EncodedWildcards) :
              returned[k] = Entry("EncodedVarWildcardQueries", Iterated, EncodedWildcards[k])
         /\ getNumEncodedVarWildcardQueries(Subquery(iterator)) = Len(EncodedWildcards)
<1> DEFINE w == EncodedWildcards
           K == {"Integer", "Float"}
<1>1. /\ iterator.of # 0 /\ iterator.kind = "EncodedVarWildcardQueries"
      /\ iterator.hasNext = "false"
  BY DEF Complete
<1>2. Iterated \in Seq(VarKinds) /\ Types \in Seq(Placeholders) /\ Len(Types) \in Nat
  BY <1>1, IteratedFields
<1>3. w = Indices(Iterated, K) /\ KindsOf("EncodedVarWildcardQueries") = K
  BY DEF EncodedWildcards, VarsOf, Iterated, KindsOf
<1>4. w \in Seq(1 .. Len(Iterated)) /\ Len(w) \in Nat
  <2> DEFINE S == {k \in 1 .. Len(Iterated) : Iterated[k] \in K}
  <2>1. Len(Iterated) \in 0 .. Len(Iterated)
    BY <1>2
  <2>2. w \in Seq(S)
    BY <1>2, <1>3, <2>1, FoundLast, FoundType
  <2>3. S \subseteq 1 .. Len(Iterated)
    OBVIOUS
  <2> HIDE DEF S, w
  <2>4. w \in Seq(1 .. Len(Iterated))
    BY <2>2, <2>3, SeqMonotonic
  <2>5. QED  BY <2>4
<1> HIDE DEF w, K
<1>5. /\ Documented(iterator) \in Seq(Entries) /\ returned \in Seq(Entries)
      /\ Len(returned) = Len(Documented(iterator))
      /\ \A r \in 1 .. Len(returned) : returned[r] = Documented(iterator)[r]
  BY <1>1, ReturnedDocumented
<1>6. Documented(iterator)
        = [k \in DOMAIN w |-> Entry("EncodedVarWildcardQueries", Iterated, w[k])]
  BY <1>1, <1>3 DEF Documented, VarsOf, Iterated, Entry
<1>7. DOMAIN w = 1 .. Len(w)
  BY <1>4
<1>8. /\ Len(returned) = Len(w)
      /\ \A k \in 1 .. Len(w) :
           returned[k] = Entry("EncodedVarWildcardQueries", Iterated, w[k])
  BY <1>4, <1>5, <1>6, <1>7
<1>9. Len(returned) = Len(Found(Types, K, Len(Types)))
  <2>1. WildcardsReturned /\ iterator.varIdx = Len(Types)
    BY <1>1 DEF ReturnedInv, WildcardsReturned
  <2>2. QED  BY <1>1, <1>3, <2>1 DEF WildcardsReturned, Among
<1>10. getNumEncodedVarWildcardQueries(Subquery(iterator)) = Len(returned)
  <2>1. Types = Subquery(iterator).wildcardVarPlaceholders
    BY DEF Types
  <2>2. QED  BY <1>2, <1>9, <2>1, Counted DEF K
<1>11. QED  BY <1>4, <1>5, <1>8, <1>10 DEF w

(* The query is one of those the core may make, or there is none.          *)
QueryInv == query \in Queries \cup {<<>>}

LEMMA NextQueryInv == QueryInv /\ [Next]_vars => QueryInv'
BY DEF QueryInv, Next, vars, Encode, NextSubquery, Visit, MakeSubquery, EncodeFails,
       StartIteration, HasNext, NextVar, Done

(* Every variable of a subquery has its bytes.                             *)
LEMMA TextBytes ==
  ASSUME QueryInv, NEW n \in DOMAIN query, NEW v \in 1 .. Len(query[n])
  PROVE  /\ Text(v) \in Seq(Bytes)
         /\ Len(Text(v)) = EndPos(v) - BeginPos(v)
<1>1. query \in Queries
  BY DEF QueryInv
<1> DEFINE l == Len(query[n])
<1>2. Parents \X (0 .. EndPos(l)) \subseteq Bytes /\ l \in Nat
  <2>1. query \in Seq(Seq(VarKinds))
    BY <1>1, SubqueriesAssumption
  <2>2. query[n] \in Seq(VarKinds)
    BY <2>1
  <2>3. Parents \X (0 .. EndPos(Len(query[n]))) \subseteq Bytes
    BY <1>1, SearchAssumption
  <2>4. QED  BY <2>2, <2>3
<1> HIDE DEF l
<1>3. /\ v \in Nat /\ BeginPos(v) \in Nat /\ EndPos(v) \in Nat
      /\ EndPos(v) - BeginPos(v) \in Nat /\ EndPos(v) <= EndPos(l)
  BY <1>2 DEF BeginPos, EndPos, l
<1> DEFINE len == EndPos(v) - BeginPos(v)
<1>4. \A m \in 1 .. len : <<"clean", BeginPos(v) + m - 1>> \in Bytes
  <2> TAKE m \in 1 .. len
  <2>1. EndPos(l) \in Nat
    BY <1>2 DEF EndPos
  <2>2. BeginPos(v) + m - 1 \in 0 .. EndPos(l)
    BY <1>3, <2>1
  <2>3. QED  BY <1>2, <2>2 DEF Parents
<1>5. len \in Nat
  BY <1>3
<1> HIDE DEF len
<1>6. QED  BY <1>4, <1>5 DEF Text, len
LEMMA TextsType ==
  ASSUME EncodingInv, IteratorInv, ReturnedInv, QueryInv, Complete
  PROVE  /\ Texts \in Seq(Seq(Bytes)) /\ Len(Texts) = Len(EncodedWildcards)
         /\ \A k \in 1 .. Len(Texts) : Texts[k] = Text(EncodedWildcards[k])
         /\ Texts = [k \in DOMAIN returned |-> toByteArray(returned[k])]
<1> DEFINE w == EncodedWildcards
<1>1. /\ w \in Seq(1 .. Len(Iterated)) /\ Len(w) \in Nat
      /\ returned \in Seq(Entries) /\ Len(returned) = Len(w)
      /\ \A k \in 1 .. Len(w) :
           returned[k] = Entry("EncodedVarWildcardQueries", Iterated, w[k])
  BY EncodedReturned
<1> HIDE DEF w
<1>2. DOMAIN w = 1 .. Len(w) /\ DOMAIN returned = 1 .. Len(w)
      /\ \A k \in 1 .. Len(w) : w[k] \in 1 .. Len(Iterated)
  BY <1>1
<1>3. iterator.of \in DOMAIN query /\ Iterated = query[iterator.of]
  <2>1. iterator.of \in 1 .. Len(subqueries)
    BY IteratedTypes DEF Complete
  <2>2. Len(subqueries) <= Len(query) /\ Len(subqueries) \in Nat /\ query \in Seq(Seq(VarKinds))
    BY DEF EncodingInv, SubqueriesInv, VisitInv
  <2>3. QED  BY <2>1, <2>2 DEF Iterated
<1>4. \A k \in 1 .. Len(w) : Text(w[k]) \in Seq(Bytes)
  <2>1. \A v \in 1 .. Len(query[iterator.of]) : Text(v) \in Seq(Bytes)
    BY <1>3, TextBytes
  <2>2. QED  BY <1>2, <1>3, <2>1
<1>5. Texts = [k \in 1 .. Len(w) |-> Text(w[k])]
  BY <1>2 DEF Texts, w
<1>6. \A k \in 1 .. Len(w) : toByteArray(returned[k]) = Text(w[k])
  <2> TAKE k \in 1 .. Len(w)
  <2>1. returned[k] = Entry("EncodedVarWildcardQueries", Iterated, w[k])
    BY <1>1
  <2>2. /\ returned[k].parent = "clean" /\ returned[k].begin = BeginPos(w[k])
        /\ returned[k].end = EndPos(w[k])
    BY <2>1 DEF Entry
  <2>3. QED  BY <2>2 DEF toByteArray, Text
<1>7. Texts = [k \in DOMAIN returned |-> toByteArray(returned[k])]
  BY <1>2, <1>5, <1>6
<1>8. Texts \in Seq(Seq(Bytes)) /\ Len(Texts) = Len(w)
      /\ \A k \in 1 .. Len(w) : Texts[k] = Text(w[k])
  BY <1>1, <1>4, <1>5
<1>9. QED  BY <1>7, <1>8 DEF w

(* What a caller passes after a complete iteration is what the method wants.*)
LEMMA ArgumentsComplete ==
  ASSUME EncodingInv, IteratorInv, ReturnedInv, QueryInv, Complete,
         NEW rows \in Rows, NEW a, a = ArgumentsFor(rows, Subquery(iterator))
  PROVE  /\ a \in Arguments
         /\ \A f \in Parameters : a[f] # Null
         /\ Len(a.logtypes) = Len(a.matchResults)
         /\ Len(a.encodedVarArrays) = Len(a.matchResults)
         /\ a.wildcardVarPlaceholders
              = [k \in DOMAIN EncodedWildcards |-> Iterated[EncodedWildcards[k]]]
         /\ a.serializedVarWildcardQueries = FlattenSeq(Texts)
         /\ Len(a.varWildcardQueryEndIndexes) = Len(Texts)
         /\ \A k \in 1 .. Len(Texts) : a.varWildcardQueryEndIndexes[k] = EndOf(Texts, k)
<1> DEFINE w == EncodedWildcards
           slots == 1 .. Len(w)
           types == [k \in DOMAIN w |-> Iterated[w[k]]]
           ends == [k \in slots |-> EndOf(Texts, k)]
           logtypes == [r \in DOMAIN rows |-> "logtype"]
           results == [r \in DOMAIN rows |-> 0]
<1>1. /\ w \in Seq(1 .. Len(Iterated)) /\ Len(w) \in Nat
      /\ returned \in Seq(Entries) /\ Len(returned) = Len(w)
      /\ \A k \in 1 .. Len(w) :
           returned[k] = Entry("EncodedVarWildcardQueries", Iterated, w[k])
      /\ getNumEncodedVarWildcardQueries(Subquery(iterator)) = Len(w)
  BY EncodedReturned
<1>2. /\ Texts \in Seq(Seq(Bytes)) /\ Len(Texts) = Len(w)
      /\ Texts = [k \in DOMAIN returned |-> toByteArray(returned[k])]
  BY TextsType
<1> HIDE DEF w
<1>3. DOMAIN w = slots /\ DOMAIN returned = slots
  BY <1>1
<1>4. Serialized(returned) = FlattenSeq(Texts) /\ FlattenSeq(Texts) \in Seq(Bytes)
  BY <1>2, FlattenType DEF Serialized
<1>5. \A k \in slots : returned[k].type = Iterated[w[k]]
  <2> TAKE k \in slots
  <2>1. returned[k] = Entry("EncodedVarWildcardQueries", Iterated, w[k])
    BY <1>1
  <2>2. QED  BY <2>1 DEF Entry
<1>6. \A k \in slots : Len(Serialized(SubSeq(returned, 1, k))) = EndOf(Texts, k)
  <2> TAKE k \in slots
  <2>1. Serialized(SubSeq(returned, 1, k)) = FlattenSeq(SubSeq(Texts, 1, k))
    BY <1>1, <1>2, PiecesOfFirst
  <2>2. QED  BY <2>1 DEF EndOf
<1>7. a = [logtypes |-> logtypes, encodedVarArrays |-> rows,
           wildcardVarPlaceholders |-> types,
           serializedVarWildcardQueries |-> FlattenSeq(Texts),
           varWildcardQueryEndIndexes |-> ends,
           matchResults |-> results]
  <2>1. [k \in slots |-> IF k \in DOMAIN returned THEN returned[k].type ELSE ""] = types
    BY <1>3, <1>5
  <2>2. [k \in slots |-> IF k \in DOMAIN returned
                         THEN Len(Serialized(SubSeq(returned, 1, k))) ELSE 0] = ends
    BY <1>3, <1>6
  <2> HIDE DEF types, ends
  <2>3. QED  BY <1>1, <1>4, <2>1, <2>2 DEF ArgumentsFor
<1>8. types \in Seq(TypeBytes)
  <2>1. \A k \in slots : Iterated[w[k]] \in TypeBytes
    <3> TAKE k \in slots
    <3>1. Iterated[w[k]] \in {"Integer", "Float"}
      <4> DEFINE S == {m \in 1 .. Len(Iterated) : Iterated[m] \in {"Integer", "Float"}}
      <4>1. Iterated \in Seq(VarKinds) /\ Len(Iterated) \in 0 .. Len(Iterated)
        BY IteratedFields DEF Complete
      <4>2. w = Indices(Iterated, {"Integer", "Float"})
        BY DEF w, EncodedWildcards, VarsOf, Iterated
      <4>3. w \in Seq(S)
        BY <4>1, <4>2, FoundLast, FoundType
      <4> HIDE DEF S
      <4>4. w[k] \in S
        BY <4>3
      <4>5. QED  BY <4>4 DEF S
    <3>2. QED  BY <3>1, SearchAssumption DEF Placeholders
  <2>2. QED  BY <1>1, <1>3, <2>1
<1>9. ends \in Seq(Int) /\ Len(ends) = Len(w) /\ \A k \in slots : ends[k] = EndOf(Texts, k)
  <2>1. \A k \in slots : EndOf(Texts, k) \in Int
    <3> TAKE k \in slots
    <3>1. EndOf(Texts, k - 1) \in Nat /\ EndOf(Texts, k) = EndOf(Texts, k - 1) + Len(Texts[k])
          /\ Texts[k] \in Seq(Bytes)
      BY <1>2, FlattenPrefix
    <3>2. QED  BY <3>1
  <2>2. QED  BY <1>1, <2>1
<1>10. /\ rows \in Seq({"variables", Null}) /\ logtypes \in Seq({"logtype", Null})
       /\ results \in Seq(Int) /\ Len(logtypes) = Len(rows) /\ Len(results) = Len(rows)
  <2>1. rows \in Seq({"variables", Null})
    BY SearchAssumption
  <2>2. DOMAIN rows = 1 .. Len(rows) /\ Len(rows) \in Nat
    BY <2>1
  <2>3. QED  BY <2>1, <2>2
<1> HIDE DEF types, ends, logtypes, results
<1> DEFINE flat == FlattenSeq(Texts)
<1>11. flat \in Seq(Bytes)
  BY <1>4
<1> HIDE DEF flat
<1>12. /\ a.logtypes = logtypes /\ a.encodedVarArrays = rows
       /\ a.wildcardVarPlaceholders = types /\ a.serializedVarWildcardQueries = flat
       /\ a.varWildcardQueryEndIndexes = ends /\ a.matchResults = results
  BY <1>7 DEF flat
<1>13. a \in Arguments
  <2>1. a = [logtypes |-> logtypes, encodedVarArrays |-> rows,
             wildcardVarPlaceholders |-> types,
             serializedVarWildcardQueries |-> flat,
             varWildcardQueryEndIndexes |-> ends, matchResults |-> results]
    BY <1>7 DEF flat
  <2>2. /\ logtypes \in Array({"logtype", Null}) /\ rows \in Array({"variables", Null})
        /\ types \in Array(TypeBytes) /\ flat \in Array(Bytes)
        /\ ends \in Array(Int) /\ results \in Array(Int)
    BY <1>8, <1>9, <1>10, <1>11 DEF Array
  <2>3. QED  BY <2>1, <2>2 DEF Arguments
<1>14. \A f \in Parameters : a[f] # Null
  <2>1. /\ logtypes # Null /\ rows # Null /\ types # Null /\ flat # Null
        /\ ends # Null /\ results # Null
    BY <1>8, <1>9, <1>10, <1>11, BatchAssumption
  <2>2. QED  BY <1>12, <2>1 DEF Parameters
<1>15. QED
  BY <1>2, <1>9, <1>10, <1>12, <1>13, <1>14 DEF types, w, flat
(* While a batch is matched against a subquery, its iteration stays        *)
(* complete and the arguments are the ones made from it.                   *)
SearchedInv ==
  /\ iterator.of = 0 => iterator.kind = "DictVars"
  /\ batchPc = "idle" => searched = 0
  /\ searched # 0 =>
       /\ pc = "read"
       /\ Complete /\ iterator.of = searched
       /\ \E rows \in Rows : args = ArgumentsFor(rows, Subquery(iterator))

SearchInv ==
  EncodingInv /\ QueryInv /\ IteratorInv /\ ReturnedInv /\ IInv /\ SearchedInv

LEMMA InitSearchInv == SearchInit => SearchInv
<1>1. SearchInit => Init /\ BatchInit
  BY DEF SearchInit
<1>2. SearchInit => QueryInv /\ SearchedInv
  BY DEF SearchInit, Init, QueryInv, SearchedInv, NewIterator
<1>3. QED
  BY <1>1, <1>2, InitEncodingInv, InitIteratorInv, InitReturnedInv, InitIInv
     DEF SearchInv

LEMMA SearchSubqueryInv ==
  ASSUME SearchInv, SearchSubquery
  PROVE  IInv' /\ SearchedInv'
<1>1. /\ EncodingInv /\ QueryInv /\ IteratorInv /\ ReturnedInv /\ IInv
      /\ iterator.of = 0 => iterator.kind = "DictVars"
  BY DEF SearchInv, SearchedInv
<1>2. /\ pc = "read" /\ searched' = iterator.of /\ UNCHANGED vars
      /\ iterator.kind = "EncodedVarWildcardQueries" /\ iterator.hasNext = "false"
  BY DEF SearchSubquery
<1>3. Complete
  BY <1>1, <1>2 DEF Complete
<1>4. PICK rows \in Rows : CallBatch(ArgumentsFor(rows, Subquery(iterator)))
  BY DEF SearchSubquery
<1> DEFINE a == ArgumentsFor(rows, Subquery(iterator))
<1>5. a \in Arguments
  BY <1>1, <1>3, ArgumentsComplete
<1>6. IInv'
  BY <1>1, <1>4, <1>5, CallBatchIInv
<1>7. /\ pc' = pc /\ iterator' = iterator /\ returned' = returned
      /\ subqueries' = subqueries
  BY <1>2 DEF vars, reading
<1>8. args' = a' /\ batchPc' = "arrays"
  BY <1>4, <1>7 DEF CallBatch, ArgumentsFor, Subquery
<1>9. SearchedInv'
  BY <1>1, <1>2, <1>3, <1>7, <1>8 DEF SearchedInv, Complete
<1>10. QED  BY <1>6, <1>9

(* Only a complete iteration's subquery is searched for.                   *)
LEMMA IterationKept ==
  ASSUME EncodingInv, IteratorInv, Next,
         iterator.of = 0 => iterator.kind = "DictVars"
  PROVE  (iterator.of = 0 => iterator.kind = "DictVars")'
<1>1. CASE StartIteration
  <2>1. PICK kind \in IteratorKinds, n \in DOMAIN subqueries :
          iterator' = NewIterator(kind, n)
    BY <1>1 DEF StartIteration
  <2>2. n \in 1 .. Len(subqueries)
    BY DEF EncodingInv, SubqueriesInv
  <2>3. iterator'.of = n
    BY <2>1 DEF NewIterator
  <2>4. n # 0
    BY <2>2
  <2>5. QED  BY <2>3, <2>4
<1>2. CASE Done
  BY <1>2 DEF Done, NewIterator
<1>3. CASE HasNext \/ NextVar
  BY <1>3, HasNextInv, NextVarInv
<1>4. CASE Encode \/ NextSubquery \/ Visit \/ MakeSubquery \/ EncodeFails
  BY <1>4 DEF Encode, NextSubquery, Visit, MakeSubquery, EncodeFails, reading
<1>5. QED  BY <1>1, <1>2, <1>3, <1>4 DEF Next

(* A batch's steps keep its arguments, to the end.                         *)
LEMMA MatchKeeps ==
  ASSUME BatchStep
  PROVE  batchPc # "idle" /\ (batchPc' # "idle" => args' = args)
BY DEF BatchStep, ValidateArrays, ValidateEndIndex, DeserializeQuery, MatchRow,
       BatchFails, ReturnResults, BatchDone, Begin, End

LEMMA MatchInv ==
  ASSUME SearchInv, Match
  PROVE  IInv' /\ SearchedInv'
<1>1. BatchStep /\ UNCHANGED vars /\ IInv /\ SearchedInv
      /\ searched' = IF batchPc' = "idle" THEN 0 ELSE searched
  BY DEF Match, SearchInv
<1>2. IInv'
  BY <1>1, StepIInv DEF BatchNext
<1>3. /\ pc' = pc /\ iterator' = iterator /\ returned' = returned
      /\ subqueries' = subqueries
  BY <1>1 DEF vars, reading
<1>4. \A rows : ArgumentsFor(rows, Subquery(iterator))'
                  = ArgumentsFor(rows, Subquery(iterator))
  BY <1>3 DEF ArgumentsFor, Subquery
<1>5. SearchedInv'
  BY <1>1, <1>3, <1>4, MatchKeeps DEF SearchedInv, Complete
<1>6. QED  BY <1>2, <1>5

LEMMA NextSearchInv ==
  ASSUME ForEachOnly, SearchInv, [SearchNext]_searchVars
  PROVE  SearchInv'
<1>1. [Next]_vars
  BY DEF SearchNext, searchVars, SearchSubquery, MatchAnything, Match,
         EncodeAndIterate
<1>2. EncodingInv' /\ QueryInv' /\ IteratorInv' /\ ReturnedInv'
  BY <1>1, NextEncodingInv, NextQueryInv, NextIteratorInv, NextReturnedInv
     DEF SearchInv
<1>3. IInv' /\ SearchedInv'
  <2>1. CASE SearchSubquery
    BY <2>1, SearchSubqueryInv
  <2>2. CASE MatchAnything
    <3>1. PICK a \in Batches : CallBatch(a)
      BY <2>2 DEF MatchAnything
    <3>2. /\ IInv /\ SearchedInv /\ batchPc = "idle" /\ batchPc' = "arrays"
          /\ iterator' = iterator /\ searched' = searched
      BY <2>2, <3>1 DEF MatchAnything, CallBatch, SearchInv, vars, reading
    <3>3. IInv'
      BY <3>1, <3>2, CallBatchIInv, BatchAssumption
    <3>4. SearchedInv'
      BY <3>2 DEF SearchedInv
    <3>5. QED  BY <3>3, <3>4
  <2>3. CASE Match
    BY <2>3, MatchInv
  <2>4. CASE EncodeAndIterate
    <3>1. /\ IInv /\ SearchedInv /\ batchPc = "idle" /\ Next /\ UNCHANGED batchVars
          /\ searched' = searched
      BY <2>4 DEF EncodeAndIterate, SearchInv
    <3>2. IInv'
      BY <3>1, StepIInv
    <3>3. searched' = 0
      BY <3>1 DEF SearchedInv
    <3>4. (iterator.of = 0 => iterator.kind = "DictVars")'
      BY <3>1, IterationKept DEF SearchInv, SearchedInv
    <3>5. SearchedInv'
      BY <3>3, <3>4 DEF SearchedInv
    <3>6. QED  BY <3>2, <3>5
  <2>5. CASE UNCHANGED searchVars
    <3>1. UNCHANGED vars /\ UNCHANGED batchVars /\ searched' = searched
          /\ IInv /\ SearchedInv
      BY <2>5 DEF searchVars, SearchInv
    <3>2. IInv'
      BY <3>1, StepIInv
    <3>3. SearchedInv'
      BY <3>1 DEF SearchedInv, Complete, vars, reading, batchVars, ArgumentsFor, Subquery
    <3>4. QED  BY <3>2, <3>3
  <2>6. QED  BY <2>1, <2>2, <2>3, <2>4, <2>5 DEF SearchNext
<1>4. QED  BY <1>2, <1>3 DEF SearchInv
LEMMA MatchesHolds == SearchInv => MatchesSubquery
<1> SUFFICES ASSUME SearchInv, searched # 0 PROVE MatchesSubquery
  BY DEF MatchesSubquery
<1> DEFINE w == EncodedWildcards
           flat == args.serializedVarWildcardQueries
           cutOut(q) == SubSeq(flat, q.begin + 1, q.end)
<1>1. /\ EncodingInv /\ QueryInv /\ IteratorInv /\ ReturnedInv /\ Complete
      /\ iterator.of = searched /\ IInv
  BY DEF SearchInv, SearchedInv
<1>2. /\ \A f \in Parameters : args[f] # Null
      /\ Len(args.logtypes) = Len(args.matchResults)
      /\ Len(args.encodedVarArrays) = Len(args.matchResults)
      /\ args.wildcardVarPlaceholders = [k \in DOMAIN w |-> Iterated[w[k]]]
      /\ flat = FlattenSeq(Texts)
      /\ Len(EndIndexes) = Len(Texts)
      /\ \A k \in 1 .. Len(Texts) : EndIndexes[k] = EndOf(Texts, k)
  <2>1. PICK rows \in Rows : args = ArgumentsFor(rows, Subquery(iterator))
    BY DEF SearchInv, SearchedInv
  <2>2. QED  BY <1>1, <2>1, ArgumentsComplete DEF EndIndexes
<1>3. /\ Texts \in Seq(Seq(Bytes)) /\ Len(Texts) = Len(w)
      /\ \A k \in 1 .. Len(Texts) : Texts[k] = Text(w[k])
  BY <1>1, TextsType
<1>4. w \in Seq(1 .. Len(Iterated)) /\ Len(w) \in Nat
  BY <1>1, EncodedReturned
<1>5. w = VarsOf(searched, {"Integer", "Float"}) /\ Iterated = query[searched]
  BY <1>1 DEF EncodedWildcards, Iterated
<1> HIDE DEF w, flat
<1>6. DOMAIN w = 1 .. Len(w) /\ Len(Texts) \in Nat
  BY <1>3, <1>4
<1>7. \A q \in 1 .. Len(Texts) :
        /\ Previous(q) = EndOf(Texts, q - 1) /\ EndIndexes[q] = EndOf(Texts, q)
        /\ Previous(q) \in Nat /\ EndIndexes[q] = Previous(q) + Len(Texts[q])
        /\ Len(Texts[q]) \in Nat /\ EndIndexes[q] <= Len(flat)
        /\ SubSeq(flat, Previous(q) + 1, EndIndexes[q]) = Texts[q]
  <2> TAKE q \in 1 .. Len(Texts)
  <2>1. Previous(q) = EndOf(Texts, q - 1)
    <3>1. CASE q = 1
      <4>1. EndOf(Texts, 0) = 0
        BY <1>3, EndOfFirst
      <4>2. QED  BY <3>1, <4>1 DEF Previous
    <3>2. CASE q # 1
      <4>1. q - 1 \in 1 .. Len(Texts)
        BY <1>6, <3>2
      <4>2. QED  BY <1>2, <3>2, <4>1 DEF Previous
    <3>3. QED  BY <3>1, <3>2
  <2>2. /\ EndOf(Texts, q - 1) \in Nat
        /\ EndOf(Texts, q) = EndOf(Texts, q - 1) + Len(Texts[q])
        /\ EndOf(Texts, q) <= Len(FlattenSeq(Texts))
        /\ SubSeq(FlattenSeq(Texts), EndOf(Texts, q - 1) + 1, EndOf(Texts, q)) = Texts[q]
    BY <1>3, FlattenPiece
  <2>3. Texts[q] \in Seq(Bytes) /\ Len(Texts[q]) \in Nat
    BY <1>3
  <2>4. QED  BY <1>2, <2>1, <2>2, <2>3
<1>8. batchPc = "arrays" => ValidArrays
  BY <1>2 DEF ValidArrays
<1>9. batchPc = "indexes" /\ at <= Len(EndIndexes) => ValidEndIndex(EndIndexes[at])
  <2> SUFFICES ASSUME batchPc = "indexes", at <= Len(EndIndexes)
               PROVE  ValidEndIndex(EndIndexes[at])
    OBVIOUS
  <2>1. at \in 1 .. Len(EndIndexes) + 1 /\ lastIdx = Previous(at)
    BY <1>1 DEF IInv, LoopInv
  <2>2. at \in 1 .. Len(Texts)
    BY <1>2, <1>6, <2>1
  <2>3. /\ Previous(at) \in Nat /\ EndIndexes[at] = Previous(at) + Len(Texts[at])
        /\ Len(Texts[at]) \in Nat /\ EndIndexes[at] <= Len(flat)
    BY <1>7, <2>2
  <2>4. EndIndexes[at] >= lastIdx
    BY <2>1, <2>3
  <2>5. QED  BY <2>3, <2>4 DEF ValidEndIndex, flat
<1>10. batchPc \in {"rows", "returned"} =>
         /\ args.wildcardVarPlaceholders = [k \in DOMAIN w |-> query[searched][w[k]]]
         /\ [q \in DOMAIN var_wildcard_queries |-> cutOut(var_wildcard_queries[q])]
              = [k \in DOMAIN w |-> Text(w[k])]
  <2> SUFFICES ASSUME batchPc \in {"rows", "returned"}
               PROVE  [q \in DOMAIN var_wildcard_queries |->
                         cutOut(var_wildcard_queries[q])]
                        = [k \in DOMAIN w |-> Text(w[k])]
    BY <1>2, <1>5
  <2>1. /\ var_wildcard_queries \in Seq([begin : Int, end : Int])
        /\ Len(var_wildcard_queries) = Len(Texts)
        /\ \A q \in 1 .. Len(var_wildcard_queries) :
             var_wildcard_queries[q] = [begin |-> Previous(q), end |-> EndIndexes[q]]
    BY <1>1, <1>2 DEF IInv, LoopInv, CutInv
  <2>2. DOMAIN var_wildcard_queries = 1 .. Len(w)
    BY <1>3, <2>1
  <2>3. \A q \in 1 .. Len(w) : cutOut(var_wildcard_queries[q]) = Text(w[q])
    <3> TAKE q \in 1 .. Len(w)
    <3> DEFINE cut == var_wildcard_queries[q]
    <3>1. cut = [begin |-> Previous(q), end |-> EndIndexes[q]]
      BY <1>3, <2>1
    <3> HIDE DEF cut
    <3>2. cut.begin = Previous(q) /\ cut.end = EndIndexes[q]
      BY <3>1, CutFields
    <3>3. SubSeq(flat, Previous(q) + 1, EndIndexes[q]) = Text(w[q])
      BY <1>3, <1>7
    <3>4. SubSeq(flat, cut.begin + 1, cut.end) = Text(w[q])
      BY <3>2, <3>3
    <3>5. QED  BY <3>4 DEF cut
  <2> HIDE DEF cutOut
  <2>4. QED  BY <1>6, <2>2, <2>3
<1>11. QED
  BY <1>5, <1>8, <1>9, <1>10 DEF MatchesSubquery, Text, flat

(* What the core found reaches the core: whatever subqueries it makes of a *)
(* query, and whichever of them the caller iterates over and matches, the  *)
(* native method works with exactly that subquery's encoded wildcards, and *)
(* the validation in Java never rejects them.                              *)
THEOREM SubqueriesAreMatched ==
  ASSUME ForEachOnly
  PROVE  SearchSpec => []MatchesSubquery
<1>1. SearchInv /\ [SearchNext]_searchVars => SearchInv'
  BY NextSearchInv
<1>2. QED  BY <1>1, InitSearchInv, MatchesHolds, PTL DEF SearchSpec

(* Encoding, iterating and matching keep their promises to each other when *)
(* their steps alternate, whoever else calls batchEncodedVarsWildcardMatch.*)
THEOREM SearchKeepsPromises ==
  ASSUME ForEachOnly
  PROVE  SearchSpec => [](/\ TypeOK /\ EachVariableOnce /\ IterationComplete
                          /\ QueriesTile /\ NoStaleResult)
<1>1. SearchInv /\ [SearchNext]_searchVars => SearchInv'
  BY NextSearchInv
<1>2. SearchInv => /\ TypeOK /\ EachVariableOnce /\ IterationComplete
                   /\ QueriesTile /\ NoStaleResult
  BY TypesHold, EachVariableOnceHolds, IterationCompleteHolds, TilesHold
     DEF SearchInv, IInv, ResultInv
<1>3. QED  BY <1>1, <1>2, InitSearchInv, PTL DEF SearchSpec
=============================================================================
