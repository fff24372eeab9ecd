------------------------- MODULE EncodedMessage_proofs -------------------------
(***************************************************************************)
(* Theorems about EncodedMessage and ExactQuery: for any set of messages of*)
(* any length, an object that one message after the other is encoded into  *)
(* decodes to the one it holds, or to nothing when encoding it failed, its *)
(* accessors agree, and plain ASCII text finds its message.                *)
(***************************************************************************)
EXTENDS ExactQuery, SequenceLemmas

-----------------------------------------------------------------------------
(* Characters and their bytes.                                             *)

Utf8Pieces(chars) == [k \in DOMAIN chars |-> IF chars[k] \in Ascii THEN <<chars[k]>>
                                             ELSE <<chars[k], Continuation>>]

LEMMA Characters ==
  /\ MaxChar \in Nat /\ MaxChar >= 4
  /\ Ascii \subseteq Chars /\ Chars \subseteq Bytes /\ Bytes \subseteq Nat
  /\ Continuation \in Bytes /\ Continuation \notin Placeholders
  /\ Placeholders \subseteq Ascii
<1>1. MaxChar \in Nat /\ 4 \in Chars
  BY EncodedMessageAssumption DEF Ascii
<1>2. MaxChar >= 4
  BY <1>1 DEF Chars
<1>3. QED
  BY <1>1, <1>2 DEF Ascii, Chars, Bytes, Continuation, Placeholders,
                    DictionaryPlaceholder, EncodedPlaceholder

(* The bytes of characters are the characters' and continuations.          *)
LEMMA Utf8Within ==
  ASSUME NEW C \in SUBSET Chars, NEW chars \in Seq(C)
  PROVE  Utf8(chars) \in Seq(C \cup {Continuation})
<1> DEFINE B == C \cup {Continuation}
<1>1. Utf8Pieces(chars) \in Seq(Seq(B))
  <2>1. DOMAIN chars = 1 .. Len(chars) /\ Len(chars) \in Nat
    OBVIOUS
  <2>2. ASSUME NEW k \in 1 .. Len(chars)
        PROVE  (IF chars[k] \in Ascii THEN <<chars[k]>>
                ELSE <<chars[k], Continuation>>) \in Seq(B)
    <3>1. chars[k] \in B /\ Continuation \in B
      OBVIOUS
    <3> HIDE DEF B
    <3>2. <<chars[k]>> \in Seq(B) /\ <<chars[k], Continuation>> \in Seq(B)
      BY <3>1
    <3>3. QED  BY <3>2
  <2> HIDE DEF B
  <2>3. QED  BY <2>1, <2>2 DEF Utf8Pieces
<1> HIDE DEF B
<1>2. FlattenSeq(Utf8Pieces(chars)) \in Seq(B)
  BY <1>1, FlattenType
<1>3. QED  BY <1>2 DEF B, Utf8, Utf8Pieces

LEMMA Utf8Type ==
  ASSUME NEW chars \in Seq(Chars)
  PROVE  Utf8(chars) \in Seq(Bytes)
<1>1. Utf8(chars) \in Seq(Chars \cup {Continuation})
  BY Utf8Within
<1>2. Chars \cup {Continuation} \subseteq Bytes
  BY Characters
<1>3. QED  BY <1>1, <1>2, SeqMonotonic

(* ASCII text is its bytes.                                                *)
LEMMA Utf8Ascii ==
  ASSUME NEW chars \in Seq(Ascii)
  PROVE  Utf8(chars) = chars
<1>1. /\ DOMAIN chars = 1 .. Len(chars) /\ Len(chars) \in Nat
      /\ \A k \in 1 .. Len(chars) : chars[k] \in Ascii
  OBVIOUS
<1>2. Utf8Pieces(chars) = [k \in 1 .. Len(chars) |-> <<chars[k]>>]
  BY <1>1 DEF Utf8Pieces
<1>3. \A k \in 1 .. Len(chars) : <<chars[k]>> \in Seq(Ascii)
  BY <1>1
<1>4. /\ Utf8Pieces(chars) \in Seq(Seq(Ascii)) /\ Len(Utf8Pieces(chars)) = Len(chars)
      /\ \A k \in 1 .. Len(chars) : Utf8Pieces(chars)[k] = <<chars[k]>>
  BY <1>1, <1>2, <1>3
<1>5. FlattenSeq(Utf8Pieces(chars)) = chars
  BY <1>4, FlattenEach
<1>6. QED  BY <1>5 DEF Utf8, Utf8Pieces

-----------------------------------------------------------------------------
(* Tokens and variables of a message.                                      *)

LEMMA MessageTyped ==
  ASSUME NEW m \in Messages
  PROVE  /\ m \in Seq(Tokens) /\ Len(m) \in Nat /\ DOMAIN m = 1 .. Len(m)
         /\ \A k \in 1 .. Len(m) :
              /\ m[k].kind \in Kinds /\ m[k].chars \in Seq(Chars)
              /\ m[k].kind # "text" => m[k].chars \in Seq(Ascii)
<1>1. m \in Seq(Tokens)
  BY EncodedMessageAssumption
<1>2. Len(m) \in Nat /\ DOMAIN m = 1 .. Len(m)
  BY <1>1
<1>3. ASSUME NEW k \in 1 .. Len(m)
      PROVE  /\ m[k].kind \in Kinds /\ m[k].chars \in Seq(Chars)
             /\ m[k].kind # "text" => m[k].chars \in Seq(Ascii)
  <2>1. m[k] \in Tokens
    BY <1>1, ElementOfSeq
  <2>2. m[k].kind # "text" => m[k].chars \in Seq(Ascii \ Placeholders)
    BY <1>2, EncodedMessageAssumption
  <2>3. Seq(Ascii \ Placeholders) \subseteq Seq(Ascii)
    BY SeqMonotonic
  <2>4. m[k].kind \in Kinds /\ m[k].chars \in Seq(Chars)
    BY <2>1 DEF Tokens
  <2>5. QED  BY <2>2, <2>3, <2>4
<1>4. QED  BY <1>1, <1>2, <1>3

LEMMA TokenBytesTyped ==
  ASSUME NEW m \in Messages
  PROVE  /\ TokenBytes(m) \in Seq(Seq(Bytes)) /\ Len(TokenBytes(m)) = Len(m)
         /\ \A k \in 1 .. Len(m) :
              /\ TokenBytes(m)[k] = Utf8(m[k].chars)
              /\ m[k].kind # "text" => /\ TokenBytes(m)[k] = m[k].chars
                                       /\ TokenBytes(m)[k] \in Seq(Ascii)
<1>1. /\ Len(m) \in Nat /\ DOMAIN m = 1 .. Len(m)
      /\ \A k \in 1 .. Len(m) :
           /\ m[k].chars \in Seq(Chars)
           /\ m[k].kind # "text" => m[k].chars \in Seq(Ascii)
  BY MessageTyped
<1>2. \A k \in 1 .. Len(m) : Utf8(m[k].chars) \in Seq(Bytes)
  BY <1>1, Utf8Type
<1>3. \A k \in 1 .. Len(m) : m[k].kind # "text" => Utf8(m[k].chars) = m[k].chars
  BY <1>1, Utf8Ascii
<1>4. TokenBytes(m) = [k \in 1 .. Len(m) |-> Utf8(m[k].chars)]
  BY <1>1 DEF TokenBytes
<1>5. /\ TokenBytes(m) \in Seq(Seq(Bytes)) /\ Len(TokenBytes(m)) = Len(m)
      /\ \A k \in 1 .. Len(m) : TokenBytes(m)[k] = Utf8(m[k].chars)
  BY <1>1, <1>2, <1>4
<1>6. QED  BY <1>1, <1>3, <1>5

TokenKinds(m) == [k \in DOMAIN m |-> m[k].kind]

LEMMA TokenKindsTyped ==
  ASSUME NEW m \in Messages
  PROVE  /\ TokenKinds(m) \in Seq(Kinds) /\ Len(TokenKinds(m)) = Len(m)
         /\ \A k \in 1 .. Len(m) : TokenKinds(m)[k] = m[k].kind
<1>1. /\ Len(m) \in Nat /\ DOMAIN m = 1 .. Len(m)
      /\ \A k \in 1 .. Len(m) : m[k].kind \in Kinds
  BY MessageTyped
<1>2. QED  BY <1>1 DEF TokenKinds

LEMMA TokensFound ==
  ASSUME NEW m \in Messages, NEW kind
  PROVE  /\ TokensOf(m, kind) = Found(TokenKinds(m), {kind}, Len(m))
         /\ TokensOf(m, kind) \in Seq(1 .. Len(m)) /\ Len(TokensOf(m, kind)) \in Nat
         /\ DOMAIN TokensOf(m, kind) = 1 .. Len(TokensOf(m, kind))
         /\ \A k \in 1 .. Len(TokensOf(m, kind)) :
              /\ TokensOf(m, kind)[k] \in 1 .. Len(m)
              /\ m[TokensOf(m, kind)[k]].kind = kind
<1>1. /\ TokenKinds(m) \in Seq(Kinds) /\ Len(TokenKinds(m)) = Len(m)
      /\ \A k \in 1 .. Len(m) : TokenKinds(m)[k] = m[k].kind
  BY TokenKindsTyped
<1>2. TokensOf(m, kind) = Found(TokenKinds(m), {kind}, Len(m))
  <2>1. TokensOf(m, kind) = Indices(TokenKinds(m), {kind})
    BY DEF TokensOf, TokenKinds
  <2>2. QED  BY <1>1, <2>1, FoundLast
<1> DEFINE f == Found(TokenKinds(m), {kind}, Len(m))
           I == {k \in 1 .. Len(m) : TokenKinds(m)[k] \in {kind}}
<1>3. Len(m) \in 0 .. Len(m)
  BY MessageTyped
<1>4. /\ f \in Seq(I) /\ Len(f) \in Nat
      /\ \A k \in 1 .. Len(f) : f[k] \in 1 .. Len(m) /\ TokenKinds(m)[f[k]] \in {kind}
  BY <1>1, <1>3, FoundType
<1>5. I \subseteq 1 .. Len(m)
  OBVIOUS
<1> HIDE DEF I, f
<1>6. f \in Seq(1 .. Len(m)) /\ DOMAIN f = 1 .. Len(f)
  BY <1>4, <1>5, SeqMonotonic
<1>7. QED  BY <1>1, <1>2, <1>4, <1>6 DEF f

(* The bytes of the tokens of a kind.                                      *)
BytesOf(m, kind) == Picked(TokenBytes(m), TokensOf(m, kind))

LEMMA VariablesTyped ==
  ASSUME NEW m \in Messages, NEW kind \in {"dictionary", "encoded"}
  PROVE  /\ BytesOf(m, kind) \in Seq(Seq(Ascii))
         /\ BytesOf(m, kind) \in Seq(Seq(Bytes)) /\ BytesOf(m, kind) \in Seq(Seq(Nat))
         /\ Len(BytesOf(m, kind)) = Len(TokensOf(m, kind))
         /\ BytesOf(m, kind) = [k \in DOMAIN TokensOf(m, kind) |->
                                  m[TokensOf(m, kind)[k]].chars]
         /\ \A k \in 1 .. Len(TokensOf(m, kind)) :
              BytesOf(m, kind)[k] = TokenBytes(m)[TokensOf(m, kind)[k]]
<1> DEFINE vs == TokensOf(m, kind)
<1>1. /\ Len(vs) \in Nat /\ DOMAIN vs = 1 .. Len(vs)
      /\ \A k \in 1 .. Len(vs) : vs[k] \in 1 .. Len(m) /\ m[vs[k]].kind = kind
  BY TokensFound
<1> HIDE DEF vs
<1>2. \A k \in 1 .. Len(vs) : /\ TokenBytes(m)[vs[k]] = m[vs[k]].chars
                              /\ TokenBytes(m)[vs[k]] \in Seq(Ascii)
  BY <1>1, TokenBytesTyped
<1>3. BytesOf(m, kind) = [k \in 1 .. Len(vs) |-> TokenBytes(m)[vs[k]]]
  BY <1>1 DEF BytesOf, Picked, vs
<1>4. /\ BytesOf(m, kind) \in Seq(Seq(Ascii)) /\ Len(BytesOf(m, kind)) = Len(vs)
      /\ \A k \in 1 .. Len(vs) : BytesOf(m, kind)[k] = TokenBytes(m)[vs[k]]
  BY <1>1, <1>2, <1>3
<1>5. BytesOf(m, kind) = [k \in DOMAIN vs |-> m[vs[k]].chars]
  BY <1>1, <1>2, <1>3
<1>6. BytesOf(m, kind) \in Seq(Seq(Bytes)) /\ BytesOf(m, kind) \in Seq(Seq(Nat))
  <2>1. Ascii \subseteq Bytes /\ Ascii \subseteq Nat
    BY Characters
  <2>2. Seq(Ascii) \subseteq Seq(Bytes) /\ Seq(Ascii) \subseteq Seq(Nat)
    BY <2>1, SeqMonotonic
  <2>3. QED  BY <1>4, <2>2, SeqMonotonic
<1>7. QED  BY <1>4, <1>5, <1>6 DEF vs

LEMMA EncodedVarsAreBytes ==
  ASSUME NEW m \in Messages
  PROVE  EncodedVarsOf(m) = BytesOf(m, "encoded")
<1>1. BytesOf(m, "encoded") = [k \in DOMAIN TokensOf(m, "encoded") |->
                                 m[TokensOf(m, "encoded")[k]].chars]
  BY VariablesTyped
<1>2. QED  BY <1>1 DEF EncodedVarsOf

-----------------------------------------------------------------------------
(* Bounds of the dictionary variables, and what is between them.           *)

(* Within the array, copyOfRange is a slice.                               *)
LEMMA CopyIsSlice ==
  ASSUME NEW bytes \in Seq(Nat),
         NEW begin \in 0 .. Len(bytes), NEW end \in 0 .. Len(bytes)
  PROVE  CopyOfRange(bytes, begin, end) = SubSeq(bytes, begin + 1, end)
<1>1. SubSeq(bytes, begin + 1, end) = [k \in 1 .. end - begin |-> bytes[begin + k]]
  OBVIOUS
<1>2. \A k \in 1 .. end - begin : begin + k \in DOMAIN bytes
  OBVIOUS
<1>3. QED  BY <1>1, <1>2 DEF CopyOfRange

(* Each of the byte arrays is copied out of their concatenation.           *)
LEMMA CopyIsPiece ==
  ASSUME NEW seqs \in Seq(Seq(Nat)), NEW n \in 1 .. Len(seqs)
  PROVE  CopyOfRange(FlattenSeq(seqs), EndOf(seqs, n - 1), EndOf(seqs, n)) = seqs[n]
<1> DEFINE whole == FlattenSeq(seqs)
           b == EndOf(seqs, n - 1)
           e == EndOf(seqs, n)
<1>1. /\ b \in Nat /\ e = b + Len(seqs[n]) /\ e <= Len(whole)
      /\ SubSeq(whole, b + 1, e) = seqs[n]
  BY FlattenPiece
<1>2. whole \in Seq(Nat) /\ Len(whole) \in Nat /\ Len(seqs[n]) \in Nat
  <2>1. whole \in Seq(Nat)
    BY FlattenType
  <2>2. seqs[n] \in Seq(Nat)
    OBVIOUS
  <2>3. QED  BY <2>1, <2>2, LenProperties
<1> HIDE DEF whole, b, e
<1>3. b \in 0 .. Len(whole) /\ e \in 0 .. Len(whole)
  BY <1>1, <1>2
<1>4. CopyOfRange(whole, b, e) = SubSeq(whole, b + 1, e)
  BY <1>2, <1>3, CopyIsSlice
<1>5. QED  BY <1>1, <1>4 DEF whole, b, e

LEMMA TokenBytesNat ==
  ASSUME NEW m \in Messages
  PROVE  TokenBytes(m) \in Seq(Seq(Nat)) /\ FlattenSeq(TokenBytes(m)) \in Seq(Bytes)
<1>1. TokenBytes(m) \in Seq(Seq(Bytes))
  BY TokenBytesTyped
<1>2. Seq(Bytes) \subseteq Seq(Nat)
  BY Characters, SeqMonotonic
<1>3. QED  BY <1>1, <1>2, SeqMonotonic, FlattenType

(* Each token ends in the message, not before the ones in front of it.     *)
LEMMA TokensEndInOrder ==
  ASSUME NEW m \in Messages, NEW n \in 0 .. Len(m), NEW k \in n .. Len(m)
  PROVE  /\ EndOf(TokenBytes(m), n) \in 0 .. Len(FlattenSeq(TokenBytes(m)))
         /\ EndOf(TokenBytes(m), n) <= EndOf(TokenBytes(m), k)
<1>1. TokenBytes(m) \in Seq(Seq(Nat)) /\ Len(TokenBytes(m)) = Len(m)
  BY TokenBytesNat, TokenBytesTyped
<1>2. \A j \in n .. Len(m) : /\ EndOf(TokenBytes(m), n) \in Nat
                              /\ EndOf(TokenBytes(m), j) \in Nat
                              /\ EndOf(TokenBytes(m), n) <= EndOf(TokenBytes(m), j)
  BY <1>1, FlattenKeeps
<1>3. EndOf(TokenBytes(m), Len(m)) = Len(FlattenSeq(TokenBytes(m)))
  BY <1>1, EndOfFirst
<1>4. Len(m) \in n .. Len(m)
  BY MessageTyped
<1>5. QED  BY <1>2, <1>3, <1>4

LEMMA BoundsAre ==
  ASSUME NEW m \in Messages
  PROVE  LET d == TokensOf(m, "dictionary")
         IN  /\ DictVarBoundsOf(m) \in Seq(Nat) /\ Len(DictVarBoundsOf(m)) = 2 * Len(d)
             /\ \A k \in 1 .. Len(d) :
                  /\ DictVarBoundsOf(m)[2 * k - 1] = EndOf(TokenBytes(m), d[k] - 1)
                  /\ DictVarBoundsOf(m)[2 * k] = EndOf(TokenBytes(m), d[k])
<1> DEFINE d == TokensOf(m, "dictionary")
           pairs == [k \in DOMAIN d |-> <<EndOf(TokenBytes(m), d[k] - 1),
                                         EndOf(TokenBytes(m), d[k])>>]
<1>1. /\ Len(d) \in Nat /\ DOMAIN d = 1 .. Len(d)
      /\ \A k \in 1 .. Len(d) : d[k] \in 1 .. Len(m)
  BY TokensFound
<1>2. DictVarBoundsOf(m) = FlattenSeq(pairs)
  BY DEF DictVarBoundsOf, EndOf
<1> HIDE DEF d
<1>3. ASSUME NEW k \in 1 .. Len(d)
      PROVE  /\ EndOf(TokenBytes(m), d[k] - 1) \in Nat
             /\ EndOf(TokenBytes(m), d[k]) \in Nat
  <2> DEFINE n == d[k]
  <2>1. n \in 0 .. Len(m) /\ n - 1 \in 0 .. Len(m)
    BY <1>1, MessageTyped
  <2>2. \A j \in 0 .. Len(m) : EndOf(TokenBytes(m), j) \in Nat
    <3> TAKE j \in 0 .. Len(m)
    <3>1. j \in j .. Len(m)
      BY MessageTyped
    <3>2. QED  BY <3>1, TokensEndInOrder
  <2>3. QED  BY <2>1, <2>2
<1>4. /\ pairs \in Seq(Seq(Nat)) /\ Len(pairs) = Len(d)
      /\ \A k \in 1 .. Len(d) :
           pairs[k] = <<EndOf(TokenBytes(m), d[k] - 1), EndOf(TokenBytes(m), d[k])>>
  BY <1>1, <1>3
<1> HIDE DEF pairs
<1>5. \A k \in 1 .. Len(pairs) : Len(pairs[k]) = 2
  <2>1. \A b, e : Len(<<b, e>>) = 2
    OBVIOUS
  <2>2. QED  BY <1>4, <2>1
<1>6. /\ FlattenSeq(pairs) \in Seq(Nat) /\ Len(FlattenSeq(pairs)) = 2 * Len(pairs)
      /\ \A k \in 1 .. Len(pairs) : /\ FlattenSeq(pairs)[2 * k - 1] = pairs[k][1]
                                    /\ FlattenSeq(pairs)[2 * k] = pairs[k][2]
  BY <1>4, <1>5, FlattenPairs
<1>7. \A k \in 1 .. Len(d) :
        /\ FlattenSeq(pairs)[2 * k - 1] = EndOf(TokenBytes(m), d[k] - 1)
        /\ FlattenSeq(pairs)[2 * k] = EndOf(TokenBytes(m), d[k])
  <2> TAKE k \in 1 .. Len(d)
  <2>1. /\ pairs[k][1] = EndOf(TokenBytes(m), d[k] - 1)
        /\ pairs[k][2] = EndOf(TokenBytes(m), d[k])
    BY <1>4
  <2>2. QED  BY <1>4, <1>6, <2>1
<1>8. Len(FlattenSeq(pairs)) = 2 * Len(d)
  BY <1>4, <1>6
<1> DEFINE flat == FlattenSeq(pairs)
<1> HIDE DEF flat
<1>9. QED  BY <1>2, <1>6, <1>7, <1>8 DEF d, flat

LEMMA BoundsOrdered ==
  ASSUME NEW m \in Messages
  PROVE  \A k \in 1 .. Len(DictVarBoundsOf(m)) :
           /\ DictVarBoundsOf(m)[k] \in 0 .. Len(FlattenSeq(TokenBytes(m)))
           /\ k > 1 => DictVarBoundsOf(m)[k - 1] <= DictVarBoundsOf(m)[k]
<1> DEFINE d == TokensOf(m, "dictionary")
           b == DictVarBoundsOf(m)
           end(n) == EndOf(TokenBytes(m), n)
           length == Len(FlattenSeq(TokenBytes(m)))
<1>1. /\ Len(d) \in Nat /\ \A j \in 1 .. Len(d) : d[j] \in 1 .. Len(m)
      /\ \A j \in 1 .. Len(d) : j > 1 => d[j - 1] < d[j]
  <2>1. /\ TokenKinds(m) \in Seq(Kinds) /\ Len(TokenKinds(m)) = Len(m)
        /\ Len(m) \in 0 .. Len(m)
    BY TokenKindsTyped, MessageTyped
  <2>2. d = Found(TokenKinds(m), {"dictionary"}, Len(m))
    BY TokensFound
  <2>3. \A j \in 1 .. Len(d) : j > 1 => d[j - 1] < d[j]
    BY <2>1, <2>2, FoundInOrder
  <2>4. Len(d) \in Nat /\ \A j \in 1 .. Len(d) : d[j] \in 1 .. Len(m)
    BY TokensFound
  <2>5. QED  BY <2>3, <2>4
<1>2. /\ Len(b) = 2 * Len(d)
      /\ \A j \in 1 .. Len(d) : b[2 * j - 1] = end(d[j] - 1) /\ b[2 * j] = end(d[j])
  BY BoundsAre
<1>3. \A n \in 0 .. Len(m) : \A k \in n .. Len(m) : end(n) \in 0 .. length /\ end(n) <= end(k)
  BY TokensEndInOrder
<1>4. Len(m) \in Nat
  BY MessageTyped
<1> HIDE DEF d, b, end, length
<1>5. ASSUME NEW j \in 1 .. Len(d)
      PROVE  /\ b[2 * j - 1] \in 0 .. length /\ b[2 * j] \in 0 .. length
             /\ b[2 * j - 1] <= b[2 * j]
             /\ j > 1 => b[2 * (j - 1)] <= b[2 * j - 1]
  <2> DEFINE n == d[j]
  <2>1. n \in 1 .. Len(m) /\ n - 1 \in 0 .. Len(m) /\ n \in n - 1 .. Len(m)
    BY <1>1, <1>4
  <2>2. n \in 0 .. Len(m) /\ n \in n .. Len(m)
    BY <1>4, <2>1
  <2>3. end(n - 1) \in 0 .. length /\ end(n - 1) <= end(n)
    BY <1>3, <2>1
  <2>4. end(n) \in 0 .. length
    BY <1>3, <2>2
  <2>5. b[2 * j - 1] = end(n - 1) /\ b[2 * j] = end(n)
    BY <1>2
  <2>6. j > 1 => b[2 * (j - 1)] <= end(n - 1)
    <3> SUFFICES ASSUME j > 1 PROVE b[2 * (j - 1)] <= end(n - 1)
      OBVIOUS
    <3> DEFINE before == d[j - 1]
    <3>1. j - 1 \in 1 .. Len(d)
      BY <1>1
    <3>2. before \in 1 .. Len(m) /\ before < n
      BY <1>1, <3>1
    <3>3. before \in 0 .. Len(m) /\ n - 1 \in before .. Len(m)
      BY <1>4, <2>1, <3>2
    <3>4. b[2 * (j - 1)] = end(before)
      BY <1>2, <3>1
    <3> HIDE DEF before, n
    <3>5. QED  BY <1>3, <3>3, <3>4
  <2>7. QED  BY <2>3, <2>4, <2>5, <2>6
<1>6. ASSUME NEW k \in 1 .. Len(b)
      PROVE  b[k] \in 0 .. length /\ (k > 1 => b[k - 1] <= b[k])
  <2>1. \E j \in 1 .. Len(d) : k = 2 * j - 1 \/ k = 2 * j
    <3>1. k \in Nat /\ k >= 1 /\ k <= 2 * Len(d)
      BY <1>1, <1>2
    <3>2. (k + 1) \div 2 \in 1 .. Len(d)
      BY <1>1, <3>1
    <3>3. k = 2 * ((k + 1) \div 2) - 1 \/ k = 2 * ((k + 1) \div 2)
      BY <3>1
    <3>4. QED  BY <3>2, <3>3
  <2>2. PICK j \in 1 .. Len(d) : k = 2 * j - 1 \/ k = 2 * j
    BY <2>1
  <2>3. CASE k = 2 * j
    <3>1. k - 1 = 2 * j - 1
      BY <2>3
    <3>2. QED  BY <1>5, <2>3, <3>1
  <2>4. CASE k = 2 * j - 1
    <3>1. k - 1 = 2 * (j - 1) /\ (k > 1 => j > 1)
      BY <2>4
    <3>2. QED  BY <1>5, <2>4, <3>1
  <2>5. QED  BY <2>2, <2>3, <2>4
<1>7. QED  BY <1>6 DEF b, length

(* The accessors read the dictionary variables.                            *)
LEMMA BoundsCut ==
  ASSUME NEW m \in Messages,
         message = FlattenSeq(TokenBytes(m)), dictionaryVarBounds = DictVarBoundsOf(m)
  PROVE  /\ NumVars = Len(BytesOf(m, "dictionary"))
         /\ \A k \in 1 .. NumVars :
              /\ CopyOfRange(message, VarBegin(k), VarEnd(k)) = BytesOf(m, "dictionary")[k]
              /\ VarBegin(k) \in Nat
              /\ VarEnd(k) = VarBegin(k) + Len(BytesOf(m, "dictionary")[k])
<1> DEFINE d == TokensOf(m, "dictionary")
           V == BytesOf(m, "dictionary")
           TB == TokenBytes(m)
<1>1. /\ Len(d) \in Nat /\ Len(V) = Len(d)
      /\ \A k \in 1 .. Len(d) : d[k] \in 1 .. Len(m) /\ V[k] = TB[d[k]]
  BY TokensFound, VariablesTyped
<1>2. /\ Len(dictionaryVarBounds) = 2 * Len(d)
      /\ \A k \in 1 .. Len(d) : /\ dictionaryVarBounds[2 * k - 1] = EndOf(TB, d[k] - 1)
                               /\ dictionaryVarBounds[2 * k] = EndOf(TB, d[k])
  BY BoundsAre
<1>3. TB \in Seq(Seq(Nat)) /\ Len(TB) = Len(m)
  BY TokenBytesNat, TokenBytesTyped
<1> HIDE DEF d, V, TB
<1>4. NumVars = Len(V)
  BY <1>1, <1>2 DEF NumVars
<1>5. \A n \in 1 .. Len(TB) :
        /\ CopyOfRange(FlattenSeq(TB), EndOf(TB, n - 1), EndOf(TB, n)) = TB[n]
        /\ EndOf(TB, n - 1) \in Nat
        /\ EndOf(TB, n) = EndOf(TB, n - 1) + Len(TB[n])
  BY <1>3, CopyIsPiece, FlattenPiece
<1>6. ASSUME NEW k \in 1 .. NumVars
      PROVE  /\ CopyOfRange(message, VarBegin(k), VarEnd(k)) = V[k]
             /\ VarBegin(k) \in Nat /\ VarEnd(k) = VarBegin(k) + Len(V[k])
  <2>1. k \in 1 .. Len(d) /\ d[k] \in 1 .. Len(TB) /\ V[k] = TB[d[k]]
    BY <1>1, <1>3, <1>4
  <2>2. VarBegin(k) = EndOf(TB, d[k] - 1) /\ VarEnd(k) = EndOf(TB, d[k])
    BY <1>2, <2>1 DEF VarBegin, VarEnd
  <2>3. message = FlattenSeq(TB)
    BY DEF TB
  <2>4. QED  BY <1>5, <2>1, <2>2, <2>3
<1>7. QED  BY <1>4, <1>6 DEF V

LEMMA ByteArraysAre ==
  ASSUME NEW m \in Messages,
         message = FlattenSeq(TokenBytes(m)), dictionaryVarBounds = DictVarBoundsOf(m)
  PROVE  [k \in 1 .. NumVars |-> CopyOfRange(message, VarBegin(k), VarEnd(k))]
           = BytesOf(m, "dictionary")
<1>1. /\ NumVars = Len(BytesOf(m, "dictionary"))
      /\ \A k \in 1 .. NumVars :
           CopyOfRange(message, VarBegin(k), VarEnd(k)) = BytesOf(m, "dictionary")[k]
  BY BoundsCut
<1>2. BytesOf(m, "dictionary") = [k \in 1 .. Len(BytesOf(m, "dictionary")) |->
                                    BytesOf(m, "dictionary")[k]]
  <2> DEFINE V == BytesOf(m, "dictionary")
  <2>1. V \in Seq(Seq(Nat))
    BY VariablesTyped
  <2> HIDE DEF V
  <2>2. V = [k \in 1 .. Len(V) |-> V[k]]
    BY <2>1
  <2>3. QED  BY <2>2 DEF V
<1>3. QED  BY <1>1, <1>2

LEMMA NothingIsNull ==
  /\ \A s \in Seq(Nat) : s # Null
  /\ \A s \in Seq(Seq(Nat)) : s # Null
  /\ \A s \in Seq(Nat), e \in Seq(Nat) : Flattened(s, e) # Null
BY EncodedMessageAssumption DEF Flattened

(* An iteration of flattened byte arrays gives them.                       *)
LEMMA FlattenedIterates ==
  ASSUME NEW arrays \in Seq(Seq(Nat))
  PROVE  /\ FromByteArrays(arrays)
              = Flattened(FlattenSeq(arrays),
                          [k \in 1 .. Len(arrays) |-> EndOf(arrays, k)])
         /\ FromByteArrays(arrays) # Null
         /\ \A k \in DOMAIN FromByteArrays(arrays).elemEndOffsets :
              FromByteArrays(arrays).elemEndOffsets[k]
                \in 0 .. Len(FromByteArrays(arrays).flattenedElems)
         /\ Elements(FromByteArrays(arrays)) = arrays
<1> DEFINE whole == FlattenSeq(arrays)
           ends == [k \in 1 .. Len(arrays) |-> EndOf(arrays, k)]
           flat == Flattened(whole, ends)
<1>1. /\ Len(arrays) \in Nat /\ DOMAIN arrays = 1 .. Len(arrays)
      /\ arrays = [k \in 1 .. Len(arrays) |-> arrays[k]]
  OBVIOUS
<1>2. FromByteArrays(arrays) = flat
  <2>1. arrays # Null
    BY NothingIsNull
  <2>2. QED  BY <1>1, <2>1 DEF FromByteArrays, EndOf
<1>3. whole \in Seq(Nat) /\ Len(whole) \in Nat
  <2>1. whole \in Seq(Nat)
    BY FlattenType
  <2> HIDE DEF whole
  <2>2. QED  BY <2>1
<1>4. \A k \in 1 .. Len(arrays) :
        /\ EndOf(arrays, k - 1) \in Nat /\ EndOf(arrays, k) \in 0 .. Len(whole)
        /\ CopyOfRange(whole, EndOf(arrays, k - 1), EndOf(arrays, k)) = arrays[k]
  <2> TAKE k \in 1 .. Len(arrays)
  <2>1. /\ EndOf(arrays, k - 1) \in Nat
        /\ EndOf(arrays, k) = EndOf(arrays, k - 1) + Len(arrays[k])
        /\ EndOf(arrays, k) <= Len(whole)
    BY FlattenPiece
  <2>2. Len(arrays[k]) \in Nat
    OBVIOUS
  <2>3. CopyOfRange(whole, EndOf(arrays, k - 1), EndOf(arrays, k)) = arrays[k]
    BY CopyIsPiece
  <2> HIDE DEF whole
  <2>4. QED  BY <1>3, <2>1, <2>2, <2>3
<1>5. EndOf(arrays, 0) = 0
  BY EndOfFirst
<1> HIDE DEF whole
<1>6. /\ ends \in Seq(Nat) /\ DOMAIN ends = 1 .. Len(arrays)
      /\ \A k \in 1 .. Len(arrays) : ends[k] = EndOf(arrays, k)
  BY <1>1, <1>4
<1> HIDE DEF ends
<1>7. /\ flat # Null /\ flat.flattenedElems = whole /\ flat.elemEndOffsets = ends
  BY <1>3, <1>6, NothingIsNull DEF Flattened
<1> HIDE DEF flat
<1>8. \A k \in 1 .. Len(arrays) : Element(flat, k) = arrays[k]
  <2> TAKE k \in 1 .. Len(arrays)
  <2>1. (IF k = 1 THEN 0 ELSE ends[k - 1]) = EndOf(arrays, k - 1)
    <3>1. CASE k = 1
      <4>1. k - 1 = 0
        BY <3>1
      <4>2. QED  BY <1>5, <3>1, <4>1
    <3>2. CASE k # 1
      <4>1. k - 1 \in 1 .. Len(arrays)
        BY <1>1, <3>2
      <4>2. QED  BY <1>6, <3>2, <4>1
    <3>3. QED  BY <3>1, <3>2
  <2>2. ends[k] = EndOf(arrays, k)
    BY <1>6
  <2>3. Element(flat, k) = CopyOfRange(whole, EndOf(arrays, k - 1), EndOf(arrays, k))
    BY <1>7, <2>1, <2>2 DEF Element
  <2>4. QED  BY <1>4, <2>3
<1>9. Elements(flat) = arrays
  BY <1>1, <1>6, <1>7, <1>8 DEF Elements
<1>10. \A k \in DOMAIN flat.elemEndOffsets :
         flat.elemEndOffsets[k] \in 0 .. Len(flat.flattenedElems)
  BY <1>4, <1>6, <1>7
<1>11. QED  BY <1>2, <1>7, <1>9, <1>10 DEF flat, ends, whole

(* The sums of the lengths that Flatten takes are where the arrays end.    *)
IsLength(f) ==
  f = [k \in 0 .. NumVars |->
         IF k = 0 THEN 0 ELSE f[k - 1] + VarEnd(k) - VarBegin(k)]

LEMMA LengthsAreEnds ==
  ASSUME NEW arrays \in Seq(Seq(Nat)), NumVars = Len(arrays),
         \A k \in 1 .. NumVars : /\ VarBegin(k) \in Nat
                                 /\ VarEnd(k) = VarBegin(k) + Len(arrays[k])
  PROVE  /\ IsLength([k \in 0 .. NumVars |-> EndOf(arrays, k)])
         /\ \A f : IsLength(f) => \A k \in 0 .. NumVars : f[k] = EndOf(arrays, k)
<1> DEFINE N == NumVars
           g == [k \in 0 .. N |-> EndOf(arrays, k)]
<1>1. /\ N \in Nat /\ N = Len(arrays)
      /\ \A k \in 1 .. N : Len(arrays[k]) \in Nat
  OBVIOUS
<1>2. EndOf(arrays, 0) = 0
  BY EndOfFirst
<1>3. \A k \in 1 .. N : EndOf(arrays, k - 1) \in Nat
                        /\ EndOf(arrays, k) = EndOf(arrays, k - 1) + Len(arrays[k])
  BY <1>1, FlattenPiece
<1>4. \A k \in 1 .. N : EndOf(arrays, k) = EndOf(arrays, k - 1) + VarEnd(k) - VarBegin(k)
  BY <1>1, <1>3
<1>5. IsLength(g)
  <2>1. \A k \in 0 .. N : g[k] = IF k = 0 THEN 0 ELSE g[k - 1] + VarEnd(k) - VarBegin(k)
    <3> TAKE k \in 0 .. N
    <3>1. k # 0 => k \in 1 .. N /\ k - 1 \in 0 .. N
      BY <1>1
    <3>2. g[k] = EndOf(arrays, k) /\ (k # 0 => g[k - 1] = EndOf(arrays, k - 1))
      BY <3>1
    <3> HIDE DEF g
    <3>3. QED  BY <1>2, <1>4, <3>1, <3>2
  <2>2. g = [k \in 0 .. N |-> g[k]]
    OBVIOUS
  <2> HIDE DEF g
  <2>3. QED  BY <2>1, <2>2 DEF IsLength
<1>6. ASSUME NEW f, IsLength(f) PROVE \A k \in 0 .. N : f[k] = EndOf(arrays, k)
  <2> DEFINE Bad == {k \in 0 .. N : f[k] # EndOf(arrays, k)}
  <2> SUFFICES ASSUME Bad # {} PROVE FALSE
    OBVIOUS
  <2>1. PICK k \in Bad : \A x \in Bad : k <= x
    <3>1. Bad \in SUBSET Nat
      BY <1>1
    <3> HIDE DEF Bad
    <3>2. QED  BY <3>1, Least
  <2>2. \A x \in 0 .. N : f[x] = IF x = 0 THEN 0 ELSE f[x - 1] + VarEnd(x) - VarBegin(x)
    BY <1>6 DEF IsLength
  <2>3. k # 0
    BY <1>2, <2>1, <2>2
  <2>4. k \in 1 .. N /\ k - 1 \in 0 .. N /\ k - 1 \notin Bad
    BY <1>1, <2>1, <2>3
  <2>5. f[k - 1] = EndOf(arrays, k - 1)
    BY <2>4
  <2>6. f[k] = EndOf(arrays, k)
    BY <1>4, <2>2, <2>3, <2>4, <2>5
  <2>7. QED  BY <2>1, <2>6
<1>7. QED  BY <1>5, <1>6

LEMMA FlattenIsFromByteArrays ==
  ASSUME NEW m \in Messages,
         message = FlattenSeq(TokenBytes(m)), dictionaryVarBounds = DictVarBoundsOf(m)
  PROVE  Flatten = FromByteArrays(BytesOf(m, "dictionary"))
<1> DEFINE V == BytesOf(m, "dictionary")
           f == CHOOSE h : IsLength(h)
<1>1. V \in Seq(Seq(Nat)) /\ Len(V) \in Nat
  <2>1. V \in Seq(Seq(Nat))
    BY VariablesTyped
  <2>2. QED  BY <2>1, LenProperties
<1>2. /\ NumVars = Len(V)
      /\ \A k \in 1 .. NumVars : /\ VarBegin(k) \in Nat
                                 /\ VarEnd(k) = VarBegin(k) + Len(V[k])
  BY BoundsCut
<1> HIDE DEF V
<1>3. /\ \E h : IsLength(h)
      /\ \A h : IsLength(h) => \A k \in 0 .. NumVars : h[k] = EndOf(V, k)
  BY <1>1, <1>2, LengthsAreEnds
<1>4. IsLength(f)
  BY <1>3
<1>5. Flatten = Flattened(FlattenSeq([k \in 1 .. NumVars |->
                                        CopyOfRange(message, VarBegin(k), VarEnd(k))]),
                          [k \in 1 .. NumVars |-> f[k]])
  BY DEF Flatten, IsLength
<1>6. [k \in 1 .. NumVars |-> CopyOfRange(message, VarBegin(k), VarEnd(k))] = V
  BY ByteArraysAre DEF V
<1> HIDE DEF f
<1>7. \A k \in 1 .. NumVars : k \in 0 .. NumVars
  BY <1>1, <1>2
<1>8. [k \in 1 .. NumVars |-> f[k]] = [k \in 1 .. Len(V) |-> EndOf(V, k)]
  BY <1>2, <1>3, <1>4, <1>7
<1>9. FromByteArrays(V) = Flattened(FlattenSeq(V), [k \in 1 .. Len(V) |-> EndOf(V, k)])
  BY <1>1, FlattenedIterates
<1>10. QED  BY <1>5, <1>6, <1>8, <1>9 DEF V

-----------------------------------------------------------------------------
(* Decoding: placeholders in bytes are counted byte by byte.               *)

LEMMA CountNext ==
  ASSUME NEW bytes \in Seq(Nat), NEW p
  PROVE  /\ Count(bytes, p, 0) = 0
         /\ \A n \in 0 .. Len(bytes) : Count(bytes, p, n) \in Nat
         /\ \A n \in 1 .. Len(bytes) :
              Count(bytes, p, n) = Count(bytes, p, n - 1) + (IF bytes[n] = p THEN 1 ELSE 0)
<1>1. \A n \in 0 .. Len(bytes) : /\ Count(bytes, p, n) = Len(Found(bytes, {p}, n))
                                 /\ Count(bytes, p, n) \in Nat
  <2> TAKE n \in 0 .. Len(bytes)
  <2>1. Cardinality({k \in 1 .. n : bytes[k] \in {p}}) = Len(Found(bytes, {p}, n))
    BY FoundCounts
  <2>2. {k \in 1 .. n : bytes[k] = p} = {k \in 1 .. n : bytes[k] \in {p}}
    OBVIOUS
  <2>3. Len(Found(bytes, {p}, n)) \in Nat
    BY FoundType
  <2>4. QED  BY <2>1, <2>2, <2>3 DEF Count
<1>2. Count(bytes, p, 0) = 0
  <2>1. 0 \in 0 .. Len(bytes) /\ Found(bytes, {p}, 0) = <<>>
    BY FoundFirst
  <2>2. Len(<<>>) = 0
    OBVIOUS
  <2>3. QED  BY <1>1, <2>1, <2>2
<1>3. ASSUME NEW n \in 1 .. Len(bytes)
      PROVE  Count(bytes, p, n)
               = Count(bytes, p, n - 1) + (IF bytes[n] = p THEN 1 ELSE 0)
  <2> DEFINE f == Found(bytes, {p}, n)
             g == Found(bytes, {p}, n - 1)
  <2>1. n \in 0 .. Len(bytes) /\ n - 1 \in 0 .. Len(bytes)
    OBVIOUS
  <2>2. f = IF bytes[n] = p THEN Append(g, n) ELSE g
    <3>1. f = IF bytes[n] \in {p} THEN Append(g, n) ELSE g
      BY FoundNext
    <3>2. QED  BY <3>1
  <2>3. g \in Seq(Nat)
    <3>1. g \in Seq({k \in 1 .. Len(bytes) : bytes[k] \in {p}})
      BY <2>1, FoundType
    <3>2. QED  BY <3>1
  <2>4. Count(bytes, p, n) = Len(f) /\ Count(bytes, p, n - 1) = Len(g)
    BY <1>1, <2>1
  <2> HIDE DEF f, g
  <2>5. Len(f) = Len(g) + (IF bytes[n] = p THEN 1 ELSE 0)
    BY <2>2, <2>3, AppendProperties
  <2>6. QED  BY <2>4, <2>5
<1>4. QED  BY <1>1, <1>2, <1>3

LEMMA CountGrows ==
  ASSUME NEW bytes \in Seq(Nat), NEW p,
         NEW n \in 0 .. Len(bytes), NEW k \in n .. Len(bytes)
  PROVE  /\ Count(bytes, p, n) <= Count(bytes, p, k)
         /\ (\A j \in n + 1 .. k : bytes[j] # p) => Count(bytes, p, k) = Count(bytes, p, n)
<1> DEFINE P(x) == /\ Count(bytes, p, n) <= Count(bytes, p, x)
                   /\ (\A j \in n + 1 .. x : bytes[j] # p)
                        => Count(bytes, p, x) = Count(bytes, p, n)
           Bad == {x \in n .. Len(bytes) : ~P(x)}
<1> SUFFICES ASSUME Bad # {} PROVE FALSE
  OBVIOUS
<1>1. PICK x \in Bad : \A y \in Bad : x <= y
  <2>1. Bad \in SUBSET Nat
    OBVIOUS
  <2> HIDE DEF Bad
  <2>2. QED  BY <2>1, Least
<1>2. /\ \A y \in 0 .. Len(bytes) : Count(bytes, p, y) \in Nat
      /\ \A y \in 1 .. Len(bytes) :
           Count(bytes, p, y) = Count(bytes, p, y - 1) + (IF bytes[y] = p THEN 1 ELSE 0)
  BY CountNext
<1>3. x # n
  <2>1. P(n)
    BY <1>2
  <2>2. QED  BY <1>1, <2>1
<1>4. x \in n + 1 .. Len(bytes) /\ x - 1 \in n .. Len(bytes) /\ x - 1 \notin Bad
  <2>1. x \in n .. Len(bytes)
    BY <1>1
  <2> HIDE DEF Bad
  <2>2. QED  BY <1>1, <1>3, <2>1
<1>5. P(x - 1)
  BY <1>4
<1>6. /\ x \in 1 .. Len(bytes) /\ x - 1 \in 0 .. Len(bytes)
      /\ Count(bytes, p, x) = Count(bytes, p, x - 1) + (IF bytes[x] = p THEN 1 ELSE 0)
      /\ Count(bytes, p, x - 1) \in Nat /\ Count(bytes, p, n) \in Nat
  BY <1>2, <1>4
<1>7. /\ x \in n + 1 .. x
      /\ \A j \in n + 1 .. x - 1 : j \in n + 1 .. x
  BY <1>4
<1>8. P(x)
  <2>1. Count(bytes, p, n) <= Count(bytes, p, x)
    BY <1>5, <1>6
  <2>2. ASSUME \A j \in n + 1 .. x : bytes[j] # p
        PROVE  Count(bytes, p, x) = Count(bytes, p, n)
    BY <1>5, <1>6, <1>7, <2>2
  <2>3. QED  BY <2>1, <2>2
<1>9. QED  BY <1>1, <1>8

-----------------------------------------------------------------------------
(* The logtype, token by token.                                            *)

LogtypePieces(m) ==
  [k \in DOMAIN m |->
    CASE m[k].kind = "text" -> Utf8(m[k].chars)
      [] m[k].kind = "dictionary" -> <<DictionaryPlaceholder>>
      [] m[k].kind = "encoded" -> <<EncodedPlaceholder>>]

PlaceholderOf(kind) ==
  IF kind = "dictionary" THEN DictionaryPlaceholder ELSE EncodedPlaceholder

LEMMA LogtypePiecesTyped ==
  ASSUME NEW m \in Messages
  PROVE  /\ LogtypePieces(m) \in Seq(Seq(Bytes)) /\ Len(LogtypePieces(m)) = Len(m)
         /\ LogtypeOf(m) = FlattenSeq(LogtypePieces(m))
         /\ LogtypeOf(m) \in Seq(Bytes) /\ LogtypeOf(m) \in Seq(Nat)
         /\ \A k \in 1 .. Len(m) :
              LogtypePieces(m)[k] = IF m[k].kind = "text" THEN TokenBytes(m)[k]
                                    ELSE <<PlaceholderOf(m[k].kind)>>
<1>1. /\ Len(m) \in Nat /\ DOMAIN m = 1 .. Len(m)
      /\ \A k \in 1 .. Len(m) : m[k].kind \in Kinds
      /\ \A k \in 1 .. Len(m) : m[k].chars \in Seq(Chars)
      /\ \A k \in 1 .. Len(m) : TokenBytes(m)[k] = Utf8(m[k].chars)
  BY MessageTyped, TokenBytesTyped
<1>2. ASSUME NEW k \in 1 .. Len(m)
      PROVE  LogtypePieces(m)[k] = IF m[k].kind = "text" THEN TokenBytes(m)[k]
                                   ELSE <<PlaceholderOf(m[k].kind)>>
  BY <1>1 DEF LogtypePieces, PlaceholderOf, Kinds
<1>3. ASSUME NEW k \in 1 .. Len(m) PROVE LogtypePieces(m)[k] \in Seq(Bytes)
  <2>1. PlaceholderOf(m[k].kind) \in Bytes
    BY Characters DEF PlaceholderOf, Placeholders
  <2>2. <<PlaceholderOf(m[k].kind)>> \in Seq(Bytes)
    BY <2>1
  <2>3. TokenBytes(m)[k] \in Seq(Bytes)
    BY <1>1, Utf8Type
  <2>4. QED  BY <1>2, <2>2, <2>3
<1>4. LogtypePieces(m) = [k \in 1 .. Len(m) |-> LogtypePieces(m)[k]]
  <2> DEFINE F(k) == CASE m[k].kind = "text" -> Utf8(m[k].chars)
                       [] m[k].kind = "dictionary" -> <<DictionaryPlaceholder>>
                       [] m[k].kind = "encoded" -> <<EncodedPlaceholder>>
  <2>1. LogtypePieces(m) = [k \in 1 .. Len(m) |-> F(k)]
    BY <1>1 DEF LogtypePieces
  <2> HIDE DEF F
  <2>2. QED  BY <2>1
<1>5. LogtypePieces(m) \in Seq(Seq(Bytes)) /\ Len(LogtypePieces(m)) = Len(m)
  BY <1>1, <1>3, <1>4
<1>6. LogtypeOf(m) = FlattenSeq(LogtypePieces(m))
  BY DEF LogtypeOf, LogtypePieces
<1>7. LogtypeOf(m) \in Seq(Bytes)
  BY <1>5, <1>6, FlattenType
<1>8. LogtypeOf(m) \in Seq(Nat)
  BY <1>7, Characters, SeqMonotonic
<1>9. QED  BY <1>2, <1>5, <1>6, <1>7, <1>8

(* The bytes of text that has no placeholders are none.                    *)
LEMMA TextIsPlain ==
  ASSUME NEW m \in Messages, ~HasPlaceholders(m),
         NEW k \in 1 .. Len(m), m[k].kind = "text"
  PROVE  \A j \in 1 .. Len(TokenBytes(m)[k]) : TokenBytes(m)[k][j] \notin Placeholders
<1> DEFINE chars == m[k].chars
           C == Chars \ Placeholders
<1>1. chars \in Seq(Chars) /\ k \in DOMAIN m
  BY MessageTyped
<1>2. \A j \in DOMAIN chars : chars[j] \notin Placeholders
  BY <1>1 DEF HasPlaceholders
<1>3. chars \in Seq(C)
  <2> HIDE DEF chars
  <2>1. chars = [j \in 1 .. Len(chars) |-> chars[j]] /\ DOMAIN chars = 1 .. Len(chars)
    BY <1>1
  <2>2. \A j \in 1 .. Len(chars) : chars[j] \in C
    BY <1>1, <1>2, <2>1
  <2> HIDE DEF C
  <2>3. [j \in 1 .. Len(chars) |-> chars[j]] \in Seq(C)
    BY <1>1, <2>2
  <2>4. QED  BY <2>1, <2>3, Zenon
<1>4. TokenBytes(m)[k] \in Seq(C \cup {Continuation})
  <2>1. TokenBytes(m)[k] = Utf8(chars)
    BY TokenBytesTyped
  <2>2. Utf8(chars) \in Seq(C \cup {Continuation})
    BY <1>3, Utf8Within
  <2>3. QED  BY <2>1, <2>2
<1> DEFINE x == TokenBytes(m)[k]
<1> HIDE DEF x
<1>5. \A j \in 1 .. Len(x) : x[j] \in C \cup {Continuation}
  BY <1>4, ElementOfSeq DEF x
<1>6. QED  BY <1>5, Characters DEF x

(* Where a token's part of the logtype is, and which bytes it is.          *)
LEMMA LogtypeAt ==
  ASSUME NEW m \in Messages, NEW n \in 1 .. Len(m)
  PROVE  LET x == LogtypePieces(m)[n]
             b == EndOf(LogtypePieces(m), n - 1)
         IN  /\ b \in Nat /\ EndOf(LogtypePieces(m), n) = b + Len(x)
             /\ b + Len(x) <= Len(LogtypeOf(m)) /\ x \in Seq(Bytes)
             /\ \A j \in 1 .. Len(x) : LogtypeOf(m)[b + j] = x[j]
<1>1. /\ LogtypePieces(m) \in Seq(Seq(Bytes)) /\ n \in 1 .. Len(LogtypePieces(m))
      /\ LogtypeOf(m) = FlattenSeq(LogtypePieces(m))
  BY LogtypePiecesTyped
<1>2. /\ EndOf(LogtypePieces(m), n - 1) \in Nat
      /\ EndOf(LogtypePieces(m), n)
           = EndOf(LogtypePieces(m), n - 1) + Len(LogtypePieces(m)[n])
      /\ EndOf(LogtypePieces(m), n) <= Len(LogtypeOf(m))
      /\ LogtypePieces(m)[n] \in Seq(Bytes)
  BY <1>1, FlattenPiece
<1>3. \A j \in 1 .. Len(LogtypePieces(m)[n]) :
        LogtypeOf(m)[EndOf(LogtypePieces(m), n - 1) + j] = LogtypePieces(m)[n][j]
  BY <1>1, FlattenAt
<1>4. QED  BY <1>2, <1>3

(* The placeholders of a kind in the first tokens' part of the logtype are *)
(* as many as these tokens have variables of the kind.                     *)
LEMMA PlaceholdersCounted ==
  ASSUME NEW m \in Messages, ~HasPlaceholders(m),
         NEW kind \in {"dictionary", "encoded"}, NEW n \in 0 .. Len(m)
  PROVE  /\ EndOf(LogtypePieces(m), n) \in 0 .. Len(LogtypeOf(m))
         /\ Count(LogtypeOf(m), PlaceholderOf(kind), EndOf(LogtypePieces(m), n))
              = Len(Found(TokenKinds(m), {kind}, n))
<1> DEFINE lt == LogtypeOf(m)
           LP == LogtypePieces(m)
           p == PlaceholderOf(kind)
           kinds == TokenKinds(m)
           P(k) == /\ EndOf(LP, k) \in 0 .. Len(lt)
                   /\ Count(lt, p, EndOf(LP, k)) = Len(Found(kinds, {kind}, k))
           Bad == {k \in 0 .. Len(m) : ~P(k)}
<1> SUFFICES ASSUME Bad # {} PROVE FALSE
  OBVIOUS
<1>1. PICK k \in Bad : \A x \in Bad : k <= x
  <2>1. Bad \in SUBSET Nat
    OBVIOUS
  <2> HIDE DEF Bad
  <2>2. QED  BY <2>1, Least
<1>2. lt \in Seq(Nat) /\ Len(lt) \in Nat /\ LP \in Seq(Seq(Bytes)) /\ Len(LP) = Len(m)
  <2>1. lt \in Seq(Nat) /\ LP \in Seq(Seq(Bytes)) /\ Len(LP) = Len(m)
    BY LogtypePiecesTyped
  <2>2. QED  BY <2>1, LenProperties
<1>3. /\ kinds \in Seq(Kinds) /\ Len(kinds) = Len(m)
      /\ \A x \in 1 .. Len(m) : kinds[x] = m[x].kind /\ kinds[x] \in Kinds
  BY TokenKindsTyped, MessageTyped
<1>4. k # 0
  <2>1. EndOf(LP, 0) = 0
    BY <1>2, EndOfFirst
  <2>2. Count(lt, p, 0) = 0
    BY <1>2, CountNext
  <2>3. Found(kinds, {kind}, 0) = <<>> /\ Len(<<>>) = 0
    BY <1>3, FoundFirst
  <2> HIDE DEF lt, LP, p, kinds
  <2>4. P(0)
    BY <1>2, <2>1, <2>2, <2>3
  <2>5. QED  BY <1>1, <2>4
<1>5. k \in 1 .. Len(m) /\ k - 1 \in 0 .. Len(m) /\ P(k - 1)
  <2>1. k \in 0 .. Len(m)
    BY <1>1
  <2>2. Len(m) \in Nat
    BY MessageTyped
  <2>3. k \in 1 .. Len(m) /\ k - 1 \in 0 .. Len(m) /\ k - 1 \notin Bad
    <3> HIDE DEF Bad
    <3>1. QED  BY <1>1, <1>4, <2>1, <2>2
  <2> HIDE DEF P
  <2>4. QED  BY <2>3
<1> DEFINE x == LP[k]
           b == EndOf(LP, k - 1)
           e == EndOf(LP, k)
<1>6. /\ b \in Nat /\ e = b + Len(x) /\ b + Len(x) <= Len(lt) /\ x \in Seq(Bytes)
      /\ \A j \in 1 .. Len(x) : lt[b + j] = x[j]
  BY <1>5, LogtypeAt
<1>7. Len(x) \in Nat
  BY <1>6, LenProperties
<1>8. x = IF m[k].kind = "text" THEN TokenBytes(m)[k] ELSE <<PlaceholderOf(m[k].kind)>>
  BY <1>5, LogtypePiecesTyped
<1>9. Found(kinds, {kind}, k) = IF kinds[k] \in {kind}
                                THEN Append(Found(kinds, {kind}, k - 1), k)
                                ELSE Found(kinds, {kind}, k - 1)
  <2> HIDE DEF lt, LP, p, kinds, P, Bad
  <2>1. k \in 1 .. Len(kinds)
    BY <1>3, <1>5
  <2>2. kinds \in Seq(Kinds)
    BY <1>3
  <2>3. \A y \in 1 .. Len(kinds) :
          Found(kinds, {kind}, y) = IF kinds[y] \in {kind}
                                    THEN Append(Found(kinds, {kind}, y - 1), y)
                                    ELSE Found(kinds, {kind}, y - 1)
    BY <2>2, FoundNext
  <2>4. QED  BY <2>1, <2>3
<1>10. kinds[k] = m[k].kind /\ m[k].kind \in Kinds
  BY <1>3, <1>5
<1>11. Count(lt, p, b) = Len(Found(kinds, {kind}, k - 1)) /\ b \in 0 .. Len(lt)
  BY <1>5
<1>12. Found(kinds, {kind}, k - 1) \in Seq(Nat)
  <2>1. Found(kinds, {kind}, k - 1) \in Seq({y \in 1 .. Len(kinds) : kinds[y] \in {kind}})
    BY <1>3, <1>5, FoundType
  <2>2. QED  BY <2>1
<1>13. e \in 0 .. Len(lt) /\ e \in b .. Len(lt)
  <2> HIDE DEF x, b, e, lt
  <2>1. QED  BY <1>2, <1>6, <1>7
<1>14. CASE m[k].kind = kind
  <2>1. x = <<p>>
    BY <1>8, <1>14
  <2>2. Len(x) = 1 /\ x[1] = p
    BY <2>1
  <2> HIDE DEF x, b, e, lt, p, LP, kinds
  <2>3. e \in 1 .. Len(lt) /\ e - 1 = b /\ lt[e] = p
    <3>1. 1 \in 1 .. Len(x)
      BY <2>2
    <3>2. QED  BY <1>2, <1>6, <2>2, <3>1
  <2>4. Count(lt, p, e) = Count(lt, p, e - 1) + (IF lt[e] = p THEN 1 ELSE 0)
    BY <1>2, <2>3, CountNext
  <2>5. Count(lt, p, e) = Count(lt, p, b) + 1
    BY <2>3, <2>4
  <2>6. Len(Found(kinds, {kind}, k)) = Len(Found(kinds, {kind}, k - 1)) + 1
    BY <1>5, <1>9, <1>10, <1>12, <1>14, AppendProperties
  <2>7. Count(lt, p, e) = Len(Found(kinds, {kind}, k))
    BY <1>11, <2>5, <2>6
  <2>8. P(k)
    BY <1>13, <2>7 DEF e
  <2>9. QED  BY <1>1, <2>8
<1>15. CASE m[k].kind # kind
  <2>1. \A j \in 1 .. Len(x) : x[j] # p
    <3>1. CASE m[k].kind = "text"
      <4>1. \A j \in 1 .. Len(x) : x[j] \notin Placeholders
        BY <1>5, <1>8, <3>1, TextIsPlain
      <4>2. p \in Placeholders
        BY DEF PlaceholderOf, Placeholders
      <4>3. QED  BY <4>1, <4>2
    <3>2. CASE m[k].kind # "text"
      <4>1. x = <<PlaceholderOf(m[k].kind)>>
        BY <1>8, <3>2
      <4>2. PlaceholderOf(m[k].kind) # p
        BY <1>10, <1>15, <3>2
           DEF Kinds, PlaceholderOf, DictionaryPlaceholder, EncodedPlaceholder
      <4> HIDE DEF p, x
      <4>3. QED  BY <4>1, <4>2
    <3>3. QED  BY <3>1, <3>2
  <2> HIDE DEF x, b, e, lt, p, LP, kinds
  <2>2. ASSUME NEW i \in b + 1 .. e PROVE lt[i] # p
    <3>1. i - b \in 1 .. Len(x) /\ b + (i - b) = i
      BY <1>6, <1>7
    <3>2. QED  BY <1>6, <2>1, <3>1
  <2>3. Count(lt, p, e) = Count(lt, p, b)
    BY <1>2, <1>11, <1>13, <2>2, CountGrows
  <2>4. Found(kinds, {kind}, k) = Found(kinds, {kind}, k - 1)
    BY <1>9, <1>10, <1>15
  <2>5. Count(lt, p, e) = Len(Found(kinds, {kind}, k))
    BY <1>11, <2>3, <2>4
  <2>6. P(k)
    BY <1>13, <2>5 DEF e
  <2>7. QED  BY <1>1, <2>6
<1>16. QED  BY <1>14, <1>15

-----------------------------------------------------------------------------
(* What is decoded, token by token.                                        *)

Decoded(lt, dictVars, encVars) ==
  [k \in DOMAIN lt |->
    CASE lt[k] = DictionaryPlaceholder -> dictVars[Count(lt, DictionaryPlaceholder, k)]
      [] lt[k] = EncodedPlaceholder -> encVars[Count(lt, EncodedPlaceholder, k)]
      [] OTHER -> <<lt[k]>>]

(* There are variables for all placeholders.                               *)
Enough(lt, dictVars, encVars) ==
  /\ Count(lt, DictionaryPlaceholder, Len(lt)) <= Len(dictVars)
  /\ Count(lt, EncodedPlaceholder, Len(lt)) <= Len(encVars)

LEMMA DecodesOrNot ==
  ASSUME NEW lt \in Seq(Nat), NEW dictVars \in Seq(Seq(Nat)), NEW encVars \in Seq(Seq(Nat))
  PROVE  DecodeMessageNative(lt, dictVars, encVars)
           = IF Enough(lt, dictVars, encVars) THEN FlattenSeq(Decoded(lt, dictVars, encVars))
             ELSE Null
<1>1. Len(lt) \in 0 .. Len(lt) /\ Len(dictVars) \in Nat /\ Len(encVars) \in Nat
  OBVIOUS
<1>2. /\ Count(lt, DictionaryPlaceholder, Len(lt)) \in Nat
      /\ Count(lt, EncodedPlaceholder, Len(lt)) \in Nat
  BY <1>1, CountNext
<1>3. Enough(lt, dictVars, encVars)
        <=> ~(\/ Count(lt, DictionaryPlaceholder, Len(lt)) > Len(dictVars)
              \/ Count(lt, EncodedPlaceholder, Len(lt)) > Len(encVars))
  BY <1>1, <1>2 DEF Enough
<1>4. CASE Enough(lt, dictVars, encVars)
  BY <1>3, <1>4, Zenon DEF DecodeMessageNative, Decoded
<1>5. CASE ~Enough(lt, dictVars, encVars)
  BY <1>3, <1>5, Zenon DEF DecodeMessageNative
<1>6. QED  BY <1>4, <1>5

(* A placeholder takes one of the variables, if there are enough.          *)
LEMMA PlaceholderTakes ==
  ASSUME NEW lt \in Seq(Nat), NEW p, NEW n \in Nat, Count(lt, p, Len(lt)) <= n,
         NEW k \in 1 .. Len(lt), lt[k] = p
  PROVE  Count(lt, p, k) \in 1 .. n
<1>1. k \in 0 .. Len(lt) /\ k - 1 \in 0 .. Len(lt) /\ Len(lt) \in k .. Len(lt)
  OBVIOUS
<1>2. /\ Count(lt, p, k - 1) \in Nat /\ Count(lt, p, k) \in Nat
      /\ Count(lt, p, k) = Count(lt, p, k - 1) + (IF lt[k] = p THEN 1 ELSE 0)
  BY <1>1, CountNext
<1>3. Count(lt, p, k) <= Count(lt, p, Len(lt)) /\ Count(lt, p, Len(lt)) \in Nat
  <2>1. Count(lt, p, k) <= Count(lt, p, Len(lt))
    BY <1>1, CountGrows
  <2>2. Len(lt) \in 0 .. Len(lt)
    OBVIOUS
  <2>3. QED  BY <2>1, <2>2, CountNext
<1>4. QED  BY <1>2, <1>3

LEMMA DecodedTyped ==
  ASSUME NEW lt \in Seq(Nat), NEW dictVars \in Seq(Seq(Nat)), NEW encVars \in Seq(Seq(Nat)),
         Enough(lt, dictVars, encVars)
  PROVE  /\ Decoded(lt, dictVars, encVars) \in Seq(Seq(Nat))
         /\ Len(Decoded(lt, dictVars, encVars)) = Len(lt)
         /\ \A k \in 1 .. Len(lt) :
              /\ lt[k] \notin Placeholders => Decoded(lt, dictVars, encVars)[k] = <<lt[k]>>
              /\ lt[k] = DictionaryPlaceholder =>
                   Decoded(lt, dictVars, encVars)[k]
                     = dictVars[Count(lt, DictionaryPlaceholder, k)]
              /\ lt[k] = EncodedPlaceholder =>
                   Decoded(lt, dictVars, encVars)[k]
                     = encVars[Count(lt, EncodedPlaceholder, k)]
<1> DEFINE D == Decoded(lt, dictVars, encVars)
           d(k) == dictVars[Count(lt, DictionaryPlaceholder, k)]
           e(k) == encVars[Count(lt, EncodedPlaceholder, k)]
           F(k) == CASE lt[k] = DictionaryPlaceholder -> d(k)
                     [] lt[k] = EncodedPlaceholder -> e(k)
                     [] OTHER -> <<lt[k]>>
<1>1. DOMAIN lt = 1 .. Len(lt) /\ Len(lt) \in Nat
  OBVIOUS
<1>2. ASSUME NEW k \in 1 .. Len(lt)
      PROVE  /\ lt[k] \notin Placeholders => F(k) = <<lt[k]>>
             /\ lt[k] = DictionaryPlaceholder => F(k) = d(k)
             /\ lt[k] = EncodedPlaceholder => F(k) = e(k)
  <2> HIDE DEF d, e
  <2>1. QED  BY DEF Placeholders, DictionaryPlaceholder, EncodedPlaceholder
<1>3. ASSUME NEW k \in 1 .. Len(lt) PROVE F(k) \in Seq(Nat)
  <2>1. lt[k] = DictionaryPlaceholder => d(k) \in Seq(Nat)
    <3>1. SUFFICES ASSUME lt[k] = DictionaryPlaceholder PROVE d(k) \in Seq(Nat)
      OBVIOUS
    <3>2. Len(dictVars) \in Nat /\ Count(lt, DictionaryPlaceholder, Len(lt)) <= Len(dictVars)
      BY DEF Enough
    <3>3. Count(lt, DictionaryPlaceholder, k) \in 1 .. Len(dictVars)
      BY <3>1, <3>2, PlaceholderTakes
    <3>4. QED  BY <3>3
  <2>2. lt[k] = EncodedPlaceholder => e(k) \in Seq(Nat)
    <3>1. SUFFICES ASSUME lt[k] = EncodedPlaceholder PROVE e(k) \in Seq(Nat)
      OBVIOUS
    <3>2. Len(encVars) \in Nat /\ Count(lt, EncodedPlaceholder, Len(lt)) <= Len(encVars)
      BY DEF Enough
    <3>3. Count(lt, EncodedPlaceholder, k) \in 1 .. Len(encVars)
      BY <3>1, <3>2, PlaceholderTakes
    <3>4. QED  BY <3>3
  <2>3. lt[k] \in Nat /\ <<lt[k]>> \in Seq(Nat)
    OBVIOUS
  <2> HIDE DEF F, d, e
  <2>4. \/ lt[k] \notin Placeholders
        \/ lt[k] = DictionaryPlaceholder \/ lt[k] = EncodedPlaceholder
    BY DEF Placeholders
  <2>5. QED  BY <1>2, <2>1, <2>2, <2>3, <2>4
<1>4. D = [k \in 1 .. Len(lt) |-> F(k)]
  BY <1>1 DEF Decoded
<1> HIDE DEF F, D
<1>5. D \in Seq(Seq(Nat)) /\ Len(D) = Len(lt) /\ \A k \in 1 .. Len(lt) : D[k] = F(k)
  <2>1. \A k \in 1 .. Len(lt) : F(k) \in Seq(Nat)
    BY <1>3
  <2>2. \A k \in 1 .. Len(lt) : D[k] = F(k)
    BY <1>4
  <2>3. D \in [1 .. Len(lt) -> Seq(Nat)]
    BY <1>4, <2>1
  <2>4. D \in Seq(Seq(Nat)) /\ Len(D) = Len(lt)
    <3> DEFINE n == Len(lt)
               S == Seq(Nat)
    <3>1. n \in Nat /\ D \in [1 .. n -> S]
      BY <1>1, <2>3
    <3> HIDE DEF n, S
    <3>2. D \in Seq(S) /\ Len(D) = n
      BY <3>1
    <3>3. QED  BY <3>2 DEF n, S
  <2>5. QED  BY <2>2, <2>4
<1>6. QED  BY <1>2, <1>5 DEF D

(* The last of the variables found up to a token is the token.             *)
LEMMA TokenFound ==
  ASSUME NEW m \in Messages, NEW n \in 1 .. Len(m)
  PROVE  LET q == Len(Found(TokenKinds(m), {m[n].kind}, n))
         IN  /\ q \in 1 .. Len(TokensOf(m, m[n].kind))
             /\ TokensOf(m, m[n].kind)[q] = n
<1> DEFINE kinds == TokenKinds(m)
           K == {m[n].kind}
           f == Found(kinds, K, n)
           g == Found(kinds, K, n - 1)
           all == Found(kinds, K, Len(m))
<1>1. /\ kinds \in Seq(Kinds) /\ Len(kinds) = Len(m) /\ kinds[n] \in K
      /\ n - 1 \in 0 .. Len(m) /\ n \in 0 .. Len(m) /\ Len(m) \in n .. Len(m)
  BY TokenKindsTyped, MessageTyped
<1> HIDE DEF kinds, K
<1>2. f = Append(g, n)
  BY <1>1, FoundNext
<1>3. g \in Seq(Nat)
  <2>1. g \in Seq({y \in 1 .. Len(kinds) : kinds[y] \in K})
    BY <1>1, FoundType
  <2>2. QED  BY <2>1
<1>4. /\ Len(f) <= Len(all)
      /\ \A k \in 1 .. Len(f) : all[k] = f[k]
  BY <1>1, FoundKeeps
<1>5. all = TokensOf(m, m[n].kind) /\ Len(all) \in Nat
  BY TokensFound DEF kinds, K
<1> HIDE DEF f, g, all
<1>6. Len(f) = Len(g) + 1 /\ Len(g) \in Nat /\ f[Len(g) + 1] = n
  BY <1>1, <1>2, <1>3, AppendProperties
<1>7. Len(f) \in 1 .. Len(f) /\ Len(f) \in 1 .. Len(all) /\ f[Len(f)] = n
  BY <1>4, <1>5, <1>6
<1>8. Len(f) \in 1 .. Len(TokensOf(m, m[n].kind)) /\ TokensOf(m, m[n].kind)[Len(f)] = n
  BY <1>4, <1>5, <1>7
<1>9. QED  BY <1>8 DEF f, kinds, K

LEMMA EnoughVariables ==
  ASSUME NEW m \in Messages, ~HasPlaceholders(m), NEW dictVars, NEW encVars
  PROVE  /\ Enough(LogtypeOf(m), dictVars, encVars)
              <=> /\ Len(BytesOf(m, "dictionary")) <= Len(dictVars)
                  /\ Len(BytesOf(m, "encoded")) <= Len(encVars)
<1>1. EndOf(LogtypePieces(m), Len(m)) = Len(LogtypeOf(m))
  BY LogtypePiecesTyped, EndOfFirst
<1>2. Len(m) \in 0 .. Len(m)
  BY MessageTyped
<1>3. ASSUME NEW kind \in {"dictionary", "encoded"}
      PROVE  Count(LogtypeOf(m), PlaceholderOf(kind), Len(LogtypeOf(m)))
               = Len(BytesOf(m, kind))
  <2>1. Count(LogtypeOf(m), PlaceholderOf(kind), EndOf(LogtypePieces(m), Len(m)))
          = Len(Found(TokenKinds(m), {kind}, Len(m)))
    BY <1>2, PlaceholdersCounted
  <2>2. Found(TokenKinds(m), {kind}, Len(m)) = TokensOf(m, kind)
    BY TokensFound
  <2>3. Len(BytesOf(m, kind)) = Len(TokensOf(m, kind))
    BY VariablesTyped
  <2>4. QED  BY <1>1, <2>1, <2>2, <2>3
<1>4. /\ PlaceholderOf("dictionary") = DictionaryPlaceholder
      /\ PlaceholderOf("encoded") = EncodedPlaceholder
  BY DEF PlaceholderOf
<1>5. /\ Count(LogtypeOf(m), DictionaryPlaceholder, Len(LogtypeOf(m)))
           = Len(BytesOf(m, "dictionary"))
      /\ Count(LogtypeOf(m), EncodedPlaceholder, Len(LogtypeOf(m)))
           = Len(BytesOf(m, "encoded"))
  BY <1>3, <1>4
<1>6. QED  BY <1>5 DEF Enough

(* What the message's own variables are decoded to, token by token, is the *)
(* message.                                                                *)
LEMMA DecodedSoFar ==
  ASSUME NEW m \in Messages, ~HasPlaceholders(m), NEW n \in 0 .. Len(m)
  PROVE  FlattenSeq(SubSeq(Decoded(LogtypeOf(m), BytesOf(m, "dictionary"),
                                   BytesOf(m, "encoded")),
                           1, EndOf(LogtypePieces(m), n)))
           = FlattenSeq(SubSeq(TokenBytes(m), 1, n))
<1> DEFINE lt == LogtypeOf(m)
           dv == BytesOf(m, "dictionary")
           ev == BytesOf(m, "encoded")
           D == Decoded(lt, dv, ev)
           LP == LogtypePieces(m)
           TB == TokenBytes(m)
           P(k) == FlattenSeq(SubSeq(D, 1, EndOf(LP, k))) = FlattenSeq(SubSeq(TB, 1, k))
           Bad == {k \in 0 .. Len(m) : ~P(k)}
<1> SUFFICES ASSUME Bad # {} PROVE FALSE
  OBVIOUS
<1>1. PICK k \in Bad : \A x \in Bad : k <= x
  <2>1. Bad \in SUBSET Nat
    OBVIOUS
  <2> HIDE DEF Bad
  <2>2. QED  BY <2>1, Least
<1>2. /\ lt \in Seq(Nat) /\ Len(lt) \in Nat /\ LP \in Seq(Seq(Bytes)) /\ Len(LP) = Len(m)
      /\ TB \in Seq(Seq(Nat)) /\ Len(TB) = Len(m)
      /\ dv \in Seq(Seq(Nat)) /\ ev \in Seq(Seq(Nat))
  <2>1. lt \in Seq(Nat) /\ LP \in Seq(Seq(Bytes)) /\ Len(LP) = Len(m)
    BY LogtypePiecesTyped
  <2>2. TB \in Seq(Seq(Nat)) /\ Len(TB) = Len(m)
    BY TokenBytesNat, TokenBytesTyped
  <2>3. dv \in Seq(Seq(Nat)) /\ ev \in Seq(Seq(Nat))
    BY VariablesTyped
  <2>4. QED  BY <2>1, <2>2, <2>3, LenProperties
<1>3. Enough(lt, dv, ev)
  <2>1. Len(dv) <= Len(dv) /\ Len(ev) <= Len(ev)
    <3> HIDE DEF dv, ev
    <3>1. Len(dv) \in Nat /\ Len(ev) \in Nat
      BY <1>2
    <3>2. QED  BY <3>1
  <2>2. QED  BY <2>1, EnoughVariables
<1>4. /\ D \in Seq(Seq(Nat)) /\ Len(D) = Len(lt)
      /\ \A j \in 1 .. Len(lt) :
           /\ lt[j] \notin Placeholders => D[j] = <<lt[j]>>
           /\ lt[j] = DictionaryPlaceholder => D[j] = dv[Count(lt, DictionaryPlaceholder, j)]
           /\ lt[j] = EncodedPlaceholder => D[j] = ev[Count(lt, EncodedPlaceholder, j)]
  BY <1>2, <1>3, DecodedTyped
<1>5. k # 0
  <2>1. EndOf(LP, 0) = 0
    BY <1>2, EndOfFirst
  <2> HIDE DEF LP, D, TB
  <2>2. SubSeq(D, 1, 0) = <<>> /\ SubSeq(TB, 1, 0) = <<>>
    BY <1>2, <1>4, SubSeqEmpty
  <2>3. P(0)
    BY <2>1, <2>2
  <2>4. QED  BY <1>1, <2>3
<1>6. k \in 1 .. Len(m) /\ k - 1 \in 0 .. Len(m) /\ P(k - 1)
  <2>1. k \in 0 .. Len(m)
    BY <1>1
  <2>2. Len(m) \in Nat
    BY MessageTyped
  <2>3. k \in 1 .. Len(m) /\ k - 1 \in 0 .. Len(m) /\ k - 1 \notin Bad
    <3> HIDE DEF Bad
    <3>1. QED  BY <1>1, <1>5, <2>1, <2>2
  <2> HIDE DEF P
  <2>4. QED  BY <2>3
<1> DEFINE x == LP[k]
           b == EndOf(LP, k - 1)
           e == EndOf(LP, k)
           prefix(i) == FlattenSeq(SubSeq(D, 1, i))
<1>7. /\ b \in Nat /\ e = b + Len(x) /\ b + Len(x) <= Len(lt) /\ x \in Seq(Bytes)
      /\ \A j \in 1 .. Len(x) : lt[b + j] = x[j]
  BY <1>6, LogtypeAt
<1>8. Len(x) \in Nat /\ x \in Seq(Nat)
  BY <1>7, LenProperties, Characters, SeqMonotonic
<1>9. x = IF m[k].kind = "text" THEN TB[k] ELSE <<PlaceholderOf(m[k].kind)>>
  BY <1>6, LogtypePiecesTyped
<1>10. FlattenSeq(SubSeq(TB, 1, k)) = FlattenSeq(SubSeq(TB, 1, k - 1)) \o TB[k]
  BY <1>2, <1>6, FlattenPrefix
<1>11. SUFFICES prefix(e) = prefix(b) \o TB[k]
  <2>1. prefix(b) = FlattenSeq(SubSeq(TB, 1, k - 1))
    BY <1>6
  <2>2. P(k)
    BY <1>10, <1>11, <2>1
  <2>3. QED  BY <1>1, <2>2
<1>12. CASE m[k].kind = "text"
  <2>1. \A j \in 1 .. Len(x) : x[j] \notin Placeholders
    BY <1>6, <1>9, <1>12, TextIsPlain
  <2>2. x = TB[k]
    BY <1>9, <1>12
  <2> HIDE DEF x, b, e, lt, LP, TB, D
  <2>3. \A j \in 1 .. Len(x) : D[b + j] = <<x[j]>>
    <3> TAKE j \in 1 .. Len(x)
    <3>1. b + j \in 1 .. Len(lt)
      BY <1>2, <1>7, <1>8
    <3>2. lt[b + j] = x[j] /\ lt[b + j] \notin Placeholders
      BY <1>7, <2>1
    <3>3. QED  BY <1>4, <3>1, <3>2
  <2>4. b + Len(x) <= Len(D) /\ b \in Nat
    BY <1>4, <1>7
  <2>5. FlattenSeq(SubSeq(D, 1, b + Len(x))) = FlattenSeq(SubSeq(D, 1, b)) \o x
    BY <1>4, <1>8, <2>3, <2>4, FlattenSingles
  <2>6. QED  BY <1>7, <2>2, <2>5
<1>13. CASE m[k].kind # "text"
  <2> DEFINE kind == m[k].kind
             p == PlaceholderOf(kind)
             V == BytesOf(m, kind)
  <2>1. kind \in {"dictionary", "encoded"}
    BY <1>6, <1>13, MessageTyped DEF Kinds
  <2>2. Len(x) = 1 /\ x[1] = p
    BY <1>9, <1>13
  <2>3. e \in 1 .. Len(lt) /\ e - 1 = b /\ lt[e] = p /\ e \in 1 .. Len(D)
    <3> HIDE DEF x, b, e, lt, LP, D, p, kind
    <3>1. 1 \in 1 .. Len(x)
      BY <2>2
    <3>2. QED  BY <1>2, <1>4, <1>7, <2>2, <3>1
  <2>4. D[e] = V[Count(lt, p, e)]
    <3>1. CASE kind = "dictionary"
      <4>1. p = DictionaryPlaceholder /\ V = dv
        BY <3>1 DEF PlaceholderOf
      <4> HIDE DEF p, V, dv, ev, D, lt, e, kind
      <4>2. QED  BY <1>4, <2>3, <4>1
    <3>2. CASE kind = "encoded"
      <4>1. p = EncodedPlaceholder /\ V = ev
        BY <3>2 DEF PlaceholderOf
      <4> HIDE DEF p, V, dv, ev, D, lt, e, kind
      <4>2. QED  BY <1>4, <2>3, <4>1
    <3>3. QED  BY <2>1, <3>1, <3>2
  <2>5. V[Count(lt, p, e)] = TB[k]
    <3> DEFINE q == Len(Found(TokenKinds(m), {kind}, k))
    <3>1. Count(lt, p, e) = q
      <4>1. k \in 0 .. Len(m)
        BY <1>6
      <4>2. QED  BY <2>1, <4>1, PlaceholdersCounted
    <3>2. q \in 1 .. Len(TokensOf(m, kind)) /\ TokensOf(m, kind)[q] = k
      BY <1>6, TokenFound
    <3>3. \A i \in 1 .. Len(TokensOf(m, kind)) : V[i] = TB[TokensOf(m, kind)[i]]
      BY <2>1, VariablesTyped
    <3> HIDE DEF q, V, TB, kind, lt, p, e
    <3>4. QED  BY <3>1, <3>2, <3>3
  <2>6. prefix(e) = prefix(e - 1) \o D[e]
    <3>1. \A i \in 1 .. Len(D) : prefix(i) = prefix(i - 1) \o D[i]
      <4> HIDE DEF D
      <4>1. QED  BY <1>4, FlattenPrefix
    <3> HIDE DEF prefix, D, e
    <3>2. QED  BY <2>3, <3>1
  <2> HIDE DEF prefix, e, b, D, V, TB, lt, p
  <2>7. QED  BY <2>3, <2>4, <2>5, <2>6
<1>14. QED  BY <1>12, <1>13

(* decodeMessage of a message's logtype and variables gives its bytes, and *)
(* throws when the dictionary or the encoded variables are missing.        *)
LEMMA DecodesRight ==
  ASSUME NEW m \in Messages, ~HasPlaceholders(m),
         NEW dictVars \in {<<>>, BytesOf(m, "dictionary")},
         NEW encVars \in {<<>>, BytesOf(m, "encoded")}
  PROVE  DecodeMessageNative(LogtypeOf(m), dictVars, encVars)
           = IF dictVars = BytesOf(m, "dictionary") /\ encVars = BytesOf(m, "encoded")
             THEN FlattenSeq(TokenBytes(m)) ELSE Null
<1> DEFINE lt == LogtypeOf(m)
           dv == BytesOf(m, "dictionary")
           ev == BytesOf(m, "encoded")
           D == Decoded(lt, dv, ev)
           LP == LogtypePieces(m)
           TB == TokenBytes(m)
<1>1. lt \in Seq(Nat) /\ LP \in Seq(Seq(Bytes)) /\ Len(LP) = Len(m) /\ lt = FlattenSeq(LP)
  BY LogtypePiecesTyped
<1>2. TB \in Seq(Seq(Nat)) /\ Len(TB) = Len(m) /\ Len(m) \in 0 .. Len(m)
  BY TokenBytesNat, TokenBytesTyped, MessageTyped
<1>3. dv \in Seq(Seq(Nat)) /\ ev \in Seq(Seq(Nat))
  BY VariablesTyped
<1>4. dictVars \in Seq(Seq(Nat)) /\ encVars \in Seq(Seq(Nat))
  <2>1. <<>> \in Seq(Seq(Nat))
    OBVIOUS
  <2>2. QED  BY <1>3, <2>1
<1>5. DecodeMessageNative(lt, dictVars, encVars)
        = IF Enough(lt, dictVars, encVars) THEN FlattenSeq(Decoded(lt, dictVars, encVars))
          ELSE Null
  BY <1>1, <1>4, DecodesOrNot
<1>6. Enough(lt, dictVars, encVars) <=> Len(dv) <= Len(dictVars) /\ Len(ev) <= Len(encVars)
  BY EnoughVariables
<1>7. Enough(lt, dictVars, encVars) <=> dictVars = dv /\ encVars = ev
  <2>1. dictVars = <<>> \/ dictVars = dv
    OBVIOUS
  <2>2. encVars = <<>> \/ encVars = ev
    OBVIOUS
  <2> HIDE DEF dv, ev, lt
  <2>3. Len(dv) <= Len(dictVars) <=> dictVars = dv
    BY <1>3, <2>1
  <2>4. Len(ev) <= Len(encVars) <=> encVars = ev
    BY <1>3, <2>2
  <2>5. QED  BY <1>6, <2>3, <2>4
<1>8. CASE dictVars = dv /\ encVars = ev
  <2>1. FlattenSeq(SubSeq(D, 1, EndOf(LP, Len(m)))) = FlattenSeq(SubSeq(TB, 1, Len(m)))
    BY <1>2, DecodedSoFar
  <2>2. D \in Seq(Seq(Nat)) /\ Len(D) = Len(lt)
    BY <1>1, <1>3, <1>7, <1>8, DecodedTyped
  <2> HIDE DEF D, LP, TB, lt
  <2>3. EndOf(LP, Len(m)) = Len(D)
    BY <1>1, <2>2, EndOfFirst
  <2>4. SubSeq(D, 1, Len(D)) = D /\ SubSeq(TB, 1, Len(m)) = TB
    BY <1>2, <2>2, SubSeqFull
  <2>5. FlattenSeq(D) = FlattenSeq(TB)
    BY <2>1, <2>3, <2>4
  <2>6. QED  BY <1>5, <1>7, <1>8, <2>5 DEF D, lt, TB
<1>9. CASE ~(dictVars = dv /\ encVars = ev)
  BY <1>5, <1>7, <1>9
<1>10. QED  BY <1>8, <1>9

-----------------------------------------------------------------------------
(* The inductive invariant: what the object has is what it would have of   *)
(* the message it was last given, or nothing yet, and it has everything    *)
(* once encodeMessage has returned.                                        *)

Kept(x, y) == x # Null => x = y

(* What is empty is not set at all.                                        *)
Whole(x, y) == x = y \/ (x = Null /\ y = <<>>)

Blank ==
  /\ pc = "idle" /\ encoded = FALSE
  /\ message = Null /\ logtype = Null /\ encodedVars = Null
  /\ dictionaryVarBounds = Null /\ flattenedDictVars = Null

Complete(m) ==
  /\ logtype # Null
  /\ Whole(dictionaryVarBounds, DictVarBoundsOf(m))
  /\ Whole(encodedVars, EncodedVarsOf(m))

Holding(m) ==
  /\ message = FlattenSeq(TokenBytes(m))
  /\ Kept(logtype, LogtypeOf(m))
  /\ logtype # Null => ~HasPlaceholders(m)
  /\ Kept(encodedVars, EncodedVarsOf(m))
  /\ Kept(dictionaryVarBounds, DictVarBoundsOf(m))
  /\ Kept(flattenedDictVars, FromByteArrays(BytesOf(m, "dictionary")))
  /\ flattenedDictVars # Null => dictionaryVarBounds # Null
  /\ pc \in {"dictVarBounds", "encodedVars"} => logtype # Null
  /\ pc = "encodedVars" => Whole(dictionaryVarBounds, DictVarBoundsOf(m))
  /\ encoded = TRUE => Complete(m)

IInv ==
  /\ pc \in {"idle", "encode", "dictVarBounds", "encodedVars"}
  /\ encoded \in BOOLEAN
  /\ source \in Messages \cup {Null}
  /\ source = Null => Blank
  /\ source # Null => Holding(source)

(* What a message's fields are is never null.                              *)
LEMMA FieldsAreNotNull ==
  ASSUME NEW m \in Messages
  PROVE  /\ m # Null /\ LogtypeOf(m) # Null /\ EncodedVarsOf(m) # Null
         /\ DictVarBoundsOf(m) # Null /\ BytesOf(m, "dictionary") # Null
<1>1. m # Null
  BY EncodedMessageAssumption
<1>2. LogtypeOf(m) \in Seq(Nat)
  BY LogtypePiecesTyped
<1>3. DictVarBoundsOf(m) \in Seq(Nat)
  BY BoundsAre
<1>4. BytesOf(m, "dictionary") \in Seq(Seq(Nat)) /\ EncodedVarsOf(m) \in Seq(Seq(Nat))
  BY VariablesTyped, EncodedVarsAreBytes
<1>5. QED  BY <1>1, <1>2, <1>3, <1>4, NothingIsNull

(* What the accessors return.                                              *)
LEMMA AccessorsRead ==
  ASSUME NEW m \in Messages, Holding(m)
  PROVE  /\ dictionaryVarBounds = Null =>
              /\ getDictionaryVarsAsFlattenedByteArray = Null
              /\ getDictionaryVarsAsByteArrays = Null
              /\ getDictionaryVarsAsStrings = Null
         /\ dictionaryVarBounds # Null =>
              /\ getDictionaryVarsAsFlattenedByteArray
                   = FromByteArrays(BytesOf(m, "dictionary"))
              /\ getDictionaryVarsAsByteArrays = BytesOf(m, "dictionary")
              /\ getDictionaryVarsAsStrings = BytesOf(m, "dictionary")
<1>1. CASE dictionaryVarBounds = Null
  BY <1>1 DEF getDictionaryVarsAsFlattenedByteArray, getDictionaryVarsAsByteArrays,
              getDictionaryVarsAsStrings
<1>2. CASE dictionaryVarBounds # Null
  <2>1. message = FlattenSeq(TokenBytes(m)) /\ dictionaryVarBounds = DictVarBoundsOf(m)
    BY <1>2 DEF Holding, Kept
  <2>2. Flatten = FromByteArrays(BytesOf(m, "dictionary"))
    BY <2>1, FlattenIsFromByteArrays
  <2>3. getDictionaryVarsAsFlattenedByteArray = FromByteArrays(BytesOf(m, "dictionary"))
    BY <1>2, <2>2 DEF getDictionaryVarsAsFlattenedByteArray, Holding, Kept
  <2>4. [k \in 1 .. NumVars |-> CopyOfRange(message, VarBegin(k), VarEnd(k))]
          = BytesOf(m, "dictionary")
    BY <2>1, ByteArraysAre
  <2>5. /\ getDictionaryVarsAsByteArrays = BytesOf(m, "dictionary")
        /\ getDictionaryVarsAsStrings = BytesOf(m, "dictionary")
    BY <1>2, <2>4 DEF getDictionaryVarsAsByteArrays, getDictionaryVarsAsStrings, Iso88591
  <2>6. QED  BY <1>2, <2>3, <2>5
<1>3. QED  BY <1>1, <1>2

LEMMA InitInv == Init => IInv
BY DEF Init, IInv, Blank

LEMMA EncodeMessageInv ==
  ASSUME IInv, NEW m \in Messages, EncodeMessage(m)
  PROVE  IInv'
<1>1. /\ source' = m /\ encoded' = FALSE /\ pc' = "encode"
      /\ message' = FlattenSeq(TokenBytes(m)) /\ logtype' = Null /\ encodedVars' = Null
      /\ dictionaryVarBounds' = Null /\ flattenedDictVars' = Null
  BY DEF EncodeMessage, SetMessage
<1>2. m # Null
  BY FieldsAreNotNull
<1>3. Holding(m)'
  BY <1>1 DEF Holding, Kept
<1>4. QED  BY <1>1, <1>2, <1>3 DEF IInv

(* While a message is being encoded there is one.                          *)
LEMMA Encoding ==
  ASSUME IInv, pc # "idle" \/ logtype # Null \/ dictionaryVarBounds # Null \/ encoded = TRUE
  PROVE  source \in Messages /\ source # Null /\ Holding(source)
BY DEF IInv, Blank

LEMMA EncodeFailsInv ==
  ASSUME IInv, EncodeFails
  PROVE  IInv'
<1>1. PICK m : m = source
  OBVIOUS
<1>2. /\ pc' = "idle" /\ source' = m /\ pc # "idle"
      /\ message' = message /\ logtype' = logtype /\ encodedVars' = encodedVars
      /\ dictionaryVarBounds' = dictionaryVarBounds
      /\ flattenedDictVars' = flattenedDictVars /\ encoded' = encoded
  BY <1>1 DEF EncodeFails
<1>3. m \in Messages /\ m # Null /\ Holding(m)
  BY <1>1, <1>2, Encoding
<1>4. Holding(m)'
  BY <1>2, <1>3 DEF Holding, Complete
<1>5. QED  BY <1>2, <1>3, <1>4 DEF IInv

LEMMA SetLogtypeInv ==
  ASSUME IInv, SetLogtype
  PROVE  IInv'
<1>1. PICK m : m = source
  OBVIOUS
<1>2. /\ pc' = "dictVarBounds" /\ source' = m /\ pc # "idle"
      /\ ~HasPlaceholders(m) /\ logtype' = LogtypeOf(m)
      /\ message' = message /\ encodedVars' = encodedVars
      /\ dictionaryVarBounds' = dictionaryVarBounds
      /\ flattenedDictVars' = flattenedDictVars /\ encoded' = encoded
  BY <1>1 DEF SetLogtype
<1>3. m \in Messages /\ m # Null /\ Holding(m)
  BY <1>1, <1>2, Encoding
<1>4. LogtypeOf(m) # Null
  BY <1>3, FieldsAreNotNull
<1>5. Holding(m)'
  BY <1>2, <1>3, <1>4 DEF Holding, Kept, Complete
<1>6. QED  BY <1>2, <1>3, <1>5 DEF IInv

LEMMA SetDictVarBoundsInv ==
  ASSUME IInv, SetDictVarBounds
  PROVE  IInv'
<1>1. PICK m : m = source
  OBVIOUS
<1>2. /\ pc = "dictVarBounds" /\ pc' = "encodedVars" /\ source' = m
      /\ dictionaryVarBounds' = IF DictVarBoundsOf(m) = <<>> THEN dictionaryVarBounds
                                ELSE DictVarBoundsOf(m)
      /\ message' = message /\ encodedVars' = encodedVars /\ logtype' = logtype
      /\ flattenedDictVars' = flattenedDictVars /\ encoded' = encoded
  BY <1>1 DEF SetDictVarBounds
<1>3. m \in Messages /\ m # Null /\ Holding(m)
  BY <1>1, <1>2, Encoding
<1>4. DictVarBoundsOf(m) # Null
  BY <1>3, FieldsAreNotNull
<1>5. /\ Kept(dictionaryVarBounds, DictVarBoundsOf(m))
      /\ flattenedDictVars # Null => dictionaryVarBounds # Null
      /\ logtype # Null
  BY <1>2, <1>3 DEF Holding
<1>6. /\ Kept(dictionaryVarBounds', DictVarBoundsOf(m))
      /\ Whole(dictionaryVarBounds', DictVarBoundsOf(m))
      /\ flattenedDictVars # Null => dictionaryVarBounds' # Null
  BY <1>2, <1>4, <1>5 DEF Kept, Whole
<1>7. Holding(m)'
  BY <1>2, <1>3, <1>5, <1>6 DEF Holding, Complete
<1>8. QED  BY <1>2, <1>3, <1>7 DEF IInv

LEMMA SetEncodedVarsInv ==
  ASSUME IInv, SetEncodedVars
  PROVE  IInv'
<1>1. PICK m : m = source
  OBVIOUS
<1>2. /\ pc = "encodedVars" /\ pc' = "idle" /\ source' = m /\ encoded' = TRUE
      /\ encodedVars' = IF EncodedVarsOf(m) = <<>> THEN encodedVars ELSE EncodedVarsOf(m)
      /\ message' = message /\ logtype' = logtype
      /\ dictionaryVarBounds' = dictionaryVarBounds
      /\ flattenedDictVars' = flattenedDictVars
  BY <1>1 DEF SetEncodedVars
<1>3. m \in Messages /\ m # Null /\ Holding(m)
  BY <1>1, <1>2, Encoding
<1>4. EncodedVarsOf(m) # Null
  BY <1>3, FieldsAreNotNull
<1>5. /\ Kept(encodedVars, EncodedVarsOf(m)) /\ logtype # Null
      /\ Whole(dictionaryVarBounds, DictVarBoundsOf(m))
  BY <1>2, <1>3 DEF Holding
<1>6. /\ Kept(encodedVars', EncodedVarsOf(m)) /\ Whole(encodedVars', EncodedVarsOf(m))
  BY <1>2, <1>4, <1>5 DEF Kept, Whole
<1>7. Holding(m)'
  BY <1>2, <1>3, <1>5, <1>6 DEF Holding, Complete
<1>8. QED  BY <1>2, <1>3, <1>7 DEF IInv

(* What GetFlattened caches is what it would compute again.                *)
LEMMA GetFlattenedInv ==
  ASSUME IInv, GetFlattened
  PROVE  IInv'
<1>1. PICK m : m = source
  OBVIOUS
<1>2. /\ pc' = pc /\ source' = m /\ encoded' = encoded /\ encodedVars' = encodedVars
      /\ message' = message /\ logtype' = logtype
      /\ dictionaryVarBounds' = dictionaryVarBounds /\ dictionaryVarBounds # Null
      /\ flattenedDictVars' = getDictionaryVarsAsFlattenedByteArray
  BY <1>1 DEF GetFlattened
<1>3. m \in Messages /\ m # Null /\ Holding(m)
  BY <1>1, <1>2, Encoding
<1>4. flattenedDictVars' = FromByteArrays(BytesOf(m, "dictionary"))
  BY <1>2, <1>3, AccessorsRead
<1>5. Holding(m)'
  BY <1>2, <1>3, <1>4 DEF Holding, Kept, Complete
<1>6. pc \in {"idle", "encode", "dictVarBounds", "encodedVars"} /\ encoded \in BOOLEAN
  BY DEF IInv
<1>7. QED  BY <1>2, <1>3, <1>5, <1>6 DEF IInv

LEMMA NextInv == IInv /\ [Next]_vars => IInv'
<1> SUFFICES ASSUME IInv, [Next]_vars PROVE IInv'
  OBVIOUS
<1>1. ASSUME NEW m \in Messages, EncodeMessage(m) PROVE IInv'
  BY <1>1, EncodeMessageInv
<1>2. CASE EncodeFails
  BY <1>2, EncodeFailsInv
<1>3. CASE SetLogtype
  BY <1>3, SetLogtypeInv
<1>4. CASE SetDictVarBounds
  BY <1>4, SetDictVarBoundsInv
<1>5. CASE SetEncodedVars
  BY <1>5, SetEncodedVarsInv
<1>6. CASE GetFlattened
  BY <1>6, GetFlattenedInv
<1>7. CASE UNCHANGED vars
  BY <1>7 DEF vars, IInv, Blank, Holding, Complete
<1>8. QED
  BY <1>1, <1>2, <1>3, <1>4, <1>5, <1>6, <1>7 DEF Next

LEMMA InvHolds == Spec => []IInv
BY InitInv, NextInv, PTL DEF Spec

-----------------------------------------------------------------------------
(* What the invariant implies.                                             *)

LEMMA InvTypes == IInv => TypeOK
<1> SUFFICES ASSUME IInv PROVE TypeOK
  OBVIOUS
<1>1. /\ pc \in {"idle", "encode", "dictVarBounds", "encodedVars"}
      /\ encoded \in BOOLEAN /\ source \in Messages \cup {Null}
  BY DEF IInv
<1>2. CASE source = Null
  BY <1>1, <1>2 DEF IInv, Blank, TypeOK
<1>3. CASE source # Null
  <2>1. PICK m \in Messages : m = source /\ Holding(m)
    BY <1>1, <1>3 DEF IInv
  <2>2. message = FlattenSeq(TokenBytes(m)) /\ message \in Seq(Bytes)
    BY <2>1, TokenBytesNat DEF Holding
  <2>3. logtype \in Seq(Bytes) \cup {Null}
    BY <2>1, LogtypePiecesTyped DEF Holding, Kept
  <2>4. encodedVars \in Seq(Seq(Ascii)) \cup {Null}
    BY <2>1, VariablesTyped, EncodedVarsAreBytes DEF Holding, Kept
  <2>5. dictionaryVarBounds # Null =>
          \A k \in DOMAIN dictionaryVarBounds :
            /\ dictionaryVarBounds[k] \in 0 .. Len(message)
            /\ k > 1 => dictionaryVarBounds[k - 1] <= dictionaryVarBounds[k]
    <3> SUFFICES ASSUME dictionaryVarBounds # Null
                 PROVE  \A k \in DOMAIN dictionaryVarBounds :
                          /\ dictionaryVarBounds[k] \in 0 .. Len(message)
                          /\ k > 1 => dictionaryVarBounds[k - 1] <= dictionaryVarBounds[k]
      OBVIOUS
    <3>1. dictionaryVarBounds = DictVarBoundsOf(m)
      BY <2>1 DEF Holding, Kept
    <3>2. DOMAIN dictionaryVarBounds = 1 .. Len(dictionaryVarBounds)
      BY <3>1, BoundsAre, LenProperties
    <3>3. QED  BY <2>2, <3>1, <3>2, BoundsOrdered
  <2>6. flattenedDictVars # Null =>
          \A k \in DOMAIN flattenedDictVars.elemEndOffsets :
            flattenedDictVars.elemEndOffsets[k]
              \in 0 .. Len(flattenedDictVars.flattenedElems)
    <3> SUFFICES ASSUME flattenedDictVars # Null
                 PROVE  \A k \in DOMAIN flattenedDictVars.elemEndOffsets :
                          flattenedDictVars.elemEndOffsets[k]
                            \in 0 .. Len(flattenedDictVars.flattenedElems)
      OBVIOUS
    <3>1. flattenedDictVars = FromByteArrays(BytesOf(m, "dictionary"))
      BY <2>1 DEF Holding, Kept
    <3>2. BytesOf(m, "dictionary") \in Seq(Seq(Nat))
      BY VariablesTyped
    <3>3. QED  BY <3>1, <3>2, FlattenedIterates
  <2>7. QED  BY <1>1, <2>2, <2>3, <2>4, <2>5, <2>6 DEF TypeOK
<1>4. QED  BY <1>2, <1>3

LEMMA InvAgrees == IInv => AccessorsAgree
<1> SUFFICES ASSUME IInv, dictionaryVarBounds # Null
             PROVE  Elements(getDictionaryVarsAsFlattenedByteArray)
                      = getDictionaryVarsAsByteArrays
  BY DEF AccessorsAgree
<1>1. PICK m \in Messages : m = source /\ Holding(m)
  BY Encoding
<1>2. /\ getDictionaryVarsAsFlattenedByteArray = FromByteArrays(BytesOf(m, "dictionary"))
      /\ getDictionaryVarsAsByteArrays = BytesOf(m, "dictionary")
  BY <1>1, AccessorsRead
<1>3. BytesOf(m, "dictionary") \in Seq(Seq(Nat))
  BY VariablesTyped
<1>4. QED  BY <1>2, <1>3, FlattenedIterates

(* What is not set is empty, once everything is.                           *)
LEMMA VariablesComplete ==
  ASSUME NEW m \in Messages, Complete(m)
  PROVE  /\ dictionaryVarBounds = Null => BytesOf(m, "dictionary") = <<>>
         /\ OrEmpty(encodedVars) = BytesOf(m, "encoded")
<1>1. DictVarBoundsOf(m) # Null /\ EncodedVarsOf(m) # Null
  BY FieldsAreNotNull
<1>2. dictionaryVarBounds = Null => BytesOf(m, "dictionary") = <<>>
  <2> SUFFICES ASSUME dictionaryVarBounds = Null PROVE BytesOf(m, "dictionary") = <<>>
    OBVIOUS
  <2>1. DictVarBoundsOf(m) = <<>>
    BY <1>1 DEF Complete, Whole
  <2>2. 2 * Len(TokensOf(m, "dictionary")) = 0 /\ Len(TokensOf(m, "dictionary")) \in Nat
    <3>1. Len(DictVarBoundsOf(m)) = 2 * Len(TokensOf(m, "dictionary"))
      BY BoundsAre
    <3>2. Len(<<>>) = 0
      OBVIOUS
    <3>3. QED  BY <2>1, <3>1, <3>2, TokensFound
  <2>3. Len(BytesOf(m, "dictionary")) = 0 /\ BytesOf(m, "dictionary") \in Seq(Seq(Nat))
    BY <2>2, VariablesTyped
  <2>4. QED  BY <2>3, EmptySeq
<1>3. OrEmpty(encodedVars) = BytesOf(m, "encoded")
  BY <1>1, EncodedVarsAreBytes DEF Complete, Whole, OrEmpty
<1>4. QED  BY <1>2, <1>3

(* Decoding what the object has, however the dictionary variables are read.*)
LEMMA HoldingDecodes ==
  ASSUME NEW m \in Messages, Holding(m), logtype # Null
  PROVE  RightOrNothing(DecodeMessageNative(
           LogtypeOf(m),
           IF dictionaryVarBounds = Null THEN <<>> ELSE BytesOf(m, "dictionary"),
           OrEmpty(encodedVars)))
<1> DEFINE dv == IF dictionaryVarBounds = Null THEN <<>> ELSE BytesOf(m, "dictionary")
           ev == OrEmpty(encodedVars)
           decoded == DecodeMessageNative(LogtypeOf(m), dv, ev)
<1>1. ~HasPlaceholders(m) /\ message = FlattenSeq(TokenBytes(m))
  BY DEF Holding
<1>2. ev \in {<<>>, BytesOf(m, "encoded")}
  BY EncodedVarsAreBytes DEF Holding, Kept, OrEmpty
<1>3. dv \in {<<>>, BytesOf(m, "dictionary")}
  OBVIOUS
<1>4. encoded = TRUE => dv = BytesOf(m, "dictionary") /\ ev = BytesOf(m, "encoded")
  BY VariablesComplete DEF Holding
<1> HIDE DEF dv, ev
<1>5. decoded = IF dv = BytesOf(m, "dictionary") /\ ev = BytesOf(m, "encoded")
                THEN message ELSE Null
  BY <1>1, <1>2, <1>3, DecodesRight
<1> HIDE DEF decoded
<1>6. decoded \in {message, Null} /\ (encoded = TRUE => decoded = message)
  BY <1>4, <1>5
<1>7. RightOrNothing(decoded)
  BY <1>6 DEF RightOrNothing
<1>8. QED  BY <1>7 DEF decoded, dv, ev

LEMMA InvDecodes == IInv => DecodesToMessage
<1> SUFFICES ASSUME IInv, logtype # Null
             PROVE  RightOrNothing(DecodeMessage(logtype,
                      getDictionaryVarsAsFlattenedByteArray, encodedVars))
  BY DEF DecodesToMessage, Decodable
<1>1. PICK m \in Messages : m = source /\ Holding(m)
  BY Encoding
<1>2. logtype = LogtypeOf(m)
  BY <1>1 DEF Holding, Kept
<1> DEFINE V == BytesOf(m, "dictionary")
           flat == getDictionaryVarsAsFlattenedByteArray
<1>3. V \in Seq(Seq(Nat))
  BY VariablesTyped
<1>4. FromByteArrays(V) # Null /\ Elements(FromByteArrays(V)) = V
  BY <1>3, FlattenedIterates
<1>5. /\ dictionaryVarBounds = Null => flat = Null
      /\ dictionaryVarBounds # Null => flat = FromByteArrays(V)
  BY <1>1, AccessorsRead
<1> HIDE DEF V, flat
<1>6. (IF flat = Null THEN <<>> ELSE Elements(flat))
        = (IF dictionaryVarBounds = Null THEN <<>> ELSE V)
  BY <1>4, <1>5
<1>7. DecodeMessage(logtype, flat, encodedVars)
        = DecodeMessageNative(LogtypeOf(m),
            IF dictionaryVarBounds = Null THEN <<>> ELSE V, OrEmpty(encodedVars))
  BY <1>2, <1>6 DEF DecodeMessage
<1>8. QED  BY <1>1, <1>7, HoldingDecodes DEF V, flat

LEMMA InvStringsDecode == IInv => StringsDecodeToMessage
<1> SUFFICES ASSUME IInv, logtype # Null
             PROVE  RightOrNothing(DecodeMessageFromStrings(Iso88591(logtype),
                      getDictionaryVarsAsStrings, encodedVars))
  BY DEF StringsDecodeToMessage, Decodable
<1>1. PICK m \in Messages : m = source /\ Holding(m)
  BY Encoding
<1>2. logtype = LogtypeOf(m)
  BY <1>1 DEF Holding, Kept
<1> DEFINE V == BytesOf(m, "dictionary")
           strings == getDictionaryVarsAsStrings
           flat == IF strings = Null THEN Null ELSE FromStrings(strings)
<1>3. V \in Seq(Seq(Nat)) /\ V \in Seq(Seq(Ascii)) /\ V # Null
  BY VariablesTyped, FieldsAreNotNull
<1>4. /\ dictionaryVarBounds = Null => strings = Null
      /\ dictionaryVarBounds # Null => strings = V
  BY <1>1, AccessorsRead
<1> HIDE DEF V, strings
<1>5. FromByteArrays(V) # Null /\ Elements(FromByteArrays(V)) = V
  BY <1>3, FlattenedIterates
<1>6. FromStrings(V) = FromByteArrays(V)
  <2>1. V = [k \in DOMAIN V |-> V[k]] /\ \A k \in DOMAIN V : V[k] \in Seq(Ascii)
    BY <1>3
  <2>2. \A k \in DOMAIN V : Utf8(V[k]) = V[k]
    BY <2>1, Utf8Ascii
  <2>3. [k \in DOMAIN V |-> Utf8(V[k])] = V
    BY <2>1, <2>2
  <2>4. QED  BY <2>3 DEF FromStrings
<1>7. (IF flat = Null THEN <<>> ELSE Elements(flat))
        = (IF dictionaryVarBounds = Null THEN <<>> ELSE V)
  BY <1>3, <1>4, <1>5, <1>6
<1>8. DecodeMessageFromStrings(Iso88591(logtype), strings, encodedVars)
        = DecodeMessageNative(LogtypeOf(m),
            IF dictionaryVarBounds = Null THEN <<>> ELSE V, OrEmpty(encodedVars))
  BY <1>2, <1>7 DEF DecodeMessageFromStrings, DecodeMessage, Iso88591, BytesOfIso88591
<1>9. QED  BY <1>1, <1>8, HoldingDecodes DEF V, strings

-----------------------------------------------------------------------------
(* The fields keep their types: whatever was encoded before and whichever  *)
(* step failed, the bounds and the offsets of the flattened variables are  *)
(* within the message and the array they are of, in order.                 *)
THEOREM FieldsInBounds == Spec => []TypeOK
BY InvHolds, InvTypes, PTL

(* Byte arrays and the flattened array, cached or not, are of the same     *)
(* dictionary variables, in every state of the object.                     *)
THEOREM DictionaryVarsAgree == Spec => []AccessorsAgree
BY InvHolds, InvAgrees, PTL

(* Whatever was encoded into the object before, decoding the accessors'    *)
(* byte arrays gives the message once encodeMessage has returned, and the  *)
(* message or nothing when it failed.                                      *)
THEOREM MessagesDecode == Spec => []DecodesToMessage
BY InvHolds, InvDecodes, PTL

(* The same of the accessors that return strings, in spite of their two    *)
(* character sets.                                                         *)
THEOREM StringsDecode == Spec => []StringsDecodeToMessage
BY InvHolds, InvStringsDecode, PTL

-----------------------------------------------------------------------------
(* The text of a message as a query.                                       *)

SubqueryInv ==
  subquery # Null => /\ source # Null /\ encoded = TRUE
                     /\ IsPlain(source) => subquery = SubqueryOf(source)

QueryInv == IInv /\ SubqueryInv

LEMMA QueryInitInv == QueryInit => QueryInv
BY InitInv DEF QueryInit, QueryInv, SubqueryInv

LEMMA QueryNextInv == QueryInv /\ [QueryNext]_queryVars => QueryInv'
<1> SUFFICES ASSUME IInv, SubqueryInv, [QueryNext]_queryVars PROVE QueryInv'
  BY DEF QueryInv
<1>1. CASE Next /\ subquery' = Null
  <2>1. IInv'
    BY <1>1, NextInv
  <2>2. QED  BY <1>1, <2>1 DEF QueryInv, SubqueryInv
<1>2. CASE EncodeQuery
  <2>1. UNCHANGED vars /\ encoded /\ subquery' \in GenerateSubqueries(source)
    BY <1>2 DEF EncodeQuery
  <2>2. encoded = TRUE
    BY <2>1 DEF IInv
  <2>3. IInv'
    BY <2>1, NextInv
  <2>4. source # Null
    BY <2>2, Encoding
  <2>5. source' = source /\ encoded' = encoded
    BY <2>1 DEF vars
  <2>6. (SubqueryOf(source))' = SubqueryOf(source) /\ IsPlain(source)' = IsPlain(source)
    BY <2>5 DEF SubqueryOf, IsPlain
  <2>7. IsPlain(source) => subquery' = SubqueryOf(source)
    BY <2>1 DEF GenerateSubqueries
  <2>8. SubqueryInv'
    BY <2>2, <2>4, <2>5, <2>6, <2>7 DEF SubqueryInv
  <2>9. QED  BY <2>3, <2>8 DEF QueryInv
<1>3. CASE EncodeQueryThrows
  <2>1. UNCHANGED vars /\ subquery' = Null
    BY <1>3 DEF EncodeQueryThrows
  <2>2. IInv'
    BY <2>1, NextInv
  <2>3. QED  BY <2>1, <2>2 DEF QueryInv, SubqueryInv
<1>4. CASE UNCHANGED queryVars
  <2>1. UNCHANGED vars /\ subquery' = subquery
    BY <1>4 DEF queryVars
  <2>2. IInv'
    BY <2>1, NextInv
  <2>3. source' = source /\ encoded' = encoded
    BY <2>1 DEF vars
  <2>4. (SubqueryOf(source))' = SubqueryOf(source) /\ IsPlain(source)' = IsPlain(source)
    BY <2>3 DEF SubqueryOf, IsPlain
  <2>5. SubqueryInv'
    BY <2>1, <2>3, <2>4 DEF SubqueryInv
  <2>6. QED  BY <2>2, <2>5 DEF QueryInv
<1>5. QED  BY <1>1, <1>2, <1>3, <1>4 DEF QueryNext

LEMMA QueryInvMatches == QueryInv => AsciiQueryMatchesItsMessage
<1> SUFFICES ASSUME IInv, SubqueryInv, source # Null, IsAscii(source), subquery # Null,
                    IsPlain(source)
             PROVE  /\ subquery.logtypeQuery = logtype
                    /\ subquery.dictVars = OrEmpty(getDictionaryVarsAsByteArrays)
                    /\ subquery.encodedVars = OrEmpty(encodedVars)
  BY DEF QueryInv, AsciiQueryMatchesItsMessage, QueryMatchesItsMessage
<1>1. PICK m \in Messages : m = source /\ Holding(m)
  BY Encoding DEF SubqueryInv
<1>2. subquery = SubqueryOf(m) /\ encoded = TRUE /\ IsAscii(m)
  BY <1>1 DEF SubqueryInv
<1>3. Complete(m)
  BY <1>1, <1>2 DEF Holding
<1>4. subquery.logtypeQuery = logtype
  <2>1. \A k \in DOMAIN m : Utf8(m[k].chars) = QueryBytes(m[k].chars)
    BY <1>2, Utf8Ascii DEF IsAscii, QueryBytes, BytesOfIso88591
  <2> DEFINE Q(k) == CASE m[k].kind = "text" -> QueryBytes(m[k].chars)
                       [] m[k].kind = "dictionary" -> <<DictionaryPlaceholder>>
                       [] m[k].kind = "encoded" -> <<EncodedPlaceholder>>
             L(k) == CASE m[k].kind = "text" -> Utf8(m[k].chars)
                       [] m[k].kind = "dictionary" -> <<DictionaryPlaceholder>>
                       [] m[k].kind = "encoded" -> <<EncodedPlaceholder>>
  <2>2. \A k \in DOMAIN m : Q(k) = L(k)
    BY <2>1
  <2>3. /\ SubqueryOf(m).logtypeQuery = FlattenSeq([k \in DOMAIN m |-> Q(k)])
        /\ LogtypeOf(m) = FlattenSeq([k \in DOMAIN m |-> L(k)])
    BY DEF SubqueryOf, LogtypeOf
  <2>4. logtype = LogtypeOf(m)
    BY <1>1, <1>3 DEF Holding, Kept, Complete
  <2> HIDE DEF Q, L
  <2>5. [k \in DOMAIN m |-> Q(k)] = [k \in DOMAIN m |-> L(k)]
    BY <2>2
  <2>6. QED  BY <1>2, <2>3, <2>4, <2>5
<1>5. subquery.dictVars = OrEmpty(getDictionaryVarsAsByteArrays)
  <2>1. subquery.dictVars = BytesOf(m, "dictionary")
    <3>1. SubqueryOf(m).dictVars = [k \in DOMAIN TokensOf(m, "dictionary") |->
                                      m[TokensOf(m, "dictionary")[k]].chars]
      BY DEF SubqueryOf, QueryBytes, BytesOfIso88591
    <3>2. QED  BY <1>2, <3>1, VariablesTyped
  <2>2. BytesOf(m, "dictionary") # Null
    BY FieldsAreNotNull
  <2>3. CASE dictionaryVarBounds = Null
    <3>1. BytesOf(m, "dictionary") = <<>> /\ getDictionaryVarsAsByteArrays = Null
      BY <1>1, <1>3, <2>3, VariablesComplete, AccessorsRead
    <3>2. QED  BY <2>1, <3>1 DEF OrEmpty
  <2>4. CASE dictionaryVarBounds # Null
    <3>1. getDictionaryVarsAsByteArrays = BytesOf(m, "dictionary")
      BY <1>1, <2>4, AccessorsRead
    <3>2. QED  BY <2>1, <2>2, <3>1 DEF OrEmpty
  <2>5. QED  BY <2>3, <2>4
<1>6. subquery.encodedVars = OrEmpty(encodedVars)
  <2>1. subquery.encodedVars = EncodedVarsOf(m)
    BY <1>2 DEF SubqueryOf
  <2>2. QED  BY <1>3, <2>1, VariablesComplete, EncodedVarsAreBytes
<1>7. QED  BY <1>4, <1>5, <1>6

(* Encoding queries in between is nothing that EncodedMessage forbids.     *)
THEOREM QueriesKeepMessages == QuerySpec => Spec
<1>1. QueryInit => Init
  BY DEF QueryInit
<1>2. [QueryNext]_queryVars => [Next]_vars
  BY DEF QueryNext, EncodeQuery, EncodeQueryThrows, queryVars
<1>3. QED  BY <1>1, <1>2, PTL DEF QuerySpec, Spec

(* The text of any message of ASCII characters, without wildcards and      *)
(* backslashes and not empty, encoded as a query, is one subquery with the *)
(* message's logtype, dictionary and encoded variables, byte for byte.     *)
THEOREM AsciiQueriesMatch == QuerySpec => []AsciiQueryMatchesItsMessage
BY QueryInitInv, QueryNextInv, QueryInvMatches, PTL DEF QuerySpec

(* So everything said of EncodedMessage is true of the system with queries.*)
THEOREM QueriedMessagesDecode ==
  QuerySpec => [](TypeOK /\ AccessorsAgree /\ DecodesToMessage /\ StringsDecodeToMessage)
BY QueriesKeepMessages, FieldsInBounds, DictionaryVarsAgree, MessagesDecode,
   StringsDecode, PTL
=============================================================================
