---------------------------- MODULE EncodedMessage ----------------------------
(***************************************************************************)
(* An EncodedMessage that a caller encodes one log message into after the  *)
(* other (MessageEncoder.encodeMessage), any of which may fail half-way,   *)
(* and what MessageDecoder.decodeMessage makes of its accessors.           *)
(*                                                                         *)
(* The message is stored in UTF-8 bytes.  Native code tokenises it and     *)
(* sets, one after the other, the logtype (the message with placeholders   *)
(* for its variables), the dictionary variables (as bounds in the message) *)
(* and the encoded variables.                                              *)
(*                                                                         *)
(* A character is a small number: the two placeholders of CLP's variables, *)
(* two ordinary ASCII characters, one that stands for those a query gives a*)
(* meaning to ('*', '?' and the backslash), and the others up to MaxChar.  *)
(***************************************************************************)
EXTENDS FlattenedByteArray, SequenceIndices

CONSTANTS
  MaxChar,   \* characters are 0 .. MaxChar
  Messages,  \* log messages, as the sequences of their tokens
  Null

DictionaryPlaceholder == 0
EncodedPlaceholder == 1
Placeholders == {DictionaryPlaceholder, EncodedPlaceholder}
Special == 4
Ascii == 0 .. 4
Chars == 0 .. MaxChar

(* UTF-8: an ASCII character is its byte, another a lead byte and (here)   *)
(* the continuation byte.                                                  *)
Continuation == MaxChar + 1
Bytes == 0 .. Continuation

Kinds == {"text", "dictionary", "encoded"}
Tokens == [kind : Kinds, chars : Seq(Chars)]

(* CLP's variables are made of ASCII characters: all others delimit them.  *)
ASSUME EncodedMessageAssumption ==
  /\ MaxChar \in Nat /\ Ascii \subseteq Chars
  /\ Messages \subseteq Seq(Tokens) /\ Null \notin Messages
  /\ \A m \in Messages : \A k \in DOMAIN m :
       m[k].kind # "text" => m[k].chars \in Seq(Ascii \ Placeholders)
  /\ Null \notin Seq(Nat) \cup Seq(Seq(Nat))
  /\ Null \notin [flattenedElems : Seq(Nat), elemEndOffsets : Seq(Nat)]

VARIABLES
  pc,                   \* next step of encodeMessage
  source,               \* the message being encoded (what native code found)
  message,
  logtype,
  encodedVars,
  dictionaryVarBounds,
  flattenedDictVars,
  encoded               \* history: encodeMessage returned normally for source

vars == <<pc, source, message, logtype, encodedVars, dictionaryVarBounds,
          flattenedDictVars, encoded>>

-----------------------------------------------------------------------------
(* Strings and bytes.                                                      *)

(* string.getBytes(UTF_8)                                                  *)
Utf8(chars) ==
  FlattenSeq([k \in DOMAIN chars |-> IF chars[k] \in Ascii THEN <<chars[k]>>
                                     ELSE <<chars[k], Continuation>>])

(* new String(bytes, ISO_8859_1), and its inverse on strings that came from*)
(* bytes: a character is its byte.                                         *)
Iso88591(bytes) == bytes
BytesOfIso88591(string) == string

-----------------------------------------------------------------------------
(* The CLP core's encode_message, from how encode_message_native uses it.  *)

TokenBytes(m) == [k \in DOMAIN m |-> Utf8(m[k].chars)]

HasPlaceholders(m) ==
  \E k \in DOMAIN m :
    m[k].kind = "text" /\ \E j \in DOMAIN m[k].chars : m[k].chars[j] \in Placeholders

LogtypeOf(m) ==
  FlattenSeq([k \in DOMAIN m |->
    CASE m[k].kind = "text" -> Utf8(m[k].chars)
      [] m[k].kind = "dictionary" -> <<DictionaryPlaceholder>>
      [] m[k].kind = "encoded" -> <<EncodedPlaceholder>>])

(* The tokens of a kind.                                                   *)
TokensOf(m, kind) == Indices([k \in DOMAIN m |-> m[k].kind], {kind})

DictVarBoundsOf(m) ==
  LET end(k) == Len(FlattenSeq(SubSeq(TokenBytes(m), 1, k)))
      vs == TokensOf(m, "dictionary")
  IN  FlattenSeq([k \in DOMAIN vs |-> <<end(vs[k] - 1), end(vs[k])>>])

(* An encoded value stands for the digits it was made of.                  *)
EncodedVarsOf(m) ==
  LET vs == TokensOf(m, "encoded")
  IN  [k \in DOMAIN vs |-> m[vs[k]].chars]

(* decode_message: takes the next variable of its kind for each placeholder*)
(* and throws when there is none.                                          *)
Count(bytes, placeholder, n) == Cardinality({k \in 1 .. n : bytes[k] = placeholder})

DecodeMessageNative(lt, dictVars, encVars) ==
  LET dictIdx(k) == Count(lt, DictionaryPlaceholder, k)
      encIdx(k) == Count(lt, EncodedPlaceholder, k)
  IN  IF \/ dictIdx(Len(lt)) > Len(dictVars)
         \/ encIdx(Len(lt)) > Len(encVars)
      THEN Null
      ELSE FlattenSeq([k \in DOMAIN lt |->
             CASE lt[k] = DictionaryPlaceholder -> dictVars[dictIdx(k)]
               [] lt[k] = EncodedPlaceholder -> encVars[encIdx(k)]
               [] OTHER -> <<lt[k]>>])

-----------------------------------------------------------------------------
(* The accessors of the dictionary variables.                              *)

NumVars == Len(dictionaryVarBounds) \div 2
VarBegin(k) == dictionaryVarBounds[2 * k - 1]
VarEnd(k) == dictionaryVarBounds[2 * k]

getDictionaryVarsAsByteArrays ==
  IF dictionaryVarBounds = Null THEN Null
  ELSE [k \in 1 .. NumVars |-> CopyOfRange(message, VarBegin(k), VarEnd(k))]

getDictionaryVarsAsStrings ==
  IF dictionaryVarBounds = Null THEN Null
  ELSE [k \in 1 .. NumVars |->
         Iso88591(CopyOfRange(message, VarBegin(k), VarEnd(k)))]

(* FlattenedByteArrayFactory on inputs whose lengths do not overflow.      *)
FromByteArrays(arrays) ==
  IF arrays = Null THEN EMPTY_FLATTENED_BYTE_ARRAY
  ELSE Flattened(FlattenSeq(arrays),
                 [k \in DOMAIN arrays |-> Len(FlattenSeq(SubSeq(arrays, 1, k)))])
FromStrings(strings) == FromByteArrays([k \in DOMAIN strings |-> Utf8(strings[k])])

(* Fault injection: offsets in the message for offsets in the flattened    *)
(* array.                                                                  *)
FlattenInPlace ==
  Flattened(FlattenSeq([k \in 1 .. NumVars |->
                          CopyOfRange(message, VarBegin(k), VarEnd(k))]),
            [k \in 1 .. NumVars |-> VarEnd(k)])

(* What getDictionaryVarsAsFlattenedByteArray computes: end offsets first, *)
(* then the bytes, each variable copied behind the one before.             *)
Flatten ==
  LET length[k \in 0 .. NumVars] ==
        IF k = 0 THEN 0 ELSE length[k - 1] + VarEnd(k) - VarBegin(k)
  IN  Flattened(FlattenSeq([k \in 1 .. NumVars |->
                              CopyOfRange(message, VarBegin(k), VarEnd(k))]),
                [k \in 1 .. NumVars |-> length[k]])

getDictionaryVarsAsFlattenedByteArray ==
  IF dictionaryVarBounds = Null THEN Null
  ELSE IF flattenedDictVars # Null THEN flattenedDictVars
  ELSE Flatten

-----------------------------------------------------------------------------
(* decodeMessage.                                                          *)
OrEmpty(x) == IF x = Null THEN <<>> ELSE x

(* decodeMessage(byte[], FlattenedByteArray, long[])                       *)
DecodeMessage(lt, dictVars, encVars) ==
  DecodeMessageNative(lt, IF dictVars = Null THEN <<>> ELSE Elements(dictVars),
                      OrEmpty(encVars))

(* Fault injection: the logtype's string is encoded like the variables'.   *)
DecodeMessageFromStringsUtf8(lt, dictVars, encVars) ==
  DecodeMessage(Utf8(lt), IF dictVars = Null THEN Null ELSE FromStrings(dictVars),
                encVars)

(* decodeMessage(String, String[], long[])                                 *)
DecodeMessageFromStrings(lt, dictVars, encVars) ==
  DecodeMessage(BytesOfIso88591(lt),
                IF dictVars = Null THEN Null ELSE FromStrings(dictVars),
                encVars)

-----------------------------------------------------------------------------
(* The types of the fields; the bounds lie within the message they are     *)
(* bounds in, in order, and so are the offsets of the flattened variables. *)
TypeOK ==
  /\ pc \in {"idle", "encode", "dictVarBounds", "encodedVars"}
  /\ source \in Messages \cup {Null}
  /\ message \in Seq(Bytes) \cup {Null}
  /\ logtype \in Seq(Bytes) \cup {Null}
  /\ encodedVars \in Seq(Seq(Ascii)) \cup {Null}
  /\ dictionaryVarBounds # Null =>
       \A k \in DOMAIN dictionaryVarBounds :
         /\ dictionaryVarBounds[k] \in 0 .. Len(message)
         /\ k > 1 => dictionaryVarBounds[k - 1] <= dictionaryVarBounds[k]
  /\ flattenedDictVars # Null =>
       \A k \in DOMAIN flattenedDictVars.elemEndOffsets :
         flattenedDictVars.elemEndOffsets[k]
           \in 0 .. Len(flattenedDictVars.flattenedElems)
  /\ encoded \in BOOLEAN

Init ==
  /\ pc = "idle"
  /\ source = Null
  /\ message = Null
  /\ logtype = Null
  /\ encodedVars = Null
  /\ dictionaryVarBounds = Null
  /\ flattenedDictVars = Null
  /\ encoded = FALSE

(* Fault injection: the cached flattened variables are not cleared.        *)
SetMessageKeepsCache(m) ==
  /\ message' = FlattenSeq(TokenBytes(m))
  /\ logtype' = Null
  /\ encodedVars' = Null
  /\ dictionaryVarBounds' = Null
  /\ UNCHANGED flattenedDictVars

(* Fault injection: the encoded variables are not cleared.                 *)
SetMessageKeepsVars(m) ==
  /\ message' = FlattenSeq(TokenBytes(m))
  /\ logtype' = Null
  /\ dictionaryVarBounds' = Null
  /\ flattenedDictVars' = Null
  /\ UNCHANGED encodedVars

SetMessage(m) ==
  /\ message' = FlattenSeq(TokenBytes(m))
  /\ logtype' = Null
  /\ encodedVars' = Null
  /\ dictionaryVarBounds' = Null
  /\ flattenedDictVars' = Null

(* encodeMessage(m) up to native code.  (A caller's own setMessage(m)      *)
(* leaves the object as EncodeFails right after this does.)                *)
EncodeMessage(m) ==
  /\ pc = "idle"
  /\ source' = m
  /\ SetMessage(m)
  /\ encoded' = FALSE
  /\ pc' = "encode"

(* Native code throws: "message contains variable placeholders", or no     *)
(* Java array could be made for what it wants to set next.                 *)
EncodeFails ==
  /\ \/ pc = "encode"
     \/ pc = "dictVarBounds" /\ DictVarBoundsOf(source) # <<>>
     \/ pc = "encodedVars" /\ EncodedVarsOf(source) # <<>>
  /\ pc' = "idle"
  /\ UNCHANGED <<source, message, logtype, encodedVars, dictionaryVarBounds,
                 flattenedDictVars, encoded>>

SetLogtype ==
  /\ pc = "encode"
  /\ ~HasPlaceholders(source)
  /\ logtype' = LogtypeOf(source)
  /\ pc' = "dictVarBounds"
  /\ UNCHANGED <<source, message, encodedVars, dictionaryVarBounds,
                 flattenedDictVars, encoded>>

SetDictVarBounds ==
  /\ pc = "dictVarBounds"
  /\ dictionaryVarBounds' = IF DictVarBoundsOf(source) = <<>>
                            THEN dictionaryVarBounds
                            ELSE DictVarBoundsOf(source)
  /\ pc' = "encodedVars"
  /\ UNCHANGED <<source, message, logtype, encodedVars, flattenedDictVars,
                 encoded>>

SetEncodedVars ==
  /\ pc = "encodedVars"
  /\ encodedVars' = IF EncodedVarsOf(source) = <<>> THEN encodedVars
                    ELSE EncodedVarsOf(source)
  /\ encoded' = TRUE
  /\ pc' = "idle"
  /\ UNCHANGED <<source, message, logtype, dictionaryVarBounds,
                 flattenedDictVars>>

(* The accessor that caches what it returns.                               *)
GetFlattened ==
  /\ pc = "idle"
  /\ dictionaryVarBounds # Null
  /\ flattenedDictVars' = getDictionaryVarsAsFlattenedByteArray
  /\ UNCHANGED <<pc, source, message, logtype, encodedVars,
                 dictionaryVarBounds, encoded>>

Next ==
  \/ \E m \in Messages : EncodeMessage(m)
  \/ EncodeFails \/ SetLogtype \/ SetDictVarBounds \/ SetEncodedVars
  \/ GetFlattened

Spec == Init /\ [][Next]_vars

-----------------------------------------------------------------------------
(* Properties.                                                             *)

(* What decodeMessage may return for the object as it is.                  *)
RightOrNothing(decoded) ==
  IF encoded THEN decoded = message ELSE decoded \in {message, Null}

Decodable == pc = "idle" /\ logtype # Null

(* Once encodeMessage has returned, decoding the logtype, the flattened    *)
(* dictionary variables (cached or not) and the encoded variables gives    *)
(* the message.  When it failed half-way, whatever was encoded into the    *)
(* same object before, decoding throws or gives the message: never another.*)
DecodesToMessage ==
  Decodable =>
    RightOrNothing(DecodeMessage(logtype, getDictionaryVarsAsFlattenedByteArray,
                                 encodedVars))

(* The same of the accessors that return strings, though they read bytes   *)
(* as ISO-8859-1 and decodeMessage encodes dictionary variables as UTF-8,  *)
(* logtypes as ISO-8859-1.                                                 *)
StringsDecodeToMessage ==
  Decodable =>
    RightOrNothing(DecodeMessageFromStrings(Iso88591(logtype),
                                            getDictionaryVarsAsStrings,
                                            encodedVars))

(* All accessors agree on the dictionary variables: the flattened array,   *)
(* also one that was cached, iterates as the byte arrays.                  *)
AccessorsAgree ==
  dictionaryVarBounds # Null =>
    Elements(getDictionaryVarsAsFlattenedByteArray) = getDictionaryVarsAsByteArrays
=============================================================================
