------------------------------ MODULE ExactQuery ------------------------------
(***************************************************************************)
(* Searching for a log message by its own text.  A caller encodes a message*)
(* and then the same text as a query (EightByteClpWildcardQueryEncoder     *)
(* .encode).  Plain text, with none of the characters that are special in  *)
(* a query, is one subquery, with the variables MessageEncoder found, but  *)
(* of bytes that were made of the String in another way.  Of other text the*)
(* core makes any subqueries or none; empty text has none and is refused.  *)
(* The characters modelled are those ISO-8859-1 has.                       *)
(***************************************************************************)
EXTENDS EncodedMessage

CONSTANT
  Interpreted  \* messages that text with special characters may be taken for

ASSUME ExactQueryAssumption == Interpreted \subseteq Messages

VARIABLE subquery  \* a subquery encode() returned for source's text, or Null

queryVars == <<vars, subquery>>

QueryInit == Init /\ subquery = Null

TextOf(m) == FlattenSeq([k \in DOMAIN m |-> m[k].chars])

(* clean_up_wildcard_search_string leaves such text as it is, and none of  *)
(* it is a wildcard.                                                       *)
IsPlain(m) == \A k \in DOMAIN m : \A j \in DOMAIN m[k].chars : m[k].chars[j] # Special

(* Fault injection: the text is encoded as UTF-16.                         *)
QueryBytesUtf16(chars) == FlattenSeq([k \in DOMAIN chars |-> <<0, chars[k]>>])

(* encode()'s wildcardQuery.getBytes(ISO_8859_1)                           *)
QueryBytes(chars) == BytesOfIso88591(chars)

(* The subquery of plain text, which is its own only match.                *)
SubqueryOf(m) ==
  [logtypeQuery |->
     FlattenSeq([k \in DOMAIN m |->
       CASE m[k].kind = "text" -> QueryBytes(m[k].chars)
         [] m[k].kind = "dictionary" -> <<DictionaryPlaceholder>>
         [] m[k].kind = "encoded" -> <<EncodedPlaceholder>>]),
   dictVars |->
     LET vs == TokensOf(m, "dictionary")
     IN  [k \in DOMAIN vs |-> QueryBytes(m[vs[k]].chars)],
   encodedVars |-> EncodedVarsOf(m)]

(* What generate_subqueries may find in the text once it is cleaned up.    *)
GenerateSubqueries(m) ==
  IF IsPlain(m) THEN {SubqueryOf(m)} ELSE {SubqueryOf(n) : n \in Interpreted}

EncodeQuery ==
  /\ pc = "idle" /\ encoded
  /\ TextOf(source) # <<>>
  /\ subquery' \in GenerateSubqueries(source)
  /\ UNCHANGED vars

(* QueryMethodFailed, which becomes an IllegalArgumentException: always of *)
(* empty text, and of other text if the clean-up leaves nothing the core   *)
(* can use.  Of any text, Java may fail to make an array or an object.     *)
EncodeQueryThrows ==
  /\ pc = "idle" /\ encoded
  /\ subquery' = Null
  /\ UNCHANGED vars

(* The next message is encoded when the query is done with.                *)
QueryNext ==
  \/ Next /\ subquery' = Null
  \/ EncodeQuery
  \/ EncodeQueryThrows

QuerySpec == QueryInit /\ [][QueryNext]_queryVars

-----------------------------------------------------------------------------
(* encode() is documented to give "subqueries that can be run on encoded   *)
(* messages", for a wildcardQuery that is any String and whose wildcards   *)
(* match characters.  So plain text of a message that encode() does not    *)
(* refuse should be found where the message is stored: logtype, dictionary *)
(* variables and encoded variables of the query are those of the message,  *)
(* byte for byte.                                                          *)
QueryMatchesItsMessage ==
  subquery # Null /\ IsPlain(source) =>
    /\ subquery.logtypeQuery = logtype
    /\ subquery.dictVars = OrEmpty(getDictionaryVarsAsByteArrays)
    /\ subquery.encodedVars = OrEmpty(encodedVars)

IsAscii(m) == \A k \in DOMAIN m : m[k].chars \in Seq(Ascii)

(* Of plain text in ASCII it is true, although encodeMessage() makes bytes *)
(* of a String in one way and encode() in another.  (Text with wildcards or*)
(* backslashes, and empty text, are not claimed to find their messages.)   *)
AsciiQueryMatchesItsMessage ==
  source # Null /\ IsAscii(source) => QueryMatchesItsMessage
=============================================================================
