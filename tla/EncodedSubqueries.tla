-------------------------- MODULE EncodedSubqueries --------------------------
(***************************************************************************)
(* From a wildcard query to its variables: encode_native of                *)
(* EightByteClpWildcardQueryEncoder, which serialises each subquery's      *)
(* variables into four vectors it reuses, and the iterators of             *)
(* AbstractClpEncodedSubquery and ByteSegments, with which Java reads them *)
(* back.                                                                   *)
(*                                                                         *)
(* The CLP core's generate_subqueries is external: it returns subqueries,  *)
(* each a sequence of variables, or throws.  Where in the cleaned query a  *)
(* variable is depends on nothing here: variables one and two bytes long   *)
(* follow each other at some distance.                                     *)
(***************************************************************************)
EXTENDS Integers, Sequences, SequenceIndices

CONSTANTS
  Queries,      \* what the core may make of a query: sequences of subqueries,
                \* each the sequence of its variables' kinds
  ForEachOnly   \* whether callers call next() only after hasNext()

Placeholders == {"Integer", "Float", "Dictionary"}
Exact == {"exactDictionary", "exactEncoded"}
VarKinds == Exact \cup Placeholders  \* the latter: with wildcards

ASSUME SubqueriesAssumption ==
  /\ Queries \subseteq Seq(Seq(VarKinds))
  /\ ForEachOnly \in BOOLEAN

VARIABLES
  pc,
  query,                     \* what the core made of the wildcard query
  i, j,                      \* subquery and variable being serialised
  dict_var_bounds,
  encoded_vars,
  wildcard_var_placeholders,
  wildcard_var_bounds,
  subqueries,                \* the array that is returned to Java
  iterator,                  \* the iterator in use
  returned                   \* history: what its next() has returned

encoding == <<i, j, dict_var_bounds, encoded_vars, wildcard_var_placeholders,
              wildcard_var_bounds>>
reading == <<iterator, returned>>
vars == <<pc, query, encoding, subqueries, reading>>

BeginPos(k) == 3 * k
EndPos(k) == 3 * k + 1 + (k % 2)
EncodedValue(k) == k

(* The subqueries' byte array: the query as it was given or as             *)
(* clean_up_wildcard_search_string left it, which positions refer to.      *)
Parents == {"given", "clean"}

(* Fault injection: the caller's array is reused.                          *)
ParentGiven == "given"

Parent == "clean"

IteratorKinds == {"DictVars", "DictVarWildcardQueries",
                  "EncodedVarWildcardQueries"}
NewIterator(kind, n) ==
  [kind |-> kind, of |-> n, varIdx |-> 0, boundsIdx |-> 0, hasNext |-> "unknown"]

(* The types of the variables; bounds come in pairs.                       *)
TypeOK ==
  /\ pc \in {"idle", "next", "visit", "make", "read"}
  /\ query \in Seq(Seq(VarKinds))
  /\ i \in Nat /\ j \in Nat
  /\ Len(dict_var_bounds) % 2 = 0
  /\ Len(wildcard_var_bounds) = 2 * Len(wildcard_var_placeholders)
  /\ \A n \in DOMAIN subqueries :
       LET s == subqueries[n]
       IN  /\ s.query \in Parents
           /\ Len(s.dictVarBounds) % 2 = 0
           /\ s.wildcardVarPlaceholders \in Seq(Placeholders)
           /\ Len(s.wildcardVarBounds) = 2 * Len(s.wildcardVarPlaceholders)
  /\ iterator.kind \in IteratorKinds
  /\ iterator.hasNext \in {"unknown", "true", "false"}

Init ==
  /\ pc = "idle"
  /\ query = <<>>
  /\ i = 0 /\ j = 0
  /\ dict_var_bounds = <<>>
  /\ encoded_vars = <<>>
  /\ wildcard_var_placeholders = <<>>
  /\ wildcard_var_bounds = <<>>
  /\ subqueries = <<>>
  /\ iterator = NewIterator("DictVars", 0)
  /\ returned = <<>>

-----------------------------------------------------------------------------
(* encode_native.                                                          *)

(* generate_subqueries and the array for its result.                       *)
Encode ==
  /\ pc = "idle"
  /\ query' \in Queries
  /\ i' = 0
  /\ pc' = "next"
  /\ subqueries' = <<>>
  /\ UNCHANGED <<j, dict_var_bounds, encoded_vars, wildcard_var_placeholders,
                 wildcard_var_bounds, reading>>

(* Fault injection: the vectors are not cleared between subqueries.        *)
ClearVectorsNot ==
  UNCHANGED <<dict_var_bounds, encoded_vars, wildcard_var_placeholders,
              wildcard_var_bounds>>

ClearVectors ==
  /\ dict_var_bounds' = <<>>
  /\ encoded_vars' = <<>>
  /\ wildcard_var_placeholders' = <<>>
  /\ wildcard_var_bounds' = <<>>

(* The end of encode_native's frame.                                       *)
DropLocals ==
  /\ dict_var_bounds' = <<>>
  /\ encoded_vars' = <<>>
  /\ wildcard_var_placeholders' = <<>>
  /\ wildcard_var_bounds' = <<>>
  /\ i' = 0
  /\ j' = 0

NextSubquery ==
  /\ pc = "next"
  /\ \/ /\ i < Len(query)
        /\ ClearVectors
        /\ j' = 0
        /\ pc' = "visit"
        /\ UNCHANGED i
     \/ /\ i = Len(query)
        /\ DropLocals
        /\ pc' = "read"
  /\ UNCHANGED <<query, subqueries, reading>>

(* Fault injection: the end is forgotten.                                  *)
AppendBoundsBeginOnly(bounds, k) == Append(bounds, BeginPos(k))

AppendBounds(bounds, k) == bounds \o <<BeginPos(k), EndPos(k)>>

(* std::visit of one variable of the subquery.                             *)
Visit ==
  /\ pc = "visit"
  /\ j < Len(query[i + 1])
  /\ LET kind == query[i + 1][j + 1]
     IN  \/ /\ kind = "exactDictionary"
            /\ dict_var_bounds' = AppendBounds(dict_var_bounds, j + 1)
            /\ UNCHANGED <<encoded_vars, wildcard_var_placeholders,
                           wildcard_var_bounds>>
         \/ /\ kind = "exactEncoded"
            /\ encoded_vars' = Append(encoded_vars, EncodedValue(j + 1))
            /\ UNCHANGED <<dict_var_bounds, wildcard_var_placeholders,
                           wildcard_var_bounds>>
         \/ /\ kind \in Placeholders
            /\ wildcard_var_placeholders' = Append(wildcard_var_placeholders, kind)
            /\ wildcard_var_bounds' = AppendBounds(wildcard_var_bounds, j + 1)
            /\ UNCHANGED <<dict_var_bounds, encoded_vars>>
  /\ j' = j + 1
  /\ UNCHANGED <<pc, query, i, subqueries, reading>>

(* The arrays and the EightByteClpEncodedSubquery made of the vectors.     *)
MakeSubquery ==
  /\ pc = "visit"
  /\ j = Len(query[i + 1])
  /\ subqueries' = Append(subqueries,
       [query |-> Parent,
        dictVarBounds |-> dict_var_bounds,
        encodedVars |-> encoded_vars,
        wildcardVarPlaceholders |-> wildcard_var_placeholders,
        wildcardVarBounds |-> wildcard_var_bounds])
  /\ i' = i + 1
  /\ pc' = "next"
  /\ UNCHANGED <<query, j, dict_var_bounds, encoded_vars,
                 wildcard_var_placeholders, wildcard_var_bounds, reading>>

(* Any of it throws: nothing is returned.                                  *)
EncodeFails ==
  /\ pc \in {"next", "visit"}
  /\ pc' = "idle"
  /\ DropLocals
  /\ query' = <<>>
  /\ subqueries' = <<>>
  /\ UNCHANGED reading

-----------------------------------------------------------------------------
(* Iterators over the variables of one subquery.                           *)

Subquery(it) == subqueries[it.of]

isRelevantType(kind, type) ==
  IF kind = "DictVarWildcardQueries" THEN type = "Dictionary"
  ELSE type # "Dictionary"

(* Each n that a wildcard iterator of s at varIdx skips.                   *)
Skipped(s, it) ==
  LET types == s.wildcardVarPlaceholders
      stop == {n \in it.varIdx .. Len(types) - 1 :
                 isRelevantType(it.kind, types[n + 1])}
  IN  {n \in it.varIdx .. Len(types) - 1 : \A m \in stop : n < m}

StartIteration ==
  /\ pc = "read"
  /\ \E kind \in IteratorKinds, n \in DOMAIN subqueries :
       iterator' = NewIterator(kind, n)
  /\ returned' = <<>>
  /\ UNCHANGED <<pc, query, encoding, subqueries>>

(* Fault injection: hasNext() steps over one bound per variable.           *)
SkipHalf(s, it) ==
  LET skipped == Cardinality(Skipped(s, it))
  IN  [it EXCEPT !.varIdx = @ + skipped, !.boundsIdx = @ + skipped]

Skip(s, it) ==
  LET skipped == Cardinality(Skipped(s, it))
  IN  [it EXCEPT !.varIdx = @ + skipped, !.boundsIdx = @ + 2 * skipped]

HasNext ==
  /\ pc = "read" /\ iterator.of # 0
  /\ LET at == IF iterator.kind = "DictVars" THEN iterator
               ELSE Skip(Subquery(iterator), iterator)
         more == IF iterator.kind = "DictVars"
                 THEN at.boundsIdx < Len(Subquery(at).dictVarBounds)
                 ELSE at.varIdx # Len(Subquery(at).wildcardVarPlaceholders)
     IN  iterator' = [at EXCEPT !.hasNext = IF more THEN "true" ELSE "false"]
  /\ UNCHANGED <<pc, query, encoding, subqueries, returned>>

AfterNext(it) ==
  [it EXCEPT !.boundsIdx = @ + 2,
             !.varIdx = IF it.kind = "DictVars" THEN @ ELSE @ + 1,
             !.hasNext = "unknown"]

(* next(), where it does not throw ArrayIndexOutOfBoundsException.         *)
NextVar ==
  /\ pc = "read" /\ iterator.of # 0
  /\ ForEachOnly => iterator.hasNext = "true"
  /\ LET bounds == IF iterator.kind = "DictVars"
                   THEN Subquery(iterator).dictVarBounds
                   ELSE Subquery(iterator).wildcardVarBounds
         types == Subquery(iterator).wildcardVarPlaceholders
         type == IF iterator.kind = "DictVars" THEN "none"
                 ELSE types[iterator.varIdx + 1]
     IN  /\ iterator.boundsIdx + 1 < Len(bounds)
         /\ iterator.kind # "DictVars" => iterator.varIdx < Len(types)
         /\ returned' = Append(returned,
                               [type |-> type,
                                parent |-> Subquery(iterator).query,
                                begin |-> bounds[iterator.boundsIdx + 1],
                                end |-> bounds[iterator.boundsIdx + 2]])
  /\ iterator' = AfterNext(iterator)
  /\ UNCHANGED <<pc, query, encoding, subqueries>>

(* The caller is done with these subqueries.                               *)
Done ==
  /\ pc = "read"
  /\ pc' = "idle"
  /\ iterator' = NewIterator("DictVars", 0)
  /\ returned' = <<>>
  /\ subqueries' = <<>>
  /\ query' = <<>>
  /\ UNCHANGED encoding

Next ==
  \/ Encode \/ NextSubquery \/ Visit \/ MakeSubquery \/ EncodeFails
  \/ StartIteration \/ HasNext \/ NextVar \/ Done

Spec == Init /\ [][Next]_vars

-----------------------------------------------------------------------------
(* Properties.                                                             *)

(* The indices of the variables of the n-th subquery with kinds in S.      *)
VarsOf(n, S) == Indices(query[n], S)

ContainsVariables(s) ==
  s.dictVarBounds # <<>> \/ s.wildcardVarPlaceholders # <<>> \/ s.encodedVars # <<>>

BoundsOf(indices) ==
  FlattenSeq([k \in DOMAIN indices |-> <<BeginPos(indices[k]), EndPos(indices[k])>>])

(* Each variable the core found in a subquery reaches Java once, in order, *)
(* with its own kind and bounds, and nothing of another subquery does.     *)
EachVariableOnce ==
  \A n \in DOMAIN subqueries :
    LET s == subqueries[n]
        wildcards == VarsOf(n, Placeholders)
        exactEncoded == VarsOf(n, {"exactEncoded"})
    IN  /\ s.dictVarBounds = BoundsOf(VarsOf(n, {"exactDictionary"}))
        /\ s.encodedVars = [k \in DOMAIN exactEncoded |-> EncodedValue(exactEncoded[k])]
        /\ s.wildcardVarPlaceholders
             = [k \in DOMAIN wildcards |-> query[n][wildcards[k]]]
        /\ s.wildcardVarBounds = BoundsOf(wildcards)
        /\ ContainsVariables(s) <=> query[n] # <<>>

(* What an iterable is documented to be an iterable of.                    *)
KindsOf(kind) ==
  CASE kind = "DictVars" -> {"exactDictionary"}
    [] kind = "DictVarWildcardQueries" -> {"Dictionary"}
    [] kind = "EncodedVarWildcardQueries" -> {"Integer", "Float"}

Documented(it) ==
  LET indices == VarsOf(it.of, KindsOf(it.kind))
  IN  [k \in DOMAIN indices |->
         [type |-> IF it.kind = "DictVars" THEN "none"
                   ELSE query[it.of][indices[k]],
          parent |-> "clean",
          begin |-> BeginPos(indices[k]),
          end |-> EndPos(indices[k])]]

(* An iteration returns the variables of its type, in order, each with its *)
(* own bounds, however often hasNext() is called in between, and hasNext() *)
(* is false exactly after the last.                                        *)
IterationComplete ==
  iterator.of # 0 =>
    /\ IsPrefix(returned, Documented(iterator))
    /\ iterator.hasNext = "false" => returned = Documented(iterator)
    /\ iterator.hasNext = "true" => returned # Documented(iterator)

(* An iterable is documented as one "of the wildcard-containing variables  *)
(* that should be interpreted as" dictionary (encoded) variables, so its   *)
(* iterator's next() should return those and no others, called with or     *)
(* without hasNext().                                                      *)
NextReturnsItsType ==
  \A k \in DOMAIN returned :
    iterator.kind # "DictVars" => isRelevantType(iterator.kind, returned[k].type)
=============================================================================
