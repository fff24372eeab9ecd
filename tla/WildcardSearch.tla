---------------------------- MODULE WildcardSearch ----------------------------
(***************************************************************************)
(* Searching with a wildcard query, as the callers do: encode it, serialise*)
(* each subquery's encoded-variable wildcard queries with its iterable, and*)
(* match a batch of messages against them.  Composes EncodedSubqueries and *)
(* BatchMatching; the caller's own steps are those of EncodingTests.       *)
(***************************************************************************)
EXTENDS EncodedSubqueries, BatchMatching

CONSTANT Rows  \* the encodedVarArrays that are searched

(* The arrays can hold any subquery's types, 0 where nothing is filled in, *)
(* and the bytes of the query up to the last of its variables.             *)
ASSUME SearchAssumption ==
  /\ Rows \subseteq Seq({"variables", Null})
  /\ Placeholders \cup {""} \subseteq TypeBytes
  /\ \A q \in Queries : \A n \in DOMAIN q :
       Parents \X (0 .. EndPos(Len(q[n]))) \subseteq Bytes

VARIABLE searched  \* the subquery the batch is matched against, or 0

searchVars == <<vars, batchVars, searched>>

SearchInit == Init /\ BatchInit /\ searched = 0

(* The iterator of a for-each loop that has come to varIdx.                *)
CountingFrom(varIdx) ==
  [NewIterator("EncodedVarWildcardQueries", 0)
     EXCEPT !.varIdx = varIdx, !.boundsIdx = 2 * varIdx]

(* Fault injection: variables of both types are counted.                   *)
getNumVarWildcardQueries(s) == Len(s.wildcardVarPlaceholders)

(* The loop that counts: hasNext() skips, next() goes one on.              *)
getNumEncodedVarWildcardQueries(s) ==
  LET length == Len(s.wildcardVarPlaceholders)
      count[varIdx \in 0 .. length] ==  \* from varIdx to the end
        LET next == Skip(s, CountingFrom(varIdx)).varIdx
        IN  IF next = length THEN 0 ELSE 1 + count[next + 1]
  IN  count[0]

toByteArray(segment) ==
  [n \in 1 .. segment.end - segment.begin |->
     <<segment.parent, segment.begin + n - 1>>]

Serialized(segments) == FlattenSeq([k \in DOMAIN segments |-> toByteArray(segments[k])])

(* The arrays have room for as many as the subquery counts, and are filled *)
(* from the iteration.                                                     *)
ArgumentsFor(rows, s) ==
  LET slots == 1 .. getNumEncodedVarWildcardQueries(s)
  IN  [logtypes |-> [r \in DOMAIN rows |-> "logtype"],
       encodedVarArrays |-> rows,
       wildcardVarPlaceholders |->
         [k \in slots |-> IF k \in DOMAIN returned THEN returned[k].type ELSE ""],
       serializedVarWildcardQueries |-> Serialized(returned),
       varWildcardQueryEndIndexes |->
         [k \in slots |-> IF k \in DOMAIN returned
                          THEN Len(Serialized(SubSeq(returned, 1, k))) ELSE 0],
       matchResults |-> [r \in DOMAIN rows |-> 0]]

(* Having iterated to the end, the caller matches the batch.               *)
SearchSubquery ==
  /\ pc = "read"
  /\ iterator.kind = "EncodedVarWildcardQueries" /\ iterator.hasNext = "false"
  /\ \E rows \in Rows : CallBatch(ArgumentsFor(rows, Subquery(iterator)))
  /\ searched' = iterator.of
  /\ UNCHANGED vars

(* Another caller, with arguments of its own.                              *)
MatchAnything ==
  /\ pc = "idle"
  /\ \E a \in Batches : CallBatch(a)
  /\ UNCHANGED <<vars, searched>>

Match ==
  /\ BatchStep
  /\ searched' = IF batchPc' = "idle" THEN 0 ELSE searched
  /\ UNCHANGED vars

(* The query is encoded and iterated over.                                 *)
EncodeAndIterate ==
  /\ batchPc = "idle"
  /\ Next
  /\ UNCHANGED <<batchVars, searched>>

SearchNext == SearchSubquery \/ MatchAnything \/ Match \/ EncodeAndIterate

SearchSpec == SearchInit /\ [][SearchNext]_searchVars

-----------------------------------------------------------------------------
(* From the core to the core: the types and the bytes the native method    *)
(* matches each message against are those of exactly the variables that the*)
(* core found in the subquery to be integers or floats with wildcards, in  *)
(* order, through the vectors, the bounds, the iterator, the serialisation *)
(* and the cuts, and no such batch is rejected.                            *)
MatchesSubquery ==
  searched # 0 =>
    LET wildcards == VarsOf(searched, {"Integer", "Float"})
        cutOut(q) == SubSeq(args.serializedVarWildcardQueries, q.begin + 1, q.end)
        textOf(k) == [n \in 1 .. EndPos(k) - BeginPos(k) |->
                        <<"clean", BeginPos(k) + n - 1>>]
    IN  /\ batchPc = "arrays" => ValidArrays
        /\ batchPc = "indexes" /\ at <= Len(EndIndexes)
             => ValidEndIndex(EndIndexes[at])
        /\ batchPc \in {"rows", "returned"} =>
             /\ args.wildcardVarPlaceholders
                  = [k \in DOMAIN wildcards |-> query[searched][wildcards[k]]]
             /\ [q \in DOMAIN var_wildcard_queries |-> cutOut(var_wildcard_queries[q])]
                  = [k \in DOMAIN wildcards |-> textOf(wildcards[k])]
=============================================================================
