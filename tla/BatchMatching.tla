---------------------------- MODULE BatchMatching ----------------------------
(***************************************************************************)
(* MessageDecoder.batchEncodedVarsWildcardMatch: the validation in Java and*)
(* the native method that relies on it, which cuts the serialised wildcard *)
(* queries up at the end indexes and then matches the rows one by one.     *)
(* Whether a row matches is the CLP core's choice.  BatchSpec is a caller  *)
(* that makes one call after another, with any of Batches.                 *)
(***************************************************************************)
EXTENDS Integers, Sequences

CONSTANTS
  Bytes,      \* what wildcard queries are made of
  TypeBytes,  \* what wildcardVarPlaceholders are made of
  Batches,    \* arguments of a call
  Null        \* null: for an array, or a row's logtype or variables

(* A Java array of these elements, or null.                                *)
Array(S) == {Null} \cup Seq(S)

(* Logtypes and variables are not told apart.                              *)
Arguments ==
  [logtypes                     : Array({"logtype", Null}),
   encodedVarArrays             : Array({"variables", Null}),
   wildcardVarPlaceholders      : Array(TypeBytes),
   serializedVarWildcardQueries : Array(Bytes),
   varWildcardQueryEndIndexes   : Array(Int),
   matchResults                 : Array(Int)]

Parameters == {"logtypes", "encodedVarArrays", "wildcardVarPlaceholders",
               "serializedVarWildcardQueries", "varWildcardQueryEndIndexes",
               "matchResults"}

ASSUME BatchAssumption ==
  /\ Batches \subseteq Arguments
  /\ Null \notin Seq({"logtype", Null}) /\ Null \notin Seq({"variables", Null})
  /\ Null \notin Seq(TypeBytes) /\ Null \notin Seq(Bytes) /\ Null \notin Seq(Int)

VARIABLES
  batchPc,
  args,
  at,                    \* element the loop in progress is at
  lastIdx,               \* where the query before it ended; query_begin_idx
                         \* in the native method
  var_wildcard_queries,  \* the queries cut out, as [begin, end)
  matchResults           \* contents of the caller's array

batchVars == <<batchPc, args, at, lastIdx, var_wildcard_queries, matchResults>>

EndIndexes == args.varWildcardQueryEndIndexes
NoBatch == [f \in Parameters |-> <<>>]

BatchInit ==
  /\ batchPc = "idle"
  /\ args = NoBatch
  /\ at = 1
  /\ lastIdx = 0
  /\ var_wildcard_queries = <<>>
  /\ matchResults = <<>>

-----------------------------------------------------------------------------
(* Each loop starts at its array's first element.                          *)
Begin(loop) == batchPc' = loop /\ at' = 1 /\ lastIdx' = 0
End(outcome) == batchPc' = outcome /\ UNCHANGED <<at, lastIdx>>

CallBatch(a) ==
  /\ batchPc = "idle"
  /\ args' = a
  /\ matchResults' = a.matchResults
  /\ batchPc' = "arrays"
  /\ UNCHANGED <<at, lastIdx, var_wildcard_queries>>

ValidArrays ==
  /\ \A f \in Parameters : args[f] # Null
  /\ Len(args.logtypes) = Len(args.matchResults)
  /\ Len(args.encodedVarArrays) = Len(args.matchResults)

ValidateArrays ==
  /\ batchPc = "arrays"
  /\ \/ ValidArrays /\ Begin("indexes")
     \/ ~ValidArrays /\ End("threw")
  /\ UNCHANGED <<args, var_wildcard_queries, matchResults>>

(* Fault injection: the end indexes are not compared with each other.      *)
ValidEndIndexUnordered(i) == i <= Len(args.serializedVarWildcardQueries)

ValidEndIndex(i) ==
  i >= lastIdx /\ i <= Len(args.serializedVarWildcardQueries)

ValidateEndIndex ==
  /\ batchPc = "indexes"
  /\ \/ /\ at > Len(EndIndexes)
        /\ Begin("queries")
     \/ /\ at <= Len(EndIndexes)
        /\ ValidEndIndex(EndIndexes[at])
        /\ lastIdx' = EndIndexes[at]
        /\ at' = at + 1
        /\ UNCHANGED batchPc
     \/ /\ at <= Len(EndIndexes)
        /\ ~ValidEndIndex(EndIndexes[at])
        /\ End("threw")
  /\ UNCHANGED <<args, var_wildcard_queries, matchResults>>

(* Fault injection: the next query begins one byte late.                   *)
CutQueryLate(end) == [begin |-> lastIdx + at - 1, end |-> end]

CutQuery(end) == [begin |-> lastIdx, end |-> end]

(* The native method.                                                      *)
DeserializeQuery ==
  /\ batchPc = "queries"
  /\ \/ /\ at > Len(EndIndexes)
        /\ Begin("rows")
        /\ UNCHANGED var_wildcard_queries
     \/ /\ at <= Len(EndIndexes)
        /\ var_wildcard_queries' =
             Append(var_wildcard_queries, CutQuery(EndIndexes[at]))
        /\ lastIdx' = EndIndexes[at]
        /\ at' = at + 1
        /\ UNCHANGED batchPc
  /\ UNCHANGED <<args, matchResults>>

(* Fault injection: a row without variables is skipped.                    *)
MatchRowSkipping ==
  /\ batchPc = "rows"
  /\ at <= Len(args.logtypes)
  /\ \E r \in {0, 1} :
       matchResults' = IF args.encodedVarArrays[at] = Null THEN matchResults
                       ELSE [matchResults EXCEPT ![at] = r]
  /\ at' = at + 1
  /\ UNCHANGED <<batchPc, args, lastIdx, var_wildcard_queries>>

(* A row without encoded variables does not match.                         *)
MatchRow ==
  /\ batchPc = "rows"
  /\ at <= Len(args.logtypes)
  /\ \E r \in {0, 1} :
       /\ args.encodedVarArrays[at] = Null => r = 0
       /\ matchResults' = [matchResults EXCEPT ![at] = r]
  /\ at' = at + 1
  /\ UNCHANGED <<batchPc, args, lastIdx, var_wildcard_queries>>

(* The core or a JNI call fails; releasing the array copies back the       *)
(* results there are so far.                                               *)
BatchFails ==
  /\ \/ batchPc = "queries"
     \/ batchPc = "rows" /\ at <= Len(args.logtypes)
  /\ End("threw")
  /\ UNCHANGED <<args, var_wildcard_queries, matchResults>>

ReturnResults ==
  /\ batchPc = "rows"
  /\ at > Len(args.logtypes)
  /\ End("returned")
  /\ UNCHANGED <<args, var_wildcard_queries, matchResults>>

(* The caller goes on.                                                     *)
BatchDone ==
  /\ batchPc \in {"returned", "threw"}
  /\ args' = NoBatch
  /\ matchResults' = <<>>
  /\ var_wildcard_queries' = <<>>
  /\ Begin("idle")

BatchStep ==
  \/ ValidateArrays \/ ValidateEndIndex
  \/ DeserializeQuery \/ MatchRow \/ BatchFails \/ ReturnResults
  \/ BatchDone

BatchNext == (\E a \in Batches : CallBatch(a)) \/ BatchStep

BatchSpec == BatchInit /\ [][BatchNext]_batchVars

-----------------------------------------------------------------------------
(* Properties.                                                             *)

(* The native method checks nothing: that Java validated the end indexes   *)
(* must be enough for its string_views to lie within the array (whose      *)
(* lengths are unsigned, so an end before its begin would not) and to tile *)
(* it, each query beginning where the one before it ended.                 *)
QueriesTile ==
  \A q \in 1 .. Len(var_wildcard_queries) :
    LET cut == var_wildcard_queries[q]
    IN  /\ 0 <= cut.begin
        /\ cut.begin <= cut.end
        /\ cut.end <= Len(args.serializedVarWildcardQueries)
        /\ cut.begin = IF q = 1 THEN 0 ELSE var_wildcard_queries[q - 1].end
        /\ cut.end = EndIndexes[q]

(* matchResults is the caller's array, with what an earlier call left in   *)
(* it.  A call that returns has replaced all of it, also where a row has no*)
(* variables; one that throws has replaced what comes before the row it    *)
(* failed at, and nothing if an argument was rejected.                     *)
Replaced(n) ==
  \A r \in 1 .. Len(matchResults) :
    IF r <= n
    THEN /\ matchResults[r] \in {0, 1}
         /\ args.encodedVarArrays[r] = Null => matchResults[r] = 0
    ELSE matchResults[r] = args.matchResults[r]

NoStaleResult ==
  /\ batchPc \in {"arrays", "indexes", "queries"} => matchResults = args.matchResults
  /\ batchPc = "rows" => Replaced(at - 1)
  /\ batchPc = "returned" => Replaced(Len(matchResults))
  /\ batchPc = "threw" /\ matchResults # Null =>
       \E n \in 0 .. Len(matchResults) : Replaced(n)
=============================================================================
