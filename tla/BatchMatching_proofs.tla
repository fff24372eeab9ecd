------------------------- MODULE BatchMatching_proofs -------------------------
(***************************************************************************)
(* Safety of BatchMatching for arrays of any lengths and contents: that the*)
(* validation in Java is all the native method needs, and that no result of*)
(* an earlier call survives one that returns.                              *)
(***************************************************************************)
EXTENDS BatchMatching, TLAPS

Previous(q) == IF q = 1 THEN 0 ELSE EndIndexes[q - 1]

(* The first n end indexes have been found valid.                          *)
ValidTo(n) ==
  \A q \in 1 .. n : /\ 0 <= Previous(q)
                    /\ Previous(q) <= EndIndexes[q]
                    /\ EndIndexes[q] <= Len(args.serializedVarWildcardQueries)

ArgsInv ==
  /\ batchPc \in {"idle", "arrays", "indexes", "queries", "rows", "returned",
                  "threw"}
  /\ batchPc # "idle" => args \in Arguments
  /\ batchPc \in {"indexes", "queries", "rows", "returned"} => ValidArrays

LoopInv ==
  /\ batchPc \in {"idle", "arrays", "indexes"} => var_wildcard_queries = <<>>
  /\ batchPc \in {"indexes", "queries"} =>
       /\ at \in 1 .. Len(EndIndexes) + 1
       /\ lastIdx = Previous(at) /\ 0 <= lastIdx
  /\ batchPc = "indexes" => ValidTo(at - 1)
  /\ batchPc = "queries" =>
       ValidTo(Len(EndIndexes)) /\ Len(var_wildcard_queries) = at - 1
  /\ batchPc \in {"rows", "returned"} =>
       Len(var_wildcard_queries) = Len(EndIndexes)

CutInv ==
  /\ var_wildcard_queries \in Seq([begin : Int, end : Int])
  /\ var_wildcard_queries # <<>> =>
       /\ Len(var_wildcard_queries) <= Len(EndIndexes)
       /\ ValidTo(Len(EndIndexes))
       /\ EndIndexes \in Seq(Int)
  /\ \A q \in 1 .. Len(var_wildcard_queries) :
       var_wildcard_queries[q] = [begin |-> Previous(q), end |-> EndIndexes[q]]

ResultInv ==
  /\ batchPc \in {"indexes", "queries", "rows", "returned"} =>
       matchResults \in Seq(Int) /\ Len(matchResults) = Len(args.matchResults)
  /\ batchPc = "rows" => at \in 1 .. Len(matchResults) + 1
  /\ NoStaleResult

IInv == ArgsInv /\ LoopInv /\ CutInv /\ ResultInv

-----------------------------------------------------------------------------
(* What ValidArrays makes of the arguments.                                *)
LEMMA ValidArguments ==
  ASSUME args \in Arguments, ValidArrays
  PROVE  /\ EndIndexes \in Seq(Int) /\ Len(EndIndexes) \in Nat
         /\ args.serializedVarWildcardQueries \in Seq(Bytes)
         /\ Len(args.serializedVarWildcardQueries) \in Nat
         /\ args.matchResults \in Seq(Int)
         /\ Len(args.logtypes) = Len(args.matchResults)
         /\ Len(args.matchResults) \in Nat
BY DEF Arguments, Array, ValidArrays, Parameters, EndIndexes

(* The fields of a cut.                                                    *)
LEMMA CutFields ==
  ASSUME NEW cut, NEW b, NEW e, cut = [begin |-> b, end |-> e]
  PROVE  cut.begin = b /\ cut.end = e
OBVIOUS

LEMMA InitIInv == BatchInit => IInv
BY DEF BatchInit, IInv, ArgsInv, LoopInv, CutInv, ResultInv, NoStaleResult

LEMMA CallBatchIInv ==
  ASSUME IInv, NEW a \in Arguments, CallBatch(a)
  PROVE  IInv'
<1> USE DEF IInv, CallBatch
<1>1. ArgsInv'
  BY DEF ArgsInv
<1>2. var_wildcard_queries' = <<>>
  BY DEF LoopInv
<1>3. LoopInv' /\ CutInv'
  BY <1>2 DEF LoopInv, CutInv
<1>4. ResultInv'
  BY DEF ResultInv, NoStaleResult
<1>5. QED  BY <1>1, <1>3, <1>4

LEMMA ValidateArraysIInv ==
  ASSUME IInv, ValidateArrays
  PROVE  IInv'
<1> USE DEF IInv, ValidateArrays, Begin, End
<1>1. ArgsInv'
  BY DEF ArgsInv, ValidArrays
<1>2. var_wildcard_queries' = <<>> /\ args' = args /\ matchResults' = matchResults
  BY DEF LoopInv
<1>3. batchPc' = "indexes" => EndIndexes' \in Seq(Int) /\ Len(EndIndexes') \in Nat
  BY <1>2, ValidArguments DEF ArgsInv, EndIndexes
<1>4. LoopInv' /\ CutInv'
  BY <1>2, <1>3 DEF LoopInv, CutInv, Previous, ValidTo
<1>5. ResultInv'
  <2>1. matchResults = args.matchResults
    BY DEF ResultInv, NoStaleResult
  <2>2. CASE batchPc' = "indexes"
    BY <1>2, <2>1, <2>2, ValidArguments DEF ArgsInv, ResultInv, NoStaleResult
  <2>3. CASE batchPc' = "threw"
    <3>1. matchResults # Null => Len(matchResults) \in Nat
      BY <2>1 DEF ArgsInv, Arguments, Array
    <3>2. Replaced(0)'
      BY <1>2, <2>1 DEF Replaced
    <3>3. NoStaleResult'
      BY <1>2, <2>3, <3>1, <3>2 DEF NoStaleResult
    <3>4. QED  BY <2>3, <3>3 DEF ResultInv
  <2>4. QED  BY <2>2, <2>3
<1>6. QED  BY <1>1, <1>4, <1>5

LEMMA ValidateEndIndexIInv ==
  ASSUME IInv, ValidateEndIndex
  PROVE  IInv'
<1> USE DEF IInv, ValidateEndIndex, Begin, End
<1>1. ArgsInv'
  BY DEF ArgsInv, ValidArrays
<1>2. /\ var_wildcard_queries' = <<>> /\ var_wildcard_queries = <<>>
      /\ args' = args /\ matchResults' = matchResults
  BY DEF LoopInv
<1>3. /\ EndIndexes \in Seq(Int) /\ Len(EndIndexes) \in Nat
      /\ Len(args.serializedVarWildcardQueries) \in Nat
  BY ValidArguments DEF ArgsInv
<1>4. EndIndexes' = EndIndexes
  BY <1>2 DEF EndIndexes
<1>5. LoopInv'
  <2>1. CASE batchPc' = "indexes"
    <3>1. /\ at \in 1 .. Len(EndIndexes) /\ at' = at + 1
          /\ lastIdx' = EndIndexes[at] /\ ValidEndIndex(EndIndexes[at])
          /\ lastIdx = Previous(at) /\ 0 <= lastIdx /\ ValidTo(at - 1)
      BY <1>3, <2>1 DEF LoopInv
    <3>2. EndIndexes[at] \in Int /\ lastIdx \in Int
      BY <1>3, <3>1 DEF Previous
    <3>3. ValidTo(at)
      BY <1>3, <3>1, <3>2 DEF ValidTo, ValidEndIndex
    <3>4. lastIdx' = Previous(at') /\ 0 <= lastIdx'
      BY <3>1, <3>2 DEF Previous, ValidEndIndex
    <3>5. QED
      BY <1>2, <1>3, <1>4, <2>1, <3>1, <3>3, <3>4
         DEF LoopInv, ValidTo, Previous
  <2>2. CASE batchPc' = "queries"
    <3>1. at = Len(EndIndexes) + 1 /\ ValidTo(Len(EndIndexes))
      BY <1>3, <2>2 DEF LoopInv
    <3>2. QED
      BY <1>2, <1>3, <1>4, <2>2, <3>1 DEF LoopInv, ValidTo, Previous
  <2>3. CASE batchPc' = "threw"
    BY <2>3 DEF LoopInv
  <2>4. QED  BY <2>1, <2>2, <2>3
<1>6. CutInv'
  BY <1>2 DEF CutInv
<1>7. ResultInv'
  <2>1. matchResults = args.matchResults /\ Len(matchResults) \in Nat
    BY ValidArguments DEF ArgsInv, ResultInv, NoStaleResult
  <2>2. Replaced(0)'
    BY <1>2, <2>1 DEF Replaced
  <2>3. QED  BY <1>2, <2>1, <2>2 DEF ResultInv, NoStaleResult
<1>8. QED  BY <1>1, <1>5, <1>6, <1>7

LEMMA DeserializeQueryIInv ==
  ASSUME IInv, DeserializeQuery
  PROVE  IInv'
<1> USE DEF IInv, DeserializeQuery, Begin
<1>1. ArgsInv'
  BY DEF ArgsInv, ValidArrays
<1>2. args' = args /\ matchResults' = matchResults
  OBVIOUS
<1>3. /\ EndIndexes \in Seq(Int) /\ Len(EndIndexes) \in Nat
      /\ Len(args.matchResults) \in Nat
  BY ValidArguments DEF ArgsInv
<1>4. EndIndexes' = EndIndexes
  BY <1>2 DEF EndIndexes
<1>5. /\ at \in 1 .. Len(EndIndexes) + 1 /\ lastIdx = Previous(at) /\ 0 <= lastIdx
      /\ ValidTo(Len(EndIndexes)) /\ Len(var_wildcard_queries) = at - 1
      /\ var_wildcard_queries \in Seq([begin : Int, end : Int])
  BY DEF LoopInv, CutInv
<1>6. ValidTo(Len(EndIndexes))'
  BY <1>2, <1>4, <1>5 DEF ValidTo, Previous
<1>7. LoopInv' /\ CutInv'
  <2>1. CASE batchPc' = "queries"
    <3> DEFINE cut == CutQuery(EndIndexes[at])
    <3>1. /\ at \in 1 .. Len(EndIndexes) /\ at' = at + 1 /\ lastIdx' = EndIndexes[at]
          /\ var_wildcard_queries' = Append(var_wildcard_queries, cut)
      BY <1>3, <1>5, <2>1
    <3>2. EndIndexes[at] \in Int /\ lastIdx \in Int
      BY <1>3, <1>5, <3>1 DEF Previous
    <3>3. /\ cut = [begin |-> Previous(at), end |-> EndIndexes[at]]
          /\ cut \in [begin : Int, end : Int]
      BY <1>5, <3>2 DEF CutQuery
    <3>4. lastIdx' = Previous(at') /\ 0 <= lastIdx'
      BY <1>5, <3>1, <3>2 DEF Previous, ValidTo
    <3>5. LoopInv'
      BY <1>2, <1>3, <1>4, <1>5, <1>6, <2>1, <3>1, <3>3, <3>4 DEF LoopInv, Previous
    <3>6. \A q \in 1 .. at :
            var_wildcard_queries'[q] = [begin |-> Previous(q), end |-> EndIndexes[q]]
      <4>1. /\ var_wildcard_queries'[at] = cut
            /\ \A q \in 1 .. at - 1 :
                 var_wildcard_queries'[q] = var_wildcard_queries[q]
        BY <1>5, <3>1, <3>3
      <4>2. \A q \in 1 .. at - 1 :
              var_wildcard_queries[q] =
                [begin |-> Previous(q), end |-> EndIndexes[q]]
        BY <1>5 DEF CutInv
      <4>3. \A q \in 1 .. at : q = at \/ q \in 1 .. at - 1
        BY <1>3, <3>1
      <4>4. QED  BY <3>3, <4>1, <4>2, <4>3
    <3>7. /\ var_wildcard_queries' \in Seq([begin : Int, end : Int])
          /\ Len(var_wildcard_queries') = at
      BY <1>5, <3>1, <3>3
    <3>8. CutInv'
      BY <1>3, <1>4, <1>6, <3>1, <3>6, <3>7 DEF CutInv, Previous
    <3>9. QED  BY <3>5, <3>8
  <2>2. CASE batchPc' = "rows"
    <3>1. LoopInv'
      <4>1. at = Len(EndIndexes) + 1 /\ var_wildcard_queries' = var_wildcard_queries
        BY <1>3, <1>5, <2>2
      <4>2. Len(var_wildcard_queries') = Len(EndIndexes')
        BY <1>3, <1>4, <1>5, <4>1
      <4>3. QED  BY <2>2, <4>2 DEF LoopInv
    <3>2. CutInv'
      BY <1>2, <1>4, <1>6, <2>2 DEF CutInv, Previous
    <3>3. QED  BY <3>1, <3>2
  <2>3. QED  BY <2>1, <2>2
<1>8. ResultInv'
  BY <1>2, <1>3 DEF ResultInv, NoStaleResult, Replaced
<1>9. QED  BY <1>1, <1>7, <1>8

(* Steps that do not touch the queries.                                    *)
LEMMA QueriesKept ==
  ASSUME CutInv, UNCHANGED <<args, var_wildcard_queries>>
  PROVE  CutInv'
BY DEF CutInv, ValidTo, Previous, EndIndexes

LEMMA MatchRowIInv ==
  ASSUME IInv, MatchRow
  PROVE  IInv'
<1> USE DEF IInv, MatchRow
<1>1. ArgsInv' /\ LoopInv' /\ CutInv'
  BY QueriesKept DEF ArgsInv, LoopInv, ValidArrays, EndIndexes
<1>2. /\ Len(matchResults) = Len(args.logtypes) /\ Len(matchResults) \in Nat
      /\ matchResults \in Seq(Int) /\ at \in 1 .. Len(matchResults)
  BY ValidArguments DEF ArgsInv, ResultInv
<1>3. PICK r \in {0, 1} : /\ args.encodedVarArrays[at] = Null => r = 0
                          /\ matchResults' = [matchResults EXCEPT ![at] = r]
  OBVIOUS
<1>4. matchResults' \in Seq(Int) /\ Len(matchResults') = Len(matchResults)
  BY <1>2, <1>3
<1>5. Replaced(at - 1)
  BY DEF ResultInv, NoStaleResult
<1>6. Replaced(at - 1)'
  BY <1>2, <1>3, <1>4, <1>5 DEF Replaced
<1>7. ResultInv'
  BY <1>2, <1>4, <1>6 DEF ResultInv, NoStaleResult
<1>8. QED  BY <1>1, <1>7

LEMMA BatchFailsIInv ==
  ASSUME IInv, BatchFails
  PROVE  IInv'
<1> USE DEF IInv, BatchFails, End
<1>1. ArgsInv' /\ LoopInv' /\ CutInv'
  BY QueriesKept DEF ArgsInv, LoopInv
<1>2. Len(matchResults) \in Nat
  BY DEF ResultInv
<1>3. CASE batchPc = "queries"
  <2>1. Replaced(0)'
    BY <1>3 DEF ResultInv, NoStaleResult, Replaced
  <2>2. QED  BY <1>1, <1>2, <2>1 DEF ResultInv, NoStaleResult
<1>4. CASE batchPc = "rows"
  <2>1. Replaced(at - 1)' /\ at - 1 \in 0 .. Len(matchResults)
    BY <1>2, <1>4 DEF ResultInv, NoStaleResult, Replaced
  <2>2. QED  BY <1>1, <1>2, <2>1 DEF ResultInv, NoStaleResult
<1>5. QED  BY <1>3, <1>4

LEMMA ReturnResultsIInv ==
  ASSUME IInv, ReturnResults
  PROVE  IInv'
<1> USE DEF IInv, ReturnResults, End
<1>1. ArgsInv' /\ LoopInv' /\ CutInv'
  BY QueriesKept DEF ArgsInv, LoopInv, ValidArrays, EndIndexes
<1>2. at - 1 = Len(matchResults)
  <2>1. args \in Arguments /\ ValidArrays
    BY DEF ArgsInv
  <2>2. Len(args.logtypes) = Len(matchResults) /\ Len(matchResults) \in Nat
    BY <2>1, ValidArguments DEF ResultInv
  <2>3. at \in 1 .. Len(matchResults) + 1 /\ at > Len(args.logtypes)
    BY DEF ResultInv
  <2>4. QED  BY <2>2, <2>3
<1>3. Replaced(Len(matchResults))'
  BY <1>2 DEF ResultInv, NoStaleResult, Replaced
<1>4. QED  BY <1>1, <1>3 DEF ResultInv, NoStaleResult

LEMMA StepIInv == IInv /\ [BatchNext]_batchVars => IInv'
<1> SUFFICES ASSUME IInv, [BatchNext]_batchVars PROVE IInv'
  OBVIOUS
<1>1. CASE UNCHANGED batchVars
  <2>1. ArgsInv'
    BY <1>1 DEF batchVars, IInv, ArgsInv, ValidArrays, EndIndexes
  <2>2. LoopInv' /\ CutInv'
    BY <1>1 DEF batchVars, IInv, LoopInv, CutInv, ValidTo, Previous, EndIndexes
  <2>3. ResultInv'
    BY <1>1 DEF batchVars, IInv, ResultInv, NoStaleResult, Replaced
  <2>4. QED  BY <2>1, <2>2, <2>3 DEF IInv
<1>2. CASE BatchDone
  BY <1>2 DEF BatchDone, Begin, IInv, ArgsInv, LoopInv, CutInv, ResultInv,
              NoStaleResult
<1>3. ASSUME NEW a \in Batches, CallBatch(a) PROVE IInv'
  BY <1>3, CallBatchIInv, BatchAssumption
<1>4. QED
  BY <1>1, <1>2, <1>3, ValidateArraysIInv, ValidateEndIndexIInv,
     DeserializeQueryIInv, MatchRowIInv, BatchFailsIInv, ReturnResultsIInv
     DEF BatchNext, BatchStep

LEMMA IInvHolds == BatchSpec => []IInv
BY InitIInv, StepIInv, PTL DEF BatchSpec

LEMMA TilesHold == IInv => QueriesTile
<1> SUFFICES ASSUME IInv, NEW q \in 1 .. Len(var_wildcard_queries)
             PROVE  LET cut == var_wildcard_queries[q]
                    IN  /\ 0 <= cut.begin
                        /\ cut.begin <= cut.end
                        /\ cut.end <= Len(args.serializedVarWildcardQueries)
                        /\ cut.begin = IF q = 1 THEN 0
                                       ELSE var_wildcard_queries[q - 1].end
                        /\ cut.end = EndIndexes[q]
  BY DEF QueriesTile
<1>1. /\ Len(var_wildcard_queries) \in Nat /\ Len(EndIndexes) \in Nat
      /\ q \in 1 .. Len(EndIndexes) /\ ValidTo(Len(EndIndexes))
  BY DEF IInv, CutInv
<1>2. \A p \in 1 .. Len(var_wildcard_queries) :
        /\ var_wildcard_queries[p].begin = Previous(p)
        /\ var_wildcard_queries[p].end = EndIndexes[p]
  <2>1. \A p \in 1 .. Len(var_wildcard_queries) :
          var_wildcard_queries[p] = [begin |-> Previous(p), end |-> EndIndexes[p]]
    BY DEF IInv, CutInv
  <2> TAKE p \in 1 .. Len(var_wildcard_queries)
  <2>2. var_wildcard_queries[p] = [begin |-> Previous(p), end |-> EndIndexes[p]]
    BY <2>1
  <2>3. QED  BY <2>2, CutFields
<1>3. q # 1 => var_wildcard_queries[q - 1].end = Previous(q)
  <2>1. q # 1 => q - 1 \in 1 .. Len(var_wildcard_queries)
    BY <1>1
  <2>2. QED  BY <1>2, <2>1 DEF Previous
<1>4. /\ 0 <= Previous(q) /\ Previous(q) <= EndIndexes[q]
      /\ EndIndexes[q] <= Len(args.serializedVarWildcardQueries)
  BY <1>1 DEF ValidTo
<1>5. var_wildcard_queries[q].begin
        = IF q = 1 THEN 0 ELSE var_wildcard_queries[q - 1].end
  BY <1>2, <1>3 DEF Previous
<1>6. QED  BY <1>2, <1>4, <1>5

(* Whatever the arguments, the native method's string_views lie in the     *)
(* array and tile it: batchEncodedVarsWildcardMatch validates enough.      *)
THEOREM ViewsWithinArray == BatchSpec => []QueriesTile
BY TilesHold, IInvHolds, PTL

(* A call that returns has replaced every result an earlier one left.      *)
THEOREM ResultsAreFresh == BatchSpec => []NoStaleResult
<1>1. IInv => NoStaleResult
  BY DEF IInv, ResultInv
<1>2. QED  BY <1>1, IInvHolds, PTL
=============================================================================
