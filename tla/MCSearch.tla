------------------------------- MODULE MCSearch -------------------------------
(***************************************************************************)
(* Values of the constants of WildcardSearch for TLC.                      *)
(***************************************************************************)
EXTENDS WildcardSearch

UpTo(n, S) == UNION {[1 .. k -> S] : k \in 0 .. n}

(* One subquery of up to four variables, or two of up to two.              *)
OneOrTwoSubqueries ==
  {<<s>> : s \in UpTo(4, VarKinds)} \cup UpTo(2, UpTo(2, VarKinds))

(* One subquery of wildcard variables only.                                *)
ThreeWildcards == {<<s>> : s \in UpTo(3, {"Integer", "Dictionary"})}

QueryBytes == Parents \X (0 .. 14)
QueryTypes == Placeholders \cup {""}

(* A row with variables and one without.                                   *)
TwoRows == {<<"variables", Null>>}

(* Up to three end indexes for two bytes, one before and one past the end; *)
(* arrays that are null or of different lengths; matchResults that hold 7. *)
SomeBatches ==
  LET bytes == <<<<"given", 0>>, <<"given", 1>>>>
      Batch(logtypes, rows, ends, results) ==
        [logtypes |-> logtypes, encodedVarArrays |-> rows,
         wildcardVarPlaceholders |-> <<"Integer">>,
         serializedVarWildcardQueries |-> bytes,
         varWildcardQueryEndIndexes |-> ends, matchResults |-> results]
  IN  {Batch(<<"logtype", Null>>, rows, ends, <<7, 7>>) :
         rows \in [1 .. 2 -> {"variables", Null}], ends \in UpTo(3, -1 .. 3)}
      \cup
      {Batch(logtypes, rows, <<1>>, results) :
         logtypes \in {Null, <<>>, <<Null>>}, rows \in {Null, <<>>, <<Null>>},
         results \in {Null, <<>>, <<7>>}}

NoBatches == {}
NoRows == {}
=============================================================================
