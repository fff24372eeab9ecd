\* One query after another, of one subquery with up to four variables or two
\* with up to two, each iterated over and matched; and batches of any kind.
CONSTANTS
  Null = Null
  Queries <- OneOrTwoSubqueries
  ForEachOnly = TRUE
  Rows <- TwoRows
  Bytes <- QueryBytes
  TypeBytes <- QueryTypes
  Batches <- SomeBatches
SPECIFICATION SearchSpec
INVARIANTS
  TypeOK
  EachVariableOnce
  IterationComplete
  QueriesTile
  NoStaleResult
  MatchesSubquery
