\* next() without hasNext().
CONSTANTS
  Null = Null
  Queries <- ThreeWildcards
  ForEachOnly = FALSE
  Rows <- NoRows
  Bytes <- QueryBytes
  TypeBytes <- QueryTypes
  Batches <- NoBatches
SPECIFICATION SearchSpec
INVARIANTS
  NextReturnsItsType
