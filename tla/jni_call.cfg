\* Every native method, batches and queries of up to three rows.
CONSTANTS
  MaxIterations = 3
  ThrowNewMayFail = TRUE
SPECIFICATION Spec
INVARIANTS
  TypeOK
  ErrorIffPending
  NothingHeldAfterReturn
  OneRefPerVariable
  HeldIsReferenced
  PassesLiveReferences
PROPERTIES
  NoCallWhilePending
