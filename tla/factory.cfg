\* Two threads that interleave calls of both methods.
CONSTANTS
  Threads = {t1, t2}
  Inputs <- SomeInputs
  Null = Null
  Half = 4
SPECIFICATION Spec
INVARIANTS
  TypeOK
  ReturnedReadsBack
