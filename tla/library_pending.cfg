\* One thread; FindClass may fail.
CONSTANTS
  Threads = {t1}
  NoThread = NoThread
  LoadingClasses <- TwoLoadingClasses
SPECIFICATION Spec
INVARIANTS
  NoThrowWhilePending
