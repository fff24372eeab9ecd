\* Two threads that use two classes that load the library, and the two classes
\* JNI_OnLoad looks for; class loaders come and go.
CONSTANTS
  Threads = {t1, t2}
  NoThread = NoThread
  LoadingClasses <- TwoLoadingClasses
SPECIFICATION FairSpec
INVARIANTS
  OnlyCompleteLoaded
  RefsBalanced
  UsableOrReported
PROPERTIES
  InitialisersEnd
