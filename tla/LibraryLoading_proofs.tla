------------------------ MODULE LibraryLoading_proofs ------------------------
(***************************************************************************)
(* Safety of LibraryLoading for any threads and any classes that load the  *)
(* library.  The inductive invariant says who may touch what: each class   *)
(* that is being initialised belongs to one thread, which alone writes its *)
(* temporary file; the load lock is held exactly inside JNI_OnLoad; and    *)
(* what references a copy holds follows from where its loader is.          *)
(***************************************************************************)
EXTENDS LibraryLoading, TLAPS

Active(t) == pc[t] # "idle"

Owners ==
  /\ \A t \in Threads : Active(t) => classState[class[t]] = "running"
  /\ \A t, u \in Threads : Active(t) /\ Active(u) /\ class[t] = class[u] => t = u

LockInv == \A t \in Threads : loadLock = t <=> InOnLoad(t)

(* A class's own copy is loaded last, and once.                            *)
CopyInv ==
  /\ \A c \in Classes : classState[c] = "uninitialized" => c \notin loaded
  /\ \A t \in Threads : pc[t] \notin {"idle", "return"}
                          => class[t] \in LoadingClasses /\ class[t] \notin loaded
  /\ \A t \in Threads : InOnLoad(t)
                          => copy[t] \in {OnPath, class[t]} \ loaded

FileInv ==
  /\ \A t \in Threads : pc[t] = "load" => tempFile[class[t]] = "complete"
  /\ OnlyCompleteLoaded

(* The second class's reference is the last thing a load gets, and is gone *)
(* when the load has failed.                                               *)
RefsInv ==
  /\ \A c \in loaded : RefsOf(c) \subseteq globalRefs
  /\ \A c \in Copies \ loaded :
       (\A t \in Threads : InOnLoad(t) => copy[t] # c)
         => globalRefs \cap RefsOf(c) = {}
  /\ \A t \in Threads :
       /\ pc[t] \in {"getEnv", "cacheClass", "throwNotFound", "loadFails"}
            => <<copy[t], Message>> \notin globalRefs
       /\ pc[t] = "cacheIds" => RefsOf(copy[t]) \subseteq globalRefs
  /\ <<"JNI_OnLoad", Message>> \notin lost

UsableInv ==
  /\ UsableOrReported
  /\ \A t \in Threads : pc[t] = "return" /\ class[t] \in LoadingClasses
                          => loaded # {} \/ class[t] \in reported

IInv ==
  /\ TypeOK
  /\ Owners
  /\ LockInv
  /\ CopyInv
  /\ FileInv
  /\ RefsInv
  /\ UsableInv

-----------------------------------------------------------------------------
LEMMA InitIInv == Init => IInv
BY LoadingAssumption
   DEF Init, IInv, TypeOK, Owners, LockInv, CopyInv, FileInv, RefsInv, UsableInv,
       Active, InOnLoad, OnLoadPcs, PcValues, RefsOf, OnlyCompleteLoaded,
       UsableOrReported, Classes, CachedClasses, Copies, Message

LEMMA InitialiseIInv ==
  ASSUME IInv, NEW t \in Threads, NEW c \in Classes, Initialise(t, c)
  PROVE  IInv'
<1> USE LoadingAssumption DEF IInv, Initialise, InitialiserLoads, Active,
         InOnLoad, OnLoadPcs, Goto, threadVars, libraryVars, classVars,
         Classes, CachedClasses, Subquery, Message
<1>1. TypeOK'
  BY DEF TypeOK, PcValues, Copies
<1>2. Owners'
  BY DEF Owners, TypeOK
<1>3. LockInv'
  BY DEF LockInv, TypeOK, Owners
<1>4. CopyInv'
  BY DEF CopyInv, TypeOK, Owners, LockInv
<1>5. FileInv'
  BY DEF FileInv, OnlyCompleteLoaded, CopyInv, TypeOK, Owners, LockInv
<1>6. RefsInv'
  BY DEF RefsInv, CopyInv, TypeOK, Owners, LockInv, RefsOf, Copies
<1>7. UsableInv'
  BY DEF UsableInv, UsableOrReported, TypeOK, Owners, CopyInv
<1>8. QED
  BY <1>1, <1>2, <1>3, <1>4, <1>5, <1>6, <1>7 DEF IInv

LEMMA InitialisedIInv ==
  ASSUME IInv, NEW t \in Threads, Initialised(t)
  PROVE  IInv'
<1> USE LoadingAssumption DEF IInv, Initialised, Active, InOnLoad, OnLoadPcs,
         Goto, threadVars, libraryVars, classVars, Classes, CachedClasses,
         Subquery, Message
<1>1. TypeOK'
  BY DEF TypeOK, PcValues, Copies
<1>2. Owners'
  BY DEF Owners, TypeOK
<1>3. LockInv'
  BY DEF LockInv, TypeOK, Owners
<1>4. CopyInv'
  BY DEF CopyInv, TypeOK, Owners, LockInv
<1>5. FileInv'
  BY DEF FileInv, OnlyCompleteLoaded, CopyInv, TypeOK, Owners, LockInv
<1>6. RefsInv'
  BY DEF RefsInv, CopyInv, TypeOK, Owners, LockInv, RefsOf, Copies
<1>7. UsableInv'
  BY DEF UsableInv, UsableOrReported, TypeOK, Owners, CopyInv
<1>8. QED
  BY <1>1, <1>2, <1>3, <1>4, <1>5, <1>6, <1>7 DEF IInv

LEMMA LoadLibraryIInv ==
  ASSUME IInv, NEW t \in Threads, LoadLibrary(t)
  PROVE  IInv'
<1> USE LoadingAssumption DEF IInv, LoadLibrary, StartOnLoad, Active,
         InOnLoad, OnLoadPcs, Goto, threadVars, libraryVars, classVars,
         Classes, CachedClasses, Subquery, Message
<1>1. TypeOK'
  BY DEF TypeOK, PcValues, Copies
<1>2. Owners'
  BY DEF Owners, TypeOK
<1>3. LockInv'
  BY DEF LockInv, TypeOK, Owners
<1>4. CopyInv'
  BY DEF CopyInv, TypeOK, Owners, LockInv
<1>5. FileInv'
  BY DEF FileInv, OnlyCompleteLoaded, CopyInv, TypeOK, Owners, LockInv
<1>6. RefsInv'
  BY DEF RefsInv, CopyInv, TypeOK, Owners, LockInv, RefsOf, Copies
<1>7. UsableInv'
  BY DEF UsableInv, UsableOrReported, TypeOK, Owners, CopyInv
<1>8. QED
  BY <1>1, <1>2, <1>3, <1>4, <1>5, <1>6, <1>7 DEF IInv

LEMMA FindInJarIInv ==
  ASSUME IInv, NEW t \in Threads, FindInJar(t)
  PROVE  IInv'
<1> USE LoadingAssumption DEF IInv, FindInJar, ReportAndReturn, Active,
         InOnLoad, OnLoadPcs, Goto, threadVars, libraryVars, classVars,
         Classes, CachedClasses, Subquery, Message
<1>1. TypeOK'
  BY DEF TypeOK, PcValues, Copies
<1>2. Owners'
  BY DEF Owners, TypeOK
<1>3. LockInv'
  BY DEF LockInv, TypeOK, Owners
<1>4. CopyInv'
  BY DEF CopyInv, TypeOK, Owners, LockInv
<1>5. FileInv'
  BY DEF FileInv, OnlyCompleteLoaded, CopyInv, TypeOK, Owners, LockInv
<1>6. RefsInv'
  BY DEF RefsInv, CopyInv, TypeOK, Owners, LockInv, RefsOf, Copies
<1>7. UsableInv'
  BY DEF UsableInv, UsableOrReported, TypeOK, Owners, CopyInv
<1>8. QED
  BY <1>1, <1>2, <1>3, <1>4, <1>5, <1>6, <1>7 DEF IInv

LEMMA ExtractLibraryIInv ==
  ASSUME IInv, NEW t \in Threads, ExtractLibrary(t)
  PROVE  IInv'
<1> USE LoadingAssumption DEF IInv, ExtractLibrary, ReportAndReturn, CopyStep,
         FillTemp, Active, InOnLoad, OnLoadPcs, Goto, threadVars, libraryVars,
         classVars, Classes, CachedClasses, Subquery, Message
<1>1. TypeOK'
  BY DEF TypeOK, PcValues, Copies
<1>2. Owners'
  BY DEF Owners, TypeOK
<1>3. LockInv'
  BY DEF LockInv, TypeOK, Owners
<1>4. CopyInv'
  BY DEF CopyInv, TypeOK, Owners, LockInv
<1>5. FileInv'
  <2>1. \A u \in Threads : Active(u) /\ u # t => class[u] # class[t]
    BY DEF Owners, TypeOK, CopyStep
  <2>2. class[t] \in LoadingClasses /\ class[t] \notin loaded
    BY DEF CopyInv, CopyStep
  <2>3. tempFile' = tempFile \/ (\E f : tempFile' = [tempFile EXCEPT ![class[t]] = f])
    OBVIOUS
  <2>4. \A c \in Classes : c # class[t] => tempFile'[c] = tempFile[c]
    BY <2>3 DEF TypeOK
  <2>5. pc'[t] = "load" => tempFile'[class[t]] = "complete"
    BY DEF TypeOK
  <2>6. \A u \in Threads : u # t => pc'[u] = pc[u]
    BY DEF TypeOK
  <2>7. \A c \in loaded \ {OnPath} : c \in Classes /\ c # class[t]
    BY <2>2 DEF TypeOK, Copies
  <2>8. ~InOnLoad(t)'
    BY DEF TypeOK
  <2>9. QED
    BY <2>1, <2>2, <2>4, <2>5, <2>6, <2>7, <2>8
       DEF FileInv, OnlyCompleteLoaded, CopyInv, TypeOK, Copies
<1>6. RefsInv'
  BY DEF RefsInv, CopyInv, TypeOK, Owners, LockInv, RefsOf, Copies
<1>7. UsableInv'
  BY DEF UsableInv, UsableOrReported, TypeOK, Owners, CopyInv
<1>8. QED
  BY <1>1, <1>2, <1>3, <1>4, <1>5, <1>6, <1>7 DEF IInv

LEMMA LoadIInv ==
  ASSUME IInv, NEW t \in Threads, Load(t)
  PROVE  IInv'
<1> USE LoadingAssumption DEF IInv, Load, StartOnLoad, Active, InOnLoad,
         OnLoadPcs, Goto, threadVars, libraryVars, classVars, Classes,
         CachedClasses, Subquery, Message
<1>1. TypeOK'
  BY DEF TypeOK, PcValues, Copies
<1>2. Owners'
  BY DEF Owners, TypeOK
<1>3. LockInv'
  BY DEF LockInv, TypeOK, Owners
<1>4. CopyInv'
  BY DEF CopyInv, TypeOK, Owners, LockInv
<1>5. FileInv'
  BY DEF FileInv, OnlyCompleteLoaded, CopyInv, TypeOK, Owners, LockInv
<1>6. RefsInv'
  BY DEF RefsInv, CopyInv, TypeOK, Owners, LockInv, RefsOf, Copies
<1>7. UsableInv'
  BY DEF UsableInv, UsableOrReported, TypeOK, Owners, CopyInv
<1>8. QED
  BY <1>1, <1>2, <1>3, <1>4, <1>5, <1>6, <1>7 DEF IInv

LEMMA GetEnvIInv ==
  ASSUME IInv, NEW t \in Threads, GetEnv(t)
  PROVE  IInv'
<1> USE LoadingAssumption DEF IInv, GetEnv, Active, InOnLoad, OnLoadPcs, Goto,
         threadVars, libraryVars, classVars, Classes, CachedClasses, Subquery,
         Message
<1>1. TypeOK'
  BY DEF TypeOK, PcValues, Copies
<1>2. Owners'
  BY DEF Owners, TypeOK
<1>3. LockInv'
  BY DEF LockInv, TypeOK, Owners
<1>4. CopyInv'
  BY DEF CopyInv, TypeOK, Owners, LockInv
<1>5. FileInv'
  BY DEF FileInv, OnlyCompleteLoaded, CopyInv, TypeOK, Owners, LockInv
<1>6. RefsInv'
  BY DEF RefsInv, CopyInv, TypeOK, Owners, LockInv, RefsOf, Copies
<1>7. UsableInv'
  BY DEF UsableInv, UsableOrReported, TypeOK, Owners, CopyInv
<1>8. QED
  BY <1>1, <1>2, <1>3, <1>4, <1>5, <1>6, <1>7 DEF IInv

LEMMA CacheClassIInv ==
  ASSUME IInv, NEW t \in Threads, CacheClass(t)
  PROVE  IInv'
<1> USE LoadingAssumption DEF IInv, CacheClass, NextClass, FindClass, Throw,
         Active, InOnLoad, OnLoadPcs, Goto, threadVars, libraryVars,
         classVars, Classes, CachedClasses, Subquery, Message
<1>1. TypeOK'
  <2>1. NextClass(t) \in CachedClasses /\ CachedClasses \subseteq Classes
    OBVIOUS
  <2>2. classState' \in [Classes -> {"uninitialized", "running", "initialized",
                                     "erroneous"}]
    <3>1. classState' = classState \/ FindClass(NextClass(t))
      OBVIOUS
    <3>2. QED  BY <3>1, <2>1 DEF TypeOK
  <2>3. globalRefs' \subseteq Copies \X CachedClasses
    BY <2>1 DEF TypeOK
  <2>4. pc' \in [Threads -> PcValues] /\ pending' \in [Threads -> BOOLEAN]
    BY DEF TypeOK, PcValues
  <2>5. QED  BY <2>2, <2>3, <2>4 DEF TypeOK
<1>2. Owners'
  <2>1. class' = class /\ \A u \in Threads : Active(u)' <=> Active(u)
    BY DEF TypeOK
  <2>2. \A c \in Classes :
          classState[c] = "running" => classState'[c] = "running"
    BY DEF TypeOK
  <2>3. \A u \in Threads : class[u] \in Classes
    BY DEF TypeOK
  <2> HIDE DEF Active, Classes
  <2>4. QED  BY <2>1, <2>2, <2>3 DEF Owners
<1>3. LockInv'
  BY DEF LockInv, TypeOK, Owners
<1>4. CopyInv'
  BY DEF CopyInv, TypeOK, Owners, LockInv
<1>5. FileInv'
  BY DEF FileInv, OnlyCompleteLoaded, CopyInv, TypeOK, Owners, LockInv
<1>6. RefsInv'
  <2>1. \A u \in Threads : u # t => pc'[u] = pc[u] /\ ~InOnLoad(u) /\ ~InOnLoad(u)'
    BY DEF TypeOK, LockInv
  <2>2. loaded' = loaded /\ copy' = copy /\ lost' = lost
    OBVIOUS
  <2>3. InOnLoad(t) /\ InOnLoad(t)' /\ copy[t] \in Copies \ loaded
    BY DEF TypeOK, CopyInv, Copies
  <2>4. <<copy[t], Message>> \notin globalRefs
    BY DEF RefsInv
  <2>5. CASE globalRefs' = globalRefs /\ pc'[t] \in {"throwNotFound", "loadFails"}
    <3>1. \A u \in Threads :
            pc'[u] \in {"getEnv", "cacheClass", "throwNotFound", "loadFails", "cacheIds"}
              => u = t
      BY <2>1
    <3>2. \A c \in Copies \ loaded' :
            (\A u \in Threads : InOnLoad(u)' => copy'[u] # c)
              => \A u \in Threads : InOnLoad(u) => copy[u] # c
      BY <2>1, <2>2, <2>3
    <3> HIDE DEF InOnLoad
    <3>3. \A c \in Copies \ loaded' :
            (\A u \in Threads : InOnLoad(u)' => copy'[u] # c)
              => globalRefs' \cap RefsOf(c) = {}
      BY <2>2, <2>5, <3>2 DEF RefsInv
    <3>4. QED  BY <2>2, <2>4, <2>5, <3>1, <3>3 DEF RefsInv
  <2>6. CASE /\ globalRefs' = globalRefs \cup {<<copy[t], NextClass(t)>>}
             /\ pc'[t] = IF NextClass(t) = Message THEN "cacheIds" ELSE "cacheClass"
    <3>1. \A c \in Copies : c # copy[t] =>
            globalRefs' \cap RefsOf(c) = globalRefs \cap RefsOf(c)
      BY <2>6 DEF RefsOf
    <3>2. \A c \in loaded : RefsOf(c) \subseteq globalRefs'
      BY <2>6 DEF RefsInv
    <3>3. NextClass(t) # Message => <<copy[t], Message>> \notin globalRefs'
      BY <2>4, <2>6
    <3>4. NextClass(t) = Message => RefsOf(copy[t]) \subseteq globalRefs'
      BY <2>6 DEF RefsOf
    <3>5. \A c \in Copies \ loaded :
            (\A u \in Threads : InOnLoad(u)' => copy'[u] # c) => c # copy[t]
      BY <2>2, <2>3
    <3>6. \A c \in Copies \ loaded : c # copy[t] => globalRefs \cap RefsOf(c) = {}
      BY <2>1 DEF RefsInv
    <3>7. \A u \in Threads : u # t =>
            pc'[u] \notin {"getEnv", "cacheClass", "throwNotFound", "loadFails",
                           "cacheIds"}
      BY <2>1
    <3> HIDE DEF NextClass, InOnLoad
    <3>8. \A c \in Copies \ loaded :
            (\A u \in Threads : InOnLoad(u)' => copy'[u] # c)
              => globalRefs' \cap RefsOf(c) = {}
      BY <3>1, <3>5, <3>6
    <3>9. QED
      BY <2>2, <2>6, <3>2, <3>3, <3>4, <3>7, <3>8 DEF RefsInv
  <2>7. QED  BY <2>5, <2>6 DEF TypeOK
<1>7. UsableInv'
  BY DEF UsableInv, UsableOrReported, TypeOK, Owners, CopyInv
<1>8. QED
  BY <1>1, <1>2, <1>3, <1>4, <1>5, <1>6, <1>7 DEF IInv

LEMMA ThrowNotFoundIInv ==
  ASSUME IInv, NEW t \in Threads, ThrowNotFound(t)
  PROVE  IInv'
<1> USE LoadingAssumption DEF IInv, ThrowNotFound, Active, InOnLoad,
         OnLoadPcs, Goto, threadVars, libraryVars, classVars, Classes,
         CachedClasses, Subquery, Message
<1>1. TypeOK'
  BY DEF TypeOK, PcValues, Copies
<1>2. Owners'
  BY DEF Owners, TypeOK
<1>3. LockInv'
  BY DEF LockInv, TypeOK, Owners
<1>4. CopyInv'
  BY DEF CopyInv, TypeOK, Owners, LockInv
<1>5. FileInv'
  BY DEF FileInv, OnlyCompleteLoaded, CopyInv, TypeOK, Owners, LockInv
<1>6. RefsInv'
  BY DEF RefsInv, CopyInv, TypeOK, Owners, LockInv, RefsOf, Copies
<1>7. UsableInv'
  BY DEF UsableInv, UsableOrReported, TypeOK, Owners, CopyInv
<1>8. QED
  BY <1>1, <1>2, <1>3, <1>4, <1>5, <1>6, <1>7 DEF IInv

LEMMA CacheIdsIInv ==
  ASSUME IInv, NEW t \in Threads, CacheIds(t)
  PROVE  IInv'
<1> USE LoadingAssumption DEF IInv, CacheIds, CacheIdsFails, Throw, Active,
         InOnLoad, OnLoadPcs, Goto, threadVars, libraryVars, classVars,
         Classes, CachedClasses, Subquery, Message
<1>1. TypeOK'
  BY DEF TypeOK, PcValues, Copies
<1>2. Owners'
  BY DEF Owners, TypeOK
<1>3. LockInv'
  BY DEF LockInv, TypeOK, Owners
<1>4. CopyInv'
  BY DEF CopyInv, TypeOK, Owners, LockInv
<1>5. FileInv'
  BY DEF FileInv, OnlyCompleteLoaded, CopyInv, TypeOK, Owners, LockInv
<1>6. RefsInv'
  <2>1. \A u \in Threads : u # t => pc'[u] = pc[u] /\ ~InOnLoad(u)
    BY DEF TypeOK, LockInv
  <2>2. CASE CacheIdsFails(t)
    <3>1. <<copy[t], Message>> \notin globalRefs'
      BY <2>2 DEF RefsOf
    <3>2. pc'[t] = "loadFails" /\ copy[t] \notin loaded
      BY <2>2 DEF TypeOK, CopyInv
    <3>3. \A c : c # copy[t] => globalRefs' \cap RefsOf(c) = globalRefs \cap RefsOf(c)
      BY <2>2 DEF RefsOf
    <3>4. loaded' = loaded /\ copy' = copy /\ lost' = lost
      BY <2>2
    <3>5. \A c \in loaded' : RefsOf(c) \subseteq globalRefs'
      BY <3>2, <3>3, <3>4 DEF RefsInv
    <3>6. QED
      BY <2>1, <3>1, <3>2, <3>3, <3>4, <3>5 DEF RefsInv
  <2>3. CASE ~CacheIdsFails(t)
    <3>1. globalRefs' = globalRefs /\ loaded' = loaded \cup {copy[t]}
      BY <2>3
    <3>2. RefsOf(copy[t]) \subseteq globalRefs /\ pc'[t] = "return"
      BY <2>3 DEF RefsInv, TypeOK
    <3>3. \A u \in Threads : ~InOnLoad(u)'
      BY <2>1, <3>2
    <3>4. \A c \in Copies \ loaded' : globalRefs' \cap RefsOf(c) = {}
      BY <2>1, <3>1 DEF RefsInv
    <3>5. QED
      BY <3>1, <3>2, <3>3, <3>4 DEF RefsInv
  <2>4. QED  BY <2>2, <2>3
<1>7. UsableInv'
  BY DEF UsableInv, UsableOrReported, TypeOK, Owners, CopyInv
<1>8. QED
  BY <1>1, <1>2, <1>3, <1>4, <1>5, <1>6, <1>7 DEF IInv

LEMMA LoadFailsIInv ==
  ASSUME IInv, NEW t \in Threads, LoadFails(t)
  PROVE  IInv'
<1> USE LoadingAssumption DEF IInv, LoadFails, AfterFailure, Active, InOnLoad,
         OnLoadPcs, Goto, threadVars, libraryVars, classVars, Classes,
         CachedClasses, Subquery, Message
<1>1. TypeOK'
  BY DEF TypeOK, PcValues, Copies
<1>2. Owners'
  BY DEF Owners, TypeOK
<1>3. LockInv'
  BY DEF LockInv, TypeOK, Owners
<1>4. CopyInv'
  BY DEF CopyInv, TypeOK, Owners, LockInv
<1>5. FileInv'
  BY DEF FileInv, OnlyCompleteLoaded, CopyInv, TypeOK, Owners, LockInv
<1>6. RefsInv'
  BY DEF RefsInv, CopyInv, TypeOK, Owners, LockInv, RefsOf, Copies
<1>7. UsableInv'
  BY DEF UsableInv, UsableOrReported, TypeOK, Owners, CopyInv
<1>8. QED
  BY <1>1, <1>2, <1>3, <1>4, <1>5, <1>6, <1>7 DEF IInv

LEMMA UnloadIInv ==
  ASSUME IInv, Unload
  PROVE  IInv'
<1> USE LoadingAssumption DEF IInv, Unload, Active, InOnLoad, OnLoadPcs, Goto,
         threadVars, libraryVars, classVars, Classes, CachedClasses, Subquery,
         Message
<1>1. TypeOK'
  BY DEF TypeOK, PcValues, Copies
<1>2. Owners'
  BY DEF Owners, TypeOK
<1>3. LockInv'
  BY DEF LockInv, TypeOK, Owners
<1>4. CopyInv'
  BY DEF CopyInv, TypeOK, Owners, LockInv
<1>5. FileInv'
  BY DEF FileInv, OnlyCompleteLoaded, CopyInv, TypeOK, Owners, LockInv
<1>6. RefsInv'
  BY DEF RefsInv, CopyInv, TypeOK, Owners, LockInv, RefsOf, Copies
<1>7. UsableInv'
  BY DEF UsableInv, UsableOrReported, TypeOK, Owners, CopyInv
<1>8. QED
  BY <1>1, <1>2, <1>3, <1>4, <1>5, <1>6, <1>7 DEF IInv

-----------------------------------------------------------------------------
LEMMA StepIInv == IInv /\ [Next]_loadingVars => IInv'
<1> SUFFICES ASSUME IInv, [Next]_loadingVars PROVE IInv'
  OBVIOUS
<1>1. CASE UNCHANGED loadingVars
  BY <1>1
     DEF loadingVars, threadVars, libraryVars, classVars, IInv, TypeOK, Owners,
         LockInv, CopyInv, FileInv, RefsInv, UsableInv, Active, InOnLoad,
         OnlyCompleteLoaded, UsableOrReported
<1>2. ASSUME NEW t \in Threads, Step(t) PROVE IInv'
  BY <1>2, LoadLibraryIInv, FindInJarIInv, ExtractLibraryIInv, LoadIInv,
     GetEnvIInv, CacheClassIInv, ThrowNotFoundIInv, CacheIdsIInv, LoadFailsIInv,
     InitialisedIInv
     DEF Step
<1>3. ASSUME NEW t \in Threads, NEW c \in Classes, Initialise(t, c) PROVE IInv'
  BY <1>3, InitialiseIInv
<1>4. CASE Unload
  BY <1>4, UnloadIInv
<1>5. QED
  BY <1>1, <1>2, <1>3, <1>4 DEF Next

LEMMA IInvHolds == Spec => []IInv
BY InitIInv, StepIInv, PTL DEF Spec

(* The variables keep their types, whatever threads initialise the classes *)
(* and however their loads fail.                                           *)
THEOREM TypeCorrect == Spec => []TypeOK
<1>1. IInv => TypeOK
  BY DEF IInv
<1>2. QED  BY <1>1, IInvHolds, PTL

(* NativeLibraryLoader.load() hands the JVM no file that is not complete.  *)
THEOREM NoPartialLibrary == Spec => []OnlyCompleteLoaded
<1>1. IInv => OnlyCompleteLoaded
  BY DEF IInv, FileInv
<1>2. QED  BY <1>1, IInvHolds, PTL

(* JNI_OnLoad and JNI_OnUnload keep the global references of each copy     *)
(* balanced, but for the one JNI_OnLoad loses when the second class fails. *)
THEOREM ReferencesBalanced == Spec => []RefsBalanced
<1>1. IInv => RefsBalanced
  <2> SUFFICES ASSUME IInv, NEW c \in Copies
               PROVE  \/ c \in loaded /\ RefsOf(c) \subseteq globalRefs
                      \/ c \notin loaded /\ globalRefs \cap RefsOf(c) = {}
                      \/ \E t \in Threads :
                           loadLock = t /\ copy[t] = c /\ c \notin loaded
    BY DEF IInv, RefsInv, RefsBalanced
  <2> QED  BY DEF IInv, RefsInv, LockInv
<1>2. QED  BY <1>1, IInvHolds, PTL

(* No class is initialised quietly without the library it asked for.       *)
THEOREM NoSilentFailure == Spec => []UsableOrReported
<1>1. IInv => UsableOrReported
  BY DEF IInv, UsableInv
<1>2. QED  BY <1>1, IInvHolds, PTL
=============================================================================
