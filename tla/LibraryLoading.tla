---------------------------- MODULE LibraryLoading ----------------------------
(***************************************************************************)
(* How the native library gets loaded: the class initialisers that call    *)
(* NativeLibraryLoader.load(), which loads the library from                *)
(* java.library.path or else a temporary copy of the one in the JAR, and   *)
(* JNI_OnLoad and JNI_OnUnload of each copy, which keep global references  *)
(* to two of the Java classes.                                             *)
(*                                                                         *)
(* Of the JVM (JDK 8, which the project is built for) the model has: a     *)
(* class is initialised by one thread, which others wait for; one lock is  *)
(* held while a library is loaded, JNI_OnLoad included; a library that is  *)
(* already loaded is not loaded again; FindClass initialises the class.    *)
(***************************************************************************)
EXTENDS FiniteSets

CONSTANTS
  Threads,
  LoadingClasses,  \* those with a static block that calls load()
  NoThread

Subquery == "EightByteClpEncodedSubquery"
Message == "EncodedMessage"
CachedClasses == {Subquery, Message}
Classes == LoadingClasses \cup CachedClasses

(* A copy of the library: the one on the path, or the temporary file that  *)
(* a class's initialiser made.                                             *)
OnPath == "java.library.path"
Copies == Classes \cup {OnPath}

ASSUME LoadingAssumption ==
  /\ NoThread \notin Threads
  /\ LoadingClasses \cap CachedClasses = {}
  /\ OnPath \notin Classes

VARIABLES
  pc,           \* of a thread
  class,        \* the class whose initialiser it runs
  copy,         \* the copy of the library it is loading
  pending,      \* whether a Java exception is pending in JNI_OnLoad
  loadLock,     \* thread that is loading a library
  classState,
  tempFile,     \* what is in the file a class's initialiser made
  loaded,       \* copies that are loaded
  globalRefs,   \* <<copy, class>>: the JNI global references they hold
  lost,         \* history: <<function, class>>: references nothing holds
  reported      \* history: classes for which load() logged an error

threadVars == <<pc, class, copy, pending>>
libraryVars == <<loadLock, loaded, globalRefs, lost>>
classVars == <<classState, tempFile, reported>>
loadingVars == <<threadVars, libraryVars, classVars>>

OnLoadPcs == {"getEnv", "cacheClass", "throwNotFound", "cacheIds", "loadFails"}
PcValues == OnLoadPcs \cup {"idle", "loadLibrary", "findInJar", "createTemp",
                            "copyToTemp", "closeTemp", "load", "return", "throw"}

TypeOK ==
  /\ pc \in [Threads -> PcValues]
  /\ class \in [Threads -> Classes]
  /\ copy \in [Threads -> Copies]
  /\ pending \in [Threads -> BOOLEAN]
  /\ loadLock \in Threads \cup {NoThread}
  /\ classState \in [Classes -> {"uninitialized", "running", "initialized",
                                 "erroneous"}]
  /\ tempFile \in [Classes -> {"none", "empty", "partial", "complete"}]
  /\ loaded \subseteq Copies
  /\ globalRefs \subseteq Copies \X CachedClasses
  /\ lost \subseteq {"JNI_OnLoad", "JNI_OnUnload"} \X CachedClasses
  /\ reported \subseteq Classes

Init ==
  /\ pc = [t \in Threads |-> "idle"]
  /\ class = [t \in Threads |-> Message]
  /\ copy = [t \in Threads |-> OnPath]
  /\ pending = [t \in Threads |-> FALSE]
  /\ loadLock = NoThread
  /\ classState = [c \in Classes |-> "uninitialized"]
  /\ tempFile = [c \in Classes |-> "none"]
  /\ loaded = {}
  /\ globalRefs = {}
  /\ lost = {}
  /\ reported = {}

Goto(t, step) == pc' = [pc EXCEPT ![t] = step]

-----------------------------------------------------------------------------
(* Class initialisation.                                                   *)

(* Fault injection: EncodedMessage loads the library as well.              *)
InitialiserLoadsAll(c) == c \in LoadingClasses \cup {Message}

InitialiserLoads(c) == c \in LoadingClasses

(* A thread uses a class for the first time.                               *)
Initialise(t, c) ==
  /\ pc[t] = "idle"
  /\ classState[c] = "uninitialized"
  /\ classState' = [classState EXCEPT ![c] = "running"]
  /\ class' = [class EXCEPT ![t] = c]
  /\ Goto(t, IF InitialiserLoads(c) THEN "loadLibrary" ELSE "return")
  /\ UNCHANGED <<copy, pending, libraryVars, tempFile, reported>>

(* The initialiser returns, or throws: then the class cannot be used.  (The *)
(* thread's own variables go back to their first values.)                  *)
Initialised(t) ==
  /\ pc[t] \in {"return", "throw"}
  /\ classState' = [classState EXCEPT ![class[t]] =
                      IF pc[t] = "return" THEN "initialized" ELSE "erroneous"]
  /\ class' = [class EXCEPT ![t] = Message]
  /\ copy' = [copy EXCEPT ![t] = OnPath]
  /\ Goto(t, "idle")
  /\ UNCHANGED <<pending, libraryVars, tempFile, reported>>

-----------------------------------------------------------------------------
(* NativeLibraryLoader.load().                                             *)

(* System.loadLibrary or System.load finds a library.                      *)
StartOnLoad(t, c) ==
  /\ loadLock' = t
  /\ copy' = [copy EXCEPT ![t] = c]
  /\ Goto(t, "getEnv")

LoadLibrary(t) ==
  /\ pc[t] = "loadLibrary"
  /\ loadLock = NoThread
  /\ \/ OnPath \in loaded /\ Goto(t, "return") /\ UNCHANGED <<copy, loadLock>>
     \/ OnPath \notin loaded /\ StartOnLoad(t, OnPath)
     \/ OnPath \notin loaded /\ Goto(t, "findInJar") /\ UNCHANGED <<copy, loadLock>>
  /\ UNCHANGED <<class, pending, loaded, globalRefs, lost, classVars>>

(* logError, after which load() returns.                                   *)
ReportAndReturn(t) ==
  /\ reported' = reported \cup {class[t]}
  /\ Goto(t, "return")

FindInJar(t) ==
  /\ pc[t] = "findInJar"
  /\ \/ Goto(t, "createTemp") /\ UNCHANGED reported
     \/ ReportAndReturn(t)
  /\ UNCHANGED <<class, copy, pending, libraryVars, classState, tempFile>>

FillTemp(t, contents, next) ==
  /\ tempFile' = [tempFile EXCEPT ![class[t]] = contents]
  /\ Goto(t, next)

(* Fault injection: the library is loaded inside the try block.            *)
CopyStepLoadsEarly(t) ==
  \/ pc[t] = "createTemp" /\ FillTemp(t, "empty", "copyToTemp")
  \/ pc[t] = "copyToTemp" /\ FillTemp(t, "partial", "load")

(* The loop has written the file but for what is buffered.                 *)
CopyStep(t) ==
  \/ pc[t] = "createTemp" /\ FillTemp(t, "empty", "copyToTemp")
  \/ pc[t] = "copyToTemp" /\ FillTemp(t, "partial", "closeTemp")
  \/ pc[t] = "closeTemp" /\ FillTemp(t, "complete", "load")

(* Each step may throw an IOException, which load() catches.               *)
ExtractLibrary(t) ==
  /\ \/ CopyStep(t) /\ UNCHANGED reported
     \/ /\ pc[t] \in {"createTemp", "copyToTemp", "closeTemp"}
        /\ ReportAndReturn(t)
        /\ UNCHANGED tempFile
  /\ UNCHANGED <<class, copy, pending, libraryVars, classState>>

(* UnsatisfiedLinkError is not an IOException.                             *)
Load(t) ==
  /\ pc[t] = "load"
  /\ loadLock = NoThread
  /\ \/ StartOnLoad(t, class[t])
     \/ Goto(t, "throw") /\ UNCHANGED <<copy, loadLock>>
  /\ UNCHANGED <<class, pending, loaded, globalRefs, lost, classVars>>

-----------------------------------------------------------------------------
(* JNI_OnLoad.                                                             *)
GetEnv(t) ==
  /\ pc[t] = "getEnv"
  /\ Goto(t, "cacheClass") \/ Goto(t, "loadFails")
  /\ UNCHANGED <<class, copy, pending, libraryVars, classVars>>

Throw(t) == pending' = [pending EXCEPT ![t] = TRUE]

NextClass(t) ==
  IF <<copy[t], Subquery>> \in globalRefs THEN Message ELSE Subquery

(* FindClass waits for another thread's initialiser of the class.          *)
Waits(t, c) == \E u \in Threads \ {t} : pc[u] # "idle" /\ class[u] = c

(* The initialisers of the classes it is called for do nothing.            *)
FindClass(c) ==
  classState' = [classState EXCEPT ![c] =
                   IF @ = "uninitialized" THEN "initialized" ELSE @]

(* get_class_global_ref: FindClass and NewGlobalRef.                       *)
CacheClass(t) ==
  /\ pc[t] = "cacheClass"
  /\ ~Waits(t, NextClass(t))
  /\ \/ /\ FindClass(NextClass(t))
        /\ globalRefs' = globalRefs \cup {<<copy[t], NextClass(t)>>}
        /\ Goto(t, IF NextClass(t) = Message THEN "cacheIds" ELSE "cacheClass")
        /\ UNCHANGED pending
     \/ /\ Throw(t) /\ Goto(t, "throwNotFound")
        /\ UNCHANGED <<globalRefs, classState>>
     \/ /\ FindClass(NextClass(t))
        /\ Throw(t) /\ Goto(t, "loadFails")
        /\ UNCHANGED globalRefs
  /\ UNCHANGED <<class, copy, loadLock, loaded, lost, tempFile, reported>>

(* JavaClassNotFoundException: FindClass and ThrowNew.                     *)
ThrowNotFound(t) ==
  /\ pc[t] = "throwNotFound"
  /\ Goto(t, "loadFails")
  /\ UNCHANGED <<class, copy, pending, libraryVars, classVars>>

RefsOf(c) == {c} \X CachedClasses

(* Fault injection: one of the references is forgotten.                    *)
CacheIdsFailsLeaky(t) ==
  /\ Throw(t)
  /\ globalRefs' = globalRefs \ {<<copy[t], Subquery>>}
  /\ Goto(t, "loadFails")
  /\ UNCHANGED <<loadLock, loaded>>

CacheIdsFails(t) ==
  /\ Throw(t)
  /\ globalRefs' = globalRefs \ RefsOf(copy[t])
  /\ Goto(t, "loadFails")
  /\ UNCHANGED <<loadLock, loaded>>

(* The library is loaded when JNI_OnLoad returns the version.              *)
CacheIds(t) ==
  /\ pc[t] = "cacheIds"
  /\ \/ /\ loaded' = loaded \cup {copy[t]}
        /\ loadLock' = NoThread
        /\ Goto(t, "return")
        /\ UNCHANGED <<pending, globalRefs>>
     \/ CacheIdsFails(t)
  /\ UNCHANGED <<class, copy, lost, classVars>>

(* Fault injection: load() swallows what System.load threw.                *)
AfterFailureSilent(c) == IF c = OnPath THEN "findInJar" ELSE "return"

(* load() catches anything that System.loadLibrary throws.                 *)
AfterFailure(c) == IF c = OnPath THEN "findInJar" ELSE "throw"

(* JNI_OnLoad has returned JNI_ERR: the copy is dropped, and what          *)
(* references it holds.  What is pending is thrown.                        *)
LoadFails(t) ==
  /\ pc[t] = "loadFails"
  /\ lost' = lost \cup {<<"JNI_OnLoad", r[2]>> : r \in globalRefs \cap RefsOf(copy[t])}
  /\ globalRefs' = globalRefs \ RefsOf(copy[t])
  /\ loadLock' = NoThread
  /\ pending' = [pending EXCEPT ![t] = FALSE]
  /\ Goto(t, AfterFailure(copy[t]))
  /\ UNCHANGED <<class, copy, loaded, classVars>>

(* The class loader is collected: JNI_OnUnload of each copy, which does    *)
(* nothing when GetEnv fails.  Another class loader has classes of its own.*)
Unload ==
  /\ \A t \in Threads : pc[t] = "idle"
  /\ \/ UNCHANGED lost
     \/ loaded # {} /\ lost' = lost \cup {"JNI_OnUnload"} \X CachedClasses
  /\ globalRefs' = globalRefs \ (loaded \X CachedClasses)
  /\ loaded' = {}
  /\ classState' = [c \in Classes |-> "uninitialized"]
  /\ tempFile' = [c \in Classes |-> "none"]
  /\ reported' = {}
  /\ UNCHANGED <<threadVars, loadLock>>

-----------------------------------------------------------------------------
Step(t) ==
  \/ LoadLibrary(t) \/ FindInJar(t) \/ ExtractLibrary(t) \/ Load(t)
  \/ GetEnv(t) \/ CacheClass(t) \/ ThrowNotFound(t) \/ CacheIds(t)
  \/ LoadFails(t) \/ Initialised(t)

Next ==
  \/ \E t \in Threads : Step(t) \/ \E c \in Classes : Initialise(t, c)
  \/ Unload

Spec == Init /\ [][Next]_loadingVars

(* Threads run, and none of these calls waits for anything but the load    *)
(* lock and the initialisation of a class.                                 *)
FairSpec == Spec /\ \A t \in Threads : WF_loadingVars(Step(t))

-----------------------------------------------------------------------------
(* Properties.                                                             *)

InOnLoad(t) == pc[t] \in OnLoadPcs

(* A copy is loaded, and its JNI_OnLoad run, from a complete file only:    *)
(* written to the end, flushed and closed.                                 *)
OnlyCompleteLoaded ==
  /\ \A c \in loaded \ {OnPath} : tempFile[c] = "complete"
  /\ \A t \in Threads : InOnLoad(t) /\ copy[t] # OnPath
                          => tempFile[copy[t]] = "complete"

(* Every copy that is loaded, and no other that is not just being loaded,  *)
(* holds the references to both classes, through loads that fail and       *)
(* threads that load different copies.  The only reference JNI_OnLoad ever *)
(* loses is the first class's, when it does not get the second.            *)
RefsBalanced ==
  /\ \A c \in Copies :
       \/ c \in loaded /\ RefsOf(c) \subseteq globalRefs
       \/ c \notin loaded /\ globalRefs \cap RefsOf(c) = {}
       \/ \E t \in Threads : loadLock = t /\ copy[t] = c /\ c \notin loaded
  /\ <<"JNI_OnLoad", Message>> \notin lost

(* A class whose initialiser calls load() is not initialised quietly       *)
(* without the library: some copy of it is loaded, to which its native     *)
(* methods will be linked, or an error was logged for it.                  *)
UsableOrReported ==
  \A c \in LoadingClasses :
    classState[c] = "initialized" => loaded # {} \/ c \in reported

(* Each class initialiser ends, though threads wait in it for each other's *)
(* loads and, in FindClass, with the load lock held, for initialisers.     *)
InitialisersEnd ==
  \A c \in Classes : classState[c] = "running" ~> classState[c] # "running"

(* GeneralException.hpp tells exceptions that are raised in Java from those*)
(* "where we should *not* because an exception is already pending in Java".*)
(* So no function that raises one, or that may not be called then, should  *)
(* be called in JNI_OnLoad with an exception pending.                      *)
NoThrowWhilePending ==
  \A t \in Threads : pc[t] \in {"throwNotFound", "cacheClass", "cacheIds"} => ~pending[t]
=============================================================================
