---------------------------- MODULE JniNativeCall ----------------------------
(***************************************************************************)
(* How a native method of libclp_ffi_java runs: a thread enters from Java, *)
(* makes JNI calls and calls into the CLP core, each of which may fail,    *)
(* and returns through the catch-all of GeneralException.hpp.              *)
(*                                                                         *)
(* What a native method does is its program, a sequence of steps; todo is  *)
(* what is left of it.  A step that fails throws a C++ exception, which    *)
(* unwinds the frame (the unique_ptrs release the array elements they      *)
(* hold), is caught by the catch-all and becomes a pending Java exception, *)
(* unless one is pending already.                                          *)
(***************************************************************************)
EXTENDS Integers, Sequences

CONSTANTS
  MaxIterations,  \* bound: messages in a batch, subqueries of a query
  ThrowNewMayFail \* whether ThrowNew may fail without a pending exception

ASSUME JniAssumption ==
  MaxIterations \in Nat /\ ThrowNewMayFail \in BOOLEAN

VARIABLES
  phase,     \* where the thread is
  todo,      \* the steps left of the native method
  held,      \* Java arrays whose elements are held by a unique_ptr
  refs,      \* local references per C++ variable
  nulls,     \* C++ variables that hold the null reference
  exception, \* the C++ exception in flight
  toThrow,   \* the Java exception class being thrown
  pending,   \* the pending Java exception
  call,      \* the JNI function called in the last step
  computed,  \* matchResults: number of results stored in the elements
  visible,   \* and in the Java array
  outcome,   \* how the last native call returned
  throwLost  \* history: ThrowNew failed in this call

vars == <<phase, todo, held, refs, nulls, exception, toThrow, pending, call,
          computed, visible, outcome, throwLost>>

-----------------------------------------------------------------------------
(* Steps.                                                                  *)
Step(do, what) == [do |-> do, what |-> what, left |-> 0]
Loop(body, n) == [do |-> "loop", what |-> body, left |-> n]

Get(array) == Step("get", array)         \* get_java_primitive_array_elements
New(ref) == Step("new", ref)             \* new_java_primitive_array
Create(ref) == Step("create", ref)       \* NewObjectArray, NewObject
Element(ref) == Step("element", ref)     \* GetObjectArrayElement
NullElement(ref) == Step("nullElement", ref) \* GetObjectArrayElement: null
SetElement == Step("setElement", "none") \* SetObjectArrayElement
Length(array) == Step("length", array)   \* GetArrayLength
SetField(ref) == Step("setField", ref)   \* SetObjectField
Core(class) == Step("core", class)       \* native work; class: what it throws
Store == Step("store", "none")           \* match_results[i] = ...
Reset(array) == Step("reset", array)     \* unique_ptr::reset
Delete(ref) == Step("delete", ref)       \* DeleteLocalRef

RowArrays == {"rowVars", "rowLogtype"}
Arrays == {"schemaVersion", "methodsVersion", "message", "logtype", "dictVars",
           "dictVarEndOffsets", "encodedVars", "wildcardQuery", "placeholders",
           "queries", "endIndexes", "matchResults", "timestampPattern",
           "timestampPatternSyntax", "timeZoneId"} \cup RowArrays
NullableArrays == {"dictVars", "dictVarEndOffsets", "encodedVars"}
Refs == RowArrays \cup
        {"exception", "result", "logtype", "dictVarBounds", "encodedVars",
         "cleanQuery", "logtypeQuery", "placeholders", "varBounds", "subquery",
         "class"}
JavaClasses == {"IllegalArgumentException", "IOException", "RuntimeException",
                "UnsupportedOperationException"}
(* What the JVM itself throws from a JNI function.                         *)
JvmError == "JvmError"

-----------------------------------------------------------------------------
(* The native methods.                                                     *)

validate_variable_handling_rule_versions ==
  <<Get("schemaVersion"), Core("UnsupportedOperationException"),
    Get("methodsVersion"), Core("UnsupportedOperationException")>>

encode_message_native(hasDictVars, hasEncodedVars) ==
  <<Get("message"), Length("message"), Core("IOException"),
    New("logtype"), SetField("logtype")>>
  \o (IF hasDictVars THEN <<New("dictVarBounds"), SetField("dictVarBounds")>>
      ELSE <<>>)
  \o (IF hasEncodedVars THEN <<New("encodedVars"), SetField("encodedVars")>>
      ELSE <<>>)

decode_message_native ==
  <<Get("logtype"), Get("dictVars"), Get("dictVarEndOffsets"),
    Get("encodedVars"), Core("IOException"), New("result")>>

jni_wildcard_query_matches_any_encoded_var ==
  <<Get("logtype"), Get("wildcardQuery"), Get("encodedVars"),
    Core("IOException")>>

batch_encoded_vars_wildcard_match_native(n) ==
  <<Get("placeholders"), Get("queries"), Get("endIndexes"),
    Get("matchResults"), Loop("row", n)>>

(* Fault injection: a row's local references are deleted before its        *)
(* elements are released.                                                  *)
RowEndReordered ==
  <<Delete("rowLogtype"), Reset("rowLogtype"),
    Delete("rowVars"), Reset("rowVars")>>

(* Fault injection: the logtype is deleted twice, the variables never.     *)
RowEndWrongRef ==
  <<Reset("rowLogtype"), Delete("rowLogtype"),
    Reset("rowVars"), Delete("rowLogtype")>>

RowEnd ==
  <<Reset("rowLogtype"), Delete("rowLogtype"),
    Reset("rowVars"), Delete("rowVars")>>

(* One message of the batch: without encoded variables; with, and a null   *)
(* logtype; with both.                                                     *)
RowStart == <<Element("rowVars"), Length("rowVars"), Get("rowVars")>>
RowMatch == <<Get("rowLogtype"), Core("IOException"), Store>> \o RowEnd

(* Fault injection: the length of a null logtype is asked for.             *)
RowBodiesUnchecked ==
  {<<NullElement("rowVars"), Store>>,
   RowStart \o <<NullElement("rowLogtype"), Length("rowLogtype")>> \o RowMatch,
   RowStart \o <<Element("rowLogtype"), Length("rowLogtype")>> \o RowMatch}

RowBodies ==
  {<<NullElement("rowVars"), Store>>,
   RowStart \o <<NullElement("rowLogtype")>> \o RowMatch,
   RowStart \o <<Element("rowLogtype"), Length("rowLogtype")>> \o RowMatch}

encode_native(n) ==
  <<Get("wildcardQuery"), New("cleanQuery"),
    Core("IllegalArgumentException"), Core("UnsupportedOperationException"),
    Create("result"), Loop("subquery", n)>>

(* Fault injection: one local reference per subquery is not deleted.       *)
SubqueryBodyLeaky ==
  <<New("logtypeQuery"), Core("RuntimeException"), New("dictVarBounds"),
    New("encodedVars"), New("placeholders"), New("varBounds"),
    Create("subquery"), SetElement,
    Delete("logtypeQuery"), Delete("dictVarBounds"), Delete("encodedVars"),
    Delete("placeholders"), Delete("subquery")>>

SubqueryBody ==
  <<New("logtypeQuery"), Core("RuntimeException"), New("dictVarBounds"),
    New("encodedVars"), New("placeholders"), New("varBounds"),
    Create("subquery"), SetElement,
    Delete("logtypeQuery"), Delete("dictVarBounds"), Delete("encodedVars"),
    Delete("placeholders"), Delete("varBounds"), Delete("subquery")>>

encode_preamble ==
  <<Core("IllegalArgumentException"), Get("timestampPattern"),
    Get("timestampPatternSyntax"), Get("timeZoneId"), Core("IOException"),
    New("result")>>

createNativeState == <<Core("none")>>

encode_log_event == <<Get("message"), Core("IOException"), New("result")>>

Programs ==
  {validate_variable_handling_rule_versions, decode_message_native,
   jni_wildcard_query_matches_any_encoded_var, encode_preamble,
   encode_log_event, createNativeState}
  \cup {encode_message_native(d, e) : d \in BOOLEAN, e \in BOOLEAN}
  \cup UNION {{batch_encoded_vars_wildcard_match_native(n), encode_native(n)} :
              n \in 0 .. MaxIterations}

Bodies(loop) == IF loop = "row" THEN RowBodies ELSE {SubqueryBody}

-----------------------------------------------------------------------------
Phases == {"java", "running", "unwinding", "findClass", "throwNew",
           "deleteClass"}
Exceptions == {"none", "JavaException", "JavaExceptionOccurred", "std"}

JniFunctions == {"GetArrayElements", "ReleaseArrayElements", "NewArray",
                 "SetArrayRegion", "NewObject", "GetObjectArrayElement",
                 "SetObjectArrayElement", "GetArrayLength", "SetObjectField",
                 "DeleteLocalRef", "FindClass", "ThrowNew"}

Calls == {"get", "new", "create", "element", "nullElement", "setElement",
          "length", "setField", "core", "store", "reset", "delete", "loop"}
Operands == Arrays \cup Refs \cup JavaClasses \cup {"none", "row", "subquery"}
Steps == [do : Calls, what : Operands, left : Nat]

(* A variable has zero or more references: none is deleted a second time,  *)
(* in whatever row, and only the null reference is deleted for nothing.    *)
TypeOK ==
  /\ phase \in Phases
  /\ todo \in Seq(Steps)
  /\ held \subseteq Arrays
  /\ refs \in [Refs -> Nat]
  /\ nulls \subseteq RowArrays
  /\ exception \in Exceptions
  /\ toThrow \in JavaClasses \cup {"none"}
  /\ pending \in JavaClasses \cup {"none", JvmError}
  /\ call \in JniFunctions \cup {"none"}
  /\ computed \in Nat
  /\ visible \in Nat
  /\ outcome \in {"none", "value", "error"}
  /\ throwLost \in BOOLEAN

NoRefs == [r \in Refs |-> 0]

Init ==
  /\ phase = "java"
  /\ todo = <<>>
  /\ held = {}
  /\ refs = NoRefs
  /\ nulls = {}
  /\ exception = "none"
  /\ toThrow = "none"
  /\ pending = "none"
  /\ call = "none"
  /\ computed = 0
  /\ visible = 0
  /\ outcome = "none"
  /\ throwLost = FALSE

(* Java code, which has dealt with the last outcome, calls a native method.*)
CallNative ==
  /\ phase = "java"
  /\ phase' = "running"
  /\ todo' \in Programs
  /\ pending' = "none"
  /\ computed' = 0
  /\ visible' = 0
  /\ outcome' = "none"
  /\ throwLost' = FALSE
  /\ call' = "none"
  /\ UNCHANGED <<held, refs, nulls, exception, toThrow>>

-----------------------------------------------------------------------------
(* What a step can come to.                                                *)

At(step) == phase = "running" /\ todo # <<>> /\ Head(todo).do = step
What == Head(todo).what

Proceed ==
  /\ todo' = Tail(todo)
  /\ UNCHANGED <<phase, exception, toThrow, pending>>

(* throw JavaExceptionOccurred(...): the JVM has an exception pending.     *)
JvmThrows ==
  /\ pending' = JvmError
  /\ exception' = "JavaExceptionOccurred"
  /\ phase' = "unwinding"
  /\ todo' = <<>>
  /\ UNCHANGED toThrow

(* throw GeneralException(...) or any other std::exception.                *)
StdThrows ==
  /\ exception' = "std"
  /\ phase' = "unwinding"
  /\ todo' = <<>>
  /\ UNCHANGED <<toThrow, pending>>

(* throw Java<class>(...): its constructor throws in Java first.           *)
JavaThrows(class) ==
  /\ toThrow' = class
  /\ exception' = "JavaException"
  /\ phase' = "findClass"
  /\ todo' = <<>>
  /\ UNCHANGED pending

(* The variables of rs get a reference that is not null.                   *)
AddRefs(rs) ==
  /\ refs' = [r \in Refs |-> IF r \in rs THEN refs[r] + 1 ELSE refs[r]]
  /\ nulls' = nulls \ rs
AddRef(r) == AddRefs({r})

(* ExceptionOccurred() returns a local reference if one is pending.        *)
Occurred == JvmThrows /\ AddRef("exception")

-----------------------------------------------------------------------------
(* get_java_primitive_array_elements: a null array has no elements to get. *)
GetNull ==
  /\ At("get") /\ What \in nulls \cup NullableArrays
  /\ Proceed
  /\ call' = "none"
  /\ UNCHANGED <<held, refs, nulls, computed, visible, outcome, throwLost>>

GetElements ==
  /\ At("get") /\ What \notin nulls
  /\ call' = "GetArrayElements"
  /\ \/ Proceed /\ held' = held \cup {What} /\ UNCHANGED <<refs, nulls>>
     \/ Occurred /\ UNCHANGED held
     \/ StdThrows /\ UNCHANGED <<held, refs, nulls>>
  /\ UNCHANGED <<computed, visible, outcome, throwLost>>

(* new_java_primitive_array: the array may be created and then not filled. *)
NewArray ==
  /\ At("new")
  /\ \/ /\ JavaThrows("UnsupportedOperationException")
        /\ call' = "none"
        /\ UNCHANGED <<refs, nulls>>
     \/ /\ call' = "NewArray"
        /\ \/ Proceed /\ AddRef(What)
           \/ Occurred
           \/ StdThrows /\ UNCHANGED <<refs, nulls>>
     \/ /\ call' = "SetArrayRegion"
        /\ JvmThrows
        /\ AddRefs({What, "exception"})
  /\ UNCHANGED <<held, computed, visible, outcome, throwLost>>

CreateObject ==
  /\ At("create")
  /\ call' = "NewObject"
  /\ \/ Proceed /\ AddRef(What)
     \/ Occurred
     \/ StdThrows /\ UNCHANGED <<refs, nulls>>
  /\ UNCHANGED <<held, computed, visible, outcome, throwLost>>

(* GetObjectArrayElement returns an element, which may be null.            *)
GetElement ==
  /\ At("element") \/ At("nullElement")
  /\ call' = "GetObjectArrayElement"
  /\ \/ At("element") /\ Proceed /\ AddRef(What)
     \/ At("nullElement") /\ Proceed /\ nulls' = nulls \cup {What}
                          /\ UNCHANGED refs
     \/ Occurred
  /\ UNCHANGED <<held, computed, visible, outcome, throwLost>>

SetArrayElement ==
  /\ At("setElement")
  /\ call' = "SetObjectArrayElement"
  /\ \/ Proceed /\ UNCHANGED <<refs, nulls>>
     \/ Occurred
  /\ UNCHANGED <<held, computed, visible, outcome, throwLost>>

(* JNI functions that cannot fail.                                         *)
PlainCall ==
  /\ \/ At("length") /\ call' = "GetArrayLength"
     \/ At("setField") /\ call' = "SetObjectField"
  /\ Proceed
  /\ UNCHANGED <<held, refs, nulls, computed, visible, outcome, throwLost>>

(* Checks of arguments and calls into the CLP core; an EncodingException   *)
(* or QueryMethodFailed is rethrown as a JavaException.                    *)
CallCore ==
  /\ At("core")
  /\ call' = "none"
  /\ \/ Proceed
     \/ What # "none" /\ JavaThrows(What)
     \/ StdThrows
  /\ UNCHANGED <<held, refs, nulls, computed, visible, outcome, throwLost>>

StoreResult ==
  /\ At("store")
  /\ Proceed
  /\ computed' = computed + 1
  /\ call' = "none"
  /\ UNCHANGED <<held, refs, nulls, visible, outcome, throwLost>>

(* The variables of the loop's body go out of scope.                       *)
Iterate ==
  /\ At("loop")
  /\ call' = "none"
  /\ nulls' = {}
  /\ IF Head(todo).left = 0 THEN todo' = Tail(todo)
     ELSE \E body \in Bodies(What) :
            todo' = body \o <<Loop(What, Head(todo).left - 1)>> \o Tail(todo)
  /\ UNCHANGED <<phase, held, refs, exception, toThrow, pending, computed,
                 visible, outcome, throwLost>>

(* Deleting the null reference does nothing.                               *)
DeleteLocalRef ==
  /\ At("delete")
  /\ Proceed
  /\ call' = "DeleteLocalRef"
  /\ refs' = IF What \in nulls THEN refs ELSE [refs EXCEPT ![What] = @ - 1]
  /\ UNCHANGED <<held, nulls, computed, visible, outcome, throwLost>>

-----------------------------------------------------------------------------
(* Fault injection: matchResults is released like the input arrays.        *)
ReleaseAborting(array) ==
  /\ held' = held \ {array}
  /\ call' = IF array \in held THEN "ReleaseArrayElements" ELSE "none"
  /\ UNCHANGED visible

(* JavaPrimitiveArrayElementsDeleter: release mode 0 for matchResults      *)
(* copies the elements back to Java, JNI_ABORT for the others does not.    *)
Release(array) ==
  /\ held' = held \ {array}
  /\ call' = IF array \in held THEN "ReleaseArrayElements" ELSE "none"
  /\ visible' = IF array = "matchResults" THEN computed ELSE visible

ResetArray ==
  /\ At("reset")
  /\ Proceed
  /\ Release(What)
  /\ UNCHANGED <<refs, nulls, computed, outcome, throwLost>>

(* The end of the frame, by return or by exception.                        *)
FrameEnds == phase = "unwinding" \/ (phase = "running" /\ todo = <<>>)

Unwind ==
  /\ FrameEnds
  /\ \E array \in held : Release(array)
  /\ phase' = "unwinding"
  /\ UNCHANGED <<todo, refs, nulls, exception, toThrow, pending, computed,
                 outcome, throwLost>>

Return(result) ==
  /\ phase' = "java"
  /\ outcome' = result
  /\ refs' = NoRefs
  /\ nulls' = {}
  /\ exception' = "none"
  /\ toThrow' = "none"

(* Fault injection: the catch-all takes every exception for one that has   *)
(* been thrown in Java.                                                    *)
CatchAllSilent ==
  /\ FrameEnds
  /\ held = {}
  /\ call' = "none"
  /\ Return(IF exception = "none" THEN "value" ELSE "error")
  /\ UNCHANGED <<todo, held, pending, computed, visible, throwLost>>

(* Fault injection: the catch clause for std::exception comes first.       *)
CatchAllWrongOrder ==
  /\ FrameEnds
  /\ held = {}
  /\ call' = "none"
  /\ \/ exception = "none" /\ Return("value")
     \/ /\ exception # "none"
        /\ phase' = "findClass"
        /\ exception' = "std"
        /\ toThrow' = "RuntimeException"
        /\ UNCHANGED <<refs, nulls, outcome>>
  /\ UNCHANGED <<todo, held, pending, computed, visible, throwLost>>

(* LIBCLP_FFI_JAVA_EXCEPTION_CATCHALL_END.                                 *)
CatchAll ==
  /\ FrameEnds
  /\ held = {}
  /\ call' = "none"
  /\ \/ exception = "none" /\ Return("value")
     \/ /\ exception \in {"JavaException", "JavaExceptionOccurred"}
        /\ Return("error")
     \/ /\ exception = "std"
        /\ phase' = "findClass"
        /\ toThrow' = "RuntimeException"
        /\ UNCHANGED <<refs, nulls, exception, outcome>>
  /\ UNCHANGED <<todo, held, pending, computed, visible, throwLost>>

-----------------------------------------------------------------------------
(* JavaException::throw_in_java, from a JavaException's constructor (which *)
(* then goes on throwing in C++) or from the catch-all (which returns).    *)
Thrown ==
  IF exception = "JavaException"
  THEN /\ phase' = "unwinding"
       /\ UNCHANGED <<refs, nulls, exception, toThrow, outcome>>
  ELSE Return("error")

FindClass ==
  /\ phase = "findClass"
  /\ call' = "FindClass"
  /\ \/ /\ phase' = "throwNew"
        /\ AddRef("class")
        /\ UNCHANGED <<exception, toThrow, pending, outcome>>
     \/ pending' = JvmError /\ Thrown
  /\ UNCHANGED <<todo, held, computed, visible, throwLost>>

(* Fault injection: the class is deleted when ThrowNew fails, and again as *)
(* when it does not.                                                       *)
ThrowNewDeletesTwice ==
  /\ phase = "throwNew"
  /\ phase' = "deleteClass"
  /\ call' = "ThrowNew"
  /\ \/ pending' = toThrow /\ UNCHANGED <<refs, throwLost>>
     \/ /\ ThrowNewMayFail
        /\ throwLost' = TRUE
        /\ refs' = [refs EXCEPT !["class"] = @ - 1]
        /\ UNCHANGED pending
  /\ UNCHANGED <<todo, held, nulls, exception, toThrow, computed, visible,
                 outcome>>

ThrowNew ==
  /\ phase = "throwNew"
  /\ phase' = "deleteClass"
  /\ call' = "ThrowNew"
  /\ \/ pending' = toThrow /\ UNCHANGED throwLost
     \/ ThrowNewMayFail /\ throwLost' = TRUE /\ UNCHANGED pending
  /\ UNCHANGED <<todo, held, refs, nulls, exception, toThrow, computed,
                 visible, outcome>>

DeleteClassRef ==
  /\ phase = "deleteClass"
  /\ call' = "DeleteLocalRef"
  /\ \/ /\ exception = "JavaException"
        /\ phase' = "unwinding"
        /\ refs' = [refs EXCEPT !["class"] = @ - 1]
        /\ UNCHANGED <<nulls, exception, toThrow, outcome>>
     \/ exception # "JavaException" /\ Return("error")
  /\ UNCHANGED <<todo, held, pending, computed, visible, throwLost>>

RunStep ==
  \/ GetNull \/ GetElements \/ NewArray \/ CreateObject \/ GetElement
  \/ SetArrayElement \/ PlainCall \/ CallCore \/ StoreResult \/ Iterate
  \/ DeleteLocalRef \/ ResetArray

Next ==
  \/ CallNative \/ RunStep \/ Unwind \/ CatchAll
  \/ FindClass \/ ThrowNew \/ DeleteClassRef

Spec == Init /\ [][Next]_vars

-----------------------------------------------------------------------------
(* Properties.                                                             *)

(* A native method that fails returns null, false or nothing, which Java   *)
(* may take for a result: so it returns like that exactly with a Java      *)
(* exception pending, whichever JNI function, core function or allocation  *)
(* failed, unless ThrowNew itself did.                                     *)
ErrorIffPending ==
  phase = "java" =>
    /\ outcome = "error" => pending # "none" \/ throwLost
    /\ outcome = "value" => pending = "none"

(* JNI functions other than these must not be called while a Java          *)
(* exception is pending.                                                   *)
SafeWhilePending == {"none", "ReleaseArrayElements", "DeleteLocalRef"}

(* The catch-all's two kinds of exception (already thrown in Java, or not) *)
(* keep native code from ever calling into the JVM with an exception       *)
(* pending, and so from replacing the exception Java should see.           *)
NoCallWhilePending ==
  [][pending = "none" \/ call' \in SafeWhilePending]_vars

(* However a native method ends, every array it got is released and every  *)
(* match result it stored, also before a failure, is in the Java array.    *)
NothingHeldAfterReturn ==
  phase = "java" => held = {} /\ visible = computed

(* No local reference is overwritten before it is deleted: a call needs as *)
(* many as it has variables, however many rows or subqueries there are.    *)
OneRefPerVariable == \A r \in Refs : refs[r] <= 1

(* The elements of a row's array are released before the reference to the  *)
(* array they go back to is deleted.                                       *)
HeldIsReferenced == \A array \in held \cap RowArrays : refs[array] > 0

(* The references a step passes to JNI; the other arrays are arguments.    *)
SubqueryArguments == {"cleanQuery", "logtypeQuery", "dictVarBounds",
                      "encodedVars", "placeholders", "varBounds"}
Passes(step, r) ==
  \/ step.do \in {"get", "length"} /\ step.what = r /\ r \in RowArrays
  \/ step.do \in {"setField", "delete"} /\ step.what = r
  \/ step.do = "setElement" /\ r \in {"result", "subquery"}
  \/ step.do = "create" /\ step.what = "subquery" /\ r \in SubqueryArguments

(* JNI gets no reference that has been deleted or was never made, in       *)
(* whatever order rows and subqueries come, and no null logtype except     *)
(* where the code lets it pass: to get its elements and to delete it.      *)
PassesLiveReferences ==
  phase = "running" /\ todo # <<>> =>
    \A r \in Refs : Passes(Head(todo), r) =>
      refs[r] > 0 \/ (r \in nulls /\ Head(todo).do \in {"get", "delete"})
=============================================================================
