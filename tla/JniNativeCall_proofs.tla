------------------------- MODULE JniNativeCall_proofs -------------------------
(***************************************************************************)
(* Theorems about JniNativeCall.  The first two do not depend on what the  *)
(* native methods' programs are: the catch-all and the exception classes   *)
(* alone keep the error discipline.  The others do: they rest on what is   *)
(* true of any program's remaining steps.                                  *)
(***************************************************************************)
EXTENDS JniNativeCall, TLAPS

(* What the kind of C++ exception in flight says about the pending one.    *)
Discipline ==
  /\ phase \in Phases /\ exception \in Exceptions
  /\ phase = "java" => /\ held = {}
                       /\ outcome = "error" => pending # "none" \/ throwLost
                       /\ outcome = "value" => pending = "none"
                       /\ exception = "none"
  /\ phase = "running" => exception = "none" /\ pending = "none"
  /\ phase = "unwinding" =>
       /\ exception \in {"none", "std"} => pending = "none"
       /\ exception \in {"JavaException", "JavaExceptionOccurred"}
            => pending # "none" \/ throwLost
  /\ phase \in {"findClass", "throwNew"} =>
       /\ pending = "none"
       /\ toThrow # "none"
  /\ phase \in {"findClass", "throwNew", "deleteClass"} =>
       /\ exception \in {"JavaException", "std"}
       /\ exception = "std" => held = {}
  /\ phase = "deleteClass" => pending # "none" \/ throwLost

LEMMA InitDiscipline == Init => Discipline
BY DEF Init, Discipline, Phases, Exceptions

(* Every step of every native method keeps the discipline.                 *)
LEMMA StepDiscipline == Discipline /\ [Next]_vars => Discipline'
<1> SUFFICES ASSUME Discipline, [Next]_vars PROVE Discipline'
  OBVIOUS
<1> USE DEF Discipline, Phases, Exceptions
<1> USE DEF At, Proceed, JvmThrows, StdThrows, JavaThrows, Occurred, JvmError
<1>1. CASE UNCHANGED vars
  BY <1>1 DEF vars
<1>2. CASE CallNative
  BY <1>2 DEF CallNative
<1>3. CASE GetNull \/ GetElements
  BY <1>3 DEF GetNull, GetElements
<1>4. CASE NewArray
  BY <1>4 DEF NewArray
<1>5. CASE CreateObject \/ GetElement \/ SetArrayElement
  BY <1>5 DEF CreateObject, GetElement, SetArrayElement
<1>6. CASE PlainCall \/ StoreResult \/ Iterate \/ DeleteLocalRef \/ ResetArray
  BY <1>6 DEF PlainCall, StoreResult, Iterate, DeleteLocalRef, ResetArray
<1>7. CASE CallCore
  BY <1>7 DEF CallCore
<1>8. CASE Unwind
  BY <1>8 DEF Unwind, FrameEnds
<1>9. CASE CatchAll
  BY <1>9 DEF CatchAll, FrameEnds, Return
<1>10. CASE FindClass
  BY <1>10 DEF FindClass, Thrown, Return
<1>11. CASE ThrowNew
  BY <1>11 DEF ThrowNew
<1>12. CASE DeleteClassRef
  BY <1>12 DEF DeleteClassRef, Return
<1>13. QED
  BY <1>1, <1>2, <1>3, <1>4, <1>5, <1>6, <1>7, <1>8, <1>9, <1>10, <1>11, <1>12
     DEF Next, RunStep

LEMMA DisciplineHolds == Spec => []Discipline
BY InitDiscipline, StepDiscipline, PTL DEF Spec

(* A native method returns an error exactly with a Java exception pending. *)
THEOREM ErrorsReachJava == Spec => []ErrorIffPending
<1>1. Discipline => ErrorIffPending
  BY DEF Discipline, ErrorIffPending
<1>2. QED  BY <1>1, DisciplineHolds, PTL

(* No step calls into the JVM with an exception pending, except to release.*)
THEOREM JvmCalledOnlyWithoutException == Spec => NoCallWhilePending
<1>1. Discipline /\ [Next]_vars
        => [pending = "none" \/ call' \in SafeWhilePending]_vars
  <2> SUFFICES ASSUME Discipline, Next, pending # "none"
               PROVE  call' \in SafeWhilePending
    OBVIOUS
  <2> USE DEF SafeWhilePending, Discipline
  <2>1. CASE CallNative
    BY <2>1 DEF CallNative
  <2>2. CASE Unwind
    BY <2>2 DEF Unwind, Release
  <2>3. CASE CatchAll
    BY <2>3 DEF CatchAll
  <2>4. CASE DeleteClassRef
    BY <2>4 DEF DeleteClassRef
  <2>5. ~RunStep
    BY DEF RunStep, At, GetNull, GetElements, NewArray, CreateObject,
           GetElement, SetArrayElement, PlainCall, CallCore, StoreResult,
           Iterate, DeleteLocalRef, ResetArray
  <2>6. ~FindClass /\ ~ThrowNew
    BY DEF FindClass, ThrowNew
  <2>7. QED  BY <2>1, <2>2, <2>3, <2>4, <2>5, <2>6 DEF Next
<1>2. QED  BY <1>1, DisciplineHolds, PTL DEF Spec, NoCallWhilePending

-----------------------------------------------------------------------------
(* What the steps that are left say of the arrays held.                    *)

RowDelete(step) == step.do = "delete" /\ step.what \in RowArrays

(* Only the arrays of a row are reset, and each right before its reference *)
(* is deleted; a delete that comes first is of an array that is not in h.  *)
TodoInv(s, h) ==
  /\ s \in Seq(Steps)
  /\ \A i \in 1 .. Len(s) : s[i].do = "reset" => s[i].what \in RowArrays
  /\ \A i \in 1 .. Len(s) : RowDelete(s[i]) =>
       /\ i = 1 => s[i].what \notin h
       /\ i # 1 => s[i - 1].do = "reset" /\ s[i - 1].what = s[i].what

(* True of any h if it is of all that a delete could be of.                *)
WellFormed(s) == TodoInv(s, RowArrays)

(* No match result is going to be stored.                                  *)
StoresNothing(s) ==
  \A i \in 1 .. Len(s) :
    s[i].do # "store" /\ ~(s[i].do = "loop" /\ s[i].what = "row")

(* A batch that has not got matchResults yet.                              *)
BatchStart(s) ==
  \E n \in Nat :
    LET results == <<Get("matchResults"), Loop("row", n)>>
    IN  \/ s = results
        \/ s = <<Get("endIndexes"), Get("matchResults"), Loop("row", n)>>
        \/ s = <<Get("queries"), Get("endIndexes"), Get("matchResults"),
                 Loop("row", n)>>
        \/ s = <<Get("placeholders"), Get("queries"), Get("endIndexes"),
                 Get("matchResults"), Loop("row", n)>>

StoreInv(s, h) == StoresNothing(s) \/ "matchResults" \in h \/ BatchStart(s)

ProgramInv ==
  /\ phase # "running" => todo = <<>>
  /\ TodoInv(todo, held) /\ StoreInv(todo, held)
  /\ computed # visible => "matchResults" \in held
  /\ refs \in [Refs -> Int] /\ \A array \in RowArrays : refs[array] >= 0
  /\ HeldIsReferenced

LEMMA TailTodo ==
  ASSUME NEW s, NEW h, NEW g, TodoInv(s, h), s # <<>>,
         s[1].do = "reset" => s[1].what \notin g
  PROVE  TodoInv(Tail(s), g)
<1>1. /\ Tail(s) \in Seq(Steps) /\ Len(Tail(s)) = Len(s) - 1 /\ Len(s) \in Nat
      /\ \A i \in 1 .. Len(s) - 1 : Tail(s)[i] = s[i + 1]
  BY DEF TodoInv
<1>2. \A i \in 1 .. Len(s) - 1 : /\ i + 1 \in 1 .. Len(s) /\ i + 1 # 1
                                 /\ (i + 1) - 1 = i
  BY <1>1
<1>3. \A i \in 1 .. Len(Tail(s)) :
        Tail(s)[i].do = "reset" => Tail(s)[i].what \in RowArrays
  BY <1>1, <1>2 DEF TodoInv
<1>4. ASSUME NEW i \in 1 .. Len(Tail(s)), RowDelete(Tail(s)[i])
      PROVE  /\ i = 1 => Tail(s)[i].what \notin g
             /\ i # 1 => /\ Tail(s)[i - 1].do = "reset"
                         /\ Tail(s)[i - 1].what = Tail(s)[i].what
  <2>1. s[i].do = "reset" /\ s[i].what = s[i + 1].what
    BY <1>1, <1>2, <1>4 DEF TodoInv
  <2>2. i # 1 => i - 1 \in 1 .. Len(s) - 1 /\ (i - 1) + 1 = i
    BY <1>1
  <2>3. QED  BY <1>1, <2>1, <2>2
<1>5. QED  BY <1>1, <1>3, <1>4 DEF TodoInv

LEMMA ConcatTodo ==
  ASSUME NEW s, NEW t, NEW h, TodoInv(s, h), WellFormed(t), s # <<>>
  PROVE  TodoInv(s \o t, h)
<1> USE DEF TodoInv, WellFormed
<1>1. /\ s \o t \in Seq(Steps) /\ Len(s \o t) = Len(s) + Len(t)
      /\ Len(s) \in Nat \ {0} /\ Len(t) \in Nat
      /\ \A i \in 1 .. Len(s) + Len(t) :
           (s \o t)[i] = IF i <= Len(s) THEN s[i] ELSE t[i - Len(s)]
  OBVIOUS
<1>2. \A i \in 1 .. Len(s \o t) :
        (s \o t)[i].do = "reset" => (s \o t)[i].what \in RowArrays
  BY <1>1
<1>3. ASSUME NEW i \in 1 .. Len(s \o t), RowDelete((s \o t)[i])
      PROVE  /\ i = 1 => (s \o t)[i].what \notin h
             /\ i # 1 => /\ (s \o t)[i - 1].do = "reset"
                         /\ (s \o t)[i - 1].what = (s \o t)[i].what
  <2>1. CASE i <= Len(s)
    BY <1>1, <1>3, <2>1
  <2>2. CASE i > Len(s)
    <3> DEFINE j == i - Len(s)
    <3>1. j \in 1 .. Len(t) /\ (s \o t)[i] = t[j]
      BY <1>1, <2>2
    <3>2. j # 1
      BY <1>3, <3>1 DEF RowDelete
    <3>3. t[j - 1].do = "reset" /\ t[j - 1].what = t[j].what
      BY <1>3, <3>1, <3>2
    <3>4. i # 1 /\ (s \o t)[i - 1] = t[j - 1]
      BY <1>1, <2>2, <3>1, <3>2
    <3>5. QED  BY <3>1, <3>3, <3>4
  <2>3. QED  BY <1>1, <2>1, <2>2
<1>4. QED  BY <1>1, <1>2, <1>3

(* What holds with every array of a row held, holds with any held.         *)
LEMMA WeakenTodo ==
  ASSUME NEW s, NEW h, TodoInv(s, RowArrays)
  PROVE  TodoInv(s, h)
<1>1. s \in Seq(Steps) /\ Len(s) \in Nat
  BY DEF TodoInv
<1>2. \A i \in 1 .. Len(s) : RowDelete(s[i]) => i # 1
  BY DEF TodoInv, RowDelete
<1>3. QED  BY <1>1, <1>2 DEF TodoInv

LEMMA ConcatAssociative ==
  ASSUME NEW S, NEW s \in Seq(S), NEW t \in Seq(S), NEW u \in Seq(S)
  PROVE  s \o t \o u = s \o (t \o u)
OBVIOUS

LEMMA ConcatStores ==
  ASSUME NEW s \in Seq(Steps), NEW t \in Seq(Steps),
         StoresNothing(s), StoresNothing(t)
  PROVE  StoresNothing(s \o t)
BY DEF StoresNothing

LEMMA TailStores ==
  ASSUME NEW s \in Seq(Steps), s # <<>>, StoresNothing(s)
  PROVE  StoresNothing(Tail(s))
BY DEF StoresNothing

(* Steps that may come in any order, and those that store no result.       *)
SimpleSteps == {x \in Steps : x.do # "reset" /\ ~RowDelete(x)}
QuietSteps ==
  {x \in SimpleSteps : x.do # "store" /\ ~(x.do = "loop" /\ x.what = "row")}

LEMMA SimpleSequence == \A s \in Seq(SimpleSteps) : WellFormed(s)
BY DEF SimpleSteps, WellFormed, TodoInv

LEMMA QuietSequence ==
  \A s \in Seq(QuietSteps) : s \in Seq(Steps) /\ WellFormed(s) /\ StoresNothing(s)
<1> SUFFICES ASSUME NEW s \in Seq(QuietSteps)
             PROVE  s \in Seq(Steps) /\ WellFormed(s) /\ StoresNothing(s)
  OBVIOUS
<1>1. s \in Seq(SimpleSteps) /\ s \in Seq(Steps)
  BY DEF QuietSteps, SimpleSteps
<1>2. StoresNothing(s)
  BY DEF QuietSteps, StoresNothing
<1>3. QED  BY <1>1, <1>2, SimpleSequence

LEMMA StepFields ==
  ASSUME NEW d \in Calls, NEW w \in Operands
  PROVE  Step(d, w) \in Steps /\ Step(d, w).do = d /\ Step(d, w).what = w
<1>1. Step(d, w) \in Steps
  BY DEF Step, Steps
<1>2. Step(d, w).do = d /\ Step(d, w).what = w
  BY DEF Step
<1>3. QED  BY <1>1, <1>2

LEMMA LoopFields ==
  ASSUME NEW b \in {"row", "subquery"}, NEW n \in Nat
  PROVE  Loop(b, n) \in Steps /\ Loop(b, n).do = "loop" /\ Loop(b, n).what = b
<1>1. Loop(b, n) \in Steps
  BY DEF Loop, Steps, Calls, Operands
<1>2. Loop(b, n).do = "loop" /\ Loop(b, n).what = b
  BY DEF Loop
<1>3. QED  BY <1>1, <1>2

LEMMA QuietStep ==
  ASSUME NEW d \in Calls, NEW w \in Operands, d \notin {"reset", "store", "loop"},
         d = "delete" => w \notin RowArrays
  PROVE  Step(d, w) \in QuietSteps
BY StepFields DEF QuietSteps, SimpleSteps, RowDelete

LEMMA Constructors ==
  /\ \A w \in Operands : /\ Get(w) \in QuietSteps /\ New(w) \in QuietSteps
                         /\ Create(w) \in QuietSteps /\ Element(w) \in QuietSteps
                         /\ NullElement(w) \in QuietSteps
                         /\ Length(w) \in QuietSteps /\ SetField(w) \in QuietSteps
                         /\ Core(w) \in QuietSteps
                         /\ w \notin RowArrays => Delete(w) \in QuietSteps
  /\ SetElement \in QuietSteps
  /\ Store \in SimpleSteps /\ QuietSteps \subseteq SimpleSteps
  /\ \A n \in Nat : Loop("subquery", n) \in QuietSteps
                    /\ Loop("row", n) \in SimpleSteps
<1>1. \A w \in Operands : /\ Get(w) \in QuietSteps /\ New(w) \in QuietSteps
                          /\ Create(w) \in QuietSteps /\ Element(w) \in QuietSteps
                          /\ NullElement(w) \in QuietSteps
  BY QuietStep DEF Calls, Get, New, Create, Element, NullElement
<1>2. \A w \in Operands : /\ Length(w) \in QuietSteps /\ SetField(w) \in QuietSteps
                          /\ Core(w) \in QuietSteps
                          /\ w \notin RowArrays => Delete(w) \in QuietSteps
  BY QuietStep DEF Calls, Length, SetField, Core, Delete
<1>3. SetElement \in QuietSteps
  BY QuietStep DEF Calls, Operands, SetElement
<1>4. Store \in SimpleSteps
  BY StepFields DEF Calls, Operands, Store, SimpleSteps, RowDelete
<1>5. \A n \in Nat : Loop("subquery", n) \in QuietSteps
                     /\ Loop("row", n) \in SimpleSteps
  BY LoopFields DEF QuietSteps, SimpleSteps, RowDelete
<1>6. QED
  BY <1>1, <1>2, <1>3, <1>4, <1>5 DEF QuietSteps

LEMMA ResetThenDelete ==
  ASSUME NEW a \in Steps, NEW b \in Steps, NEW c \in Steps, NEW d \in Steps,
         a.do = "reset", b.do = "delete", a.what = b.what, a.what \in RowArrays,
         c.do = "reset", d.do = "delete", c.what = d.what, c.what \in RowArrays
  PROVE  WellFormed(<<a, b, c, d>>)
<1>1. \A i \in 1 .. Len(<<a, b, c, d>>) : \/ i = 1 /\ <<a, b, c, d>>[i] = a
                                          \/ i = 2 /\ <<a, b, c, d>>[i] = b
                                          \/ i = 3 /\ <<a, b, c, d>>[i] = c
                                          \/ i = 4 /\ <<a, b, c, d>>[i] = d
  OBVIOUS
<1>2. QED
  BY <1>1 DEF WellFormed, TodoInv, RowDelete

(* The loop bodies.                                                        *)
LEMMA RowBodiesWellFormed == \A body \in RowBodies : WellFormed(body)
<1> DEFINE start == RowStart
           match == <<Get("rowLogtype"), Core("IOException"), Store>>
           null == <<NullElement("rowLogtype")>>
           logtype == <<Element("rowLogtype"), Length("rowLogtype")>>
<1>1. WellFormed(RowEnd)
  <2>1. \A w \in RowArrays : /\ Reset(w) \in Steps /\ Delete(w) \in Steps
                             /\ Reset(w).do = "reset" /\ Reset(w).what = w
                             /\ Delete(w).do = "delete" /\ Delete(w).what = w
    BY StepFields DEF Calls, Operands, Arrays, Reset, Delete, RowArrays
  <2>2. "rowVars" \in RowArrays /\ "rowLogtype" \in RowArrays
    BY DEF RowArrays
  <2>3. QED  BY <2>1, <2>2, ResetThenDelete DEF RowEnd
<1>2. /\ match \in Seq(SimpleSteps) /\ start \in Seq(SimpleSteps)
      /\ null \in Seq(SimpleSteps) /\ logtype \in Seq(SimpleSteps)
      /\ <<NullElement("rowVars"), Store>> \in Seq(SimpleSteps)
  <2>1. {"rowVars", "rowLogtype", "IOException"} \subseteq Operands
    BY DEF Operands, Arrays, RowArrays, JavaClasses
  <2>2. /\ Get("rowLogtype") \in SimpleSteps /\ Core("IOException") \in SimpleSteps
        /\ Store \in SimpleSteps /\ Element("rowVars") \in SimpleSteps
        /\ Length("rowVars") \in SimpleSteps /\ Get("rowVars") \in SimpleSteps
        /\ NullElement("rowVars") \in SimpleSteps
        /\ NullElement("rowLogtype") \in SimpleSteps
        /\ Element("rowLogtype") \in SimpleSteps
        /\ Length("rowLogtype") \in SimpleSteps
    <3>1. \A w \in Operands : /\ Get(w) \in SimpleSteps /\ Core(w) \in SimpleSteps
                              /\ Element(w) \in SimpleSteps
                              /\ NullElement(w) \in SimpleSteps
                              /\ Length(w) \in SimpleSteps
      BY Constructors
    <3>2. Store \in SimpleSteps
      BY Constructors
    <3>3. QED  BY <2>1, <3>1, <3>2
  <2>3. QED  BY <2>2 DEF RowStart
<1>3. match # <<>> /\ start # <<>> /\ null # <<>> /\ logtype # <<>>
  BY DEF RowStart
<1> HIDE DEF start, match, null, logtype
<1>4. WellFormed(match \o RowEnd) /\ match \o RowEnd = RowMatch
  BY <1>1, <1>2, <1>3, SimpleSequence, ConcatTodo DEF WellFormed, RowMatch, match
<1>5. start \o null \in Seq(SimpleSteps) /\ start \o null # <<>>
  BY <1>2, <1>3
<1>6. start \o logtype \in Seq(SimpleSteps) /\ start \o logtype # <<>>
  BY <1>2, <1>3
<1>7. WellFormed(start \o null \o RowMatch)
  BY <1>4, <1>5, SimpleSequence, ConcatTodo DEF WellFormed
<1>8. WellFormed(start \o logtype \o RowMatch)
  BY <1>4, <1>6, SimpleSequence, ConcatTodo DEF WellFormed
<1>9. WellFormed(<<NullElement("rowVars"), Store>>)
  BY <1>2, SimpleSequence
<1>10. QED
  BY <1>7, <1>8, <1>9 DEF RowBodies, start, null, logtype

LEMMA SubqueryBodyQuiet == SubqueryBody \in Seq(QuietSteps)
<1>1. \A w \in {"dictVarBounds", "encodedVars", "logtypeQuery", "placeholders",
                "varBounds", "subquery"} :
        New(w) \in QuietSteps /\ Create(w) \in QuietSteps /\ Delete(w) \in QuietSteps
  <2>1. \A w \in {"dictVarBounds", "encodedVars", "logtypeQuery", "placeholders",
                  "varBounds", "subquery"} : w \in Operands /\ w \notin RowArrays
    BY DEF Operands, Refs, RowArrays
  <2>2. QED  BY <2>1, Constructors
<1>2. Core("RuntimeException") \in QuietSteps
  BY Constructors DEF Operands, JavaClasses
<1>3. SetElement \in QuietSteps
  BY Constructors
<1>4. QED  BY <1>1, <1>2, <1>3 DEF SubqueryBody

(* The programs.                                                           *)
LEMMA Quiet ==
  ASSUME NEW s \in Seq(QuietSteps)
  PROVE  TodoInv(s, {}) /\ StoresNothing(s)
BY QuietSequence DEF WellFormed, TodoInv

LEMMA ProgramsInv == \A s \in Programs : TodoInv(s, {}) /\ StoreInv(s, {})
<1> DEFINE A(w) == Get(w) \in QuietSteps /\ New(w) \in QuietSteps
                   /\ Length(w) \in QuietSteps /\ SetField(w) \in QuietSteps
                   /\ Core(w) \in QuietSteps /\ Create(w) \in QuietSteps
<1>1. \A w \in Arrays \cup Refs \cup JavaClasses \cup {"none"} : A(w)
  BY Constructors DEF Operands
<1>2. \A n \in Nat : Loop("subquery", n) \in QuietSteps
  BY Constructors
<1> USE <1>1 DEF Arrays, RowArrays, Refs, JavaClasses
<1>3. validate_variable_handling_rule_versions \in Seq(QuietSteps)
  BY DEF validate_variable_handling_rule_versions
<1>4. /\ decode_message_native \in Seq(QuietSteps)
      /\ jni_wildcard_query_matches_any_encoded_var \in Seq(QuietSteps)
  BY DEF decode_message_native, jni_wildcard_query_matches_any_encoded_var
<1>5. encode_preamble \in Seq(QuietSteps)
  BY DEF encode_preamble
<1>6. encode_log_event \in Seq(QuietSteps) /\ createNativeState \in Seq(QuietSteps)
  BY DEF encode_log_event, createNativeState
<1>7. ASSUME NEW d \in BOOLEAN, NEW e \in BOOLEAN
      PROVE  encode_message_native(d, e) \in Seq(QuietSteps)
  <2> DEFINE start == <<Get("message"), Length("message"), Core("IOException"),
                        New("logtype"), SetField("logtype")>>
             bounds == IF d THEN <<New("dictVarBounds"), SetField("dictVarBounds")>>
                       ELSE <<>>
             encoded == IF e THEN <<New("encodedVars"), SetField("encodedVars")>>
                        ELSE <<>>
  <2>1. start \in Seq(QuietSteps)
    OBVIOUS
  <2>2. bounds \in Seq(QuietSteps) /\ encoded \in Seq(QuietSteps)
    OBVIOUS
  <2> HIDE DEF start, bounds, encoded
  <2>3. start \o bounds \o encoded \in Seq(QuietSteps)
    BY <2>1, <2>2
  <2>4. QED  BY <2>3 DEF encode_message_native, start, bounds, encoded
<1>8. ASSUME NEW n \in Nat PROVE encode_native(n) \in Seq(QuietSteps)
  BY <1>2 DEF encode_native
<1>9. ASSUME NEW n \in Nat
      PROVE  LET s == batch_encoded_vars_wildcard_match_native(n)
             IN  TodoInv(s, {}) /\ StoreInv(s, {})
  <2> DEFINE s == batch_encoded_vars_wildcard_match_native(n)
  <2>1. Loop("row", n) \in SimpleSteps /\ QuietSteps \subseteq SimpleSteps
    BY Constructors
  <2>2. s \in Seq(SimpleSteps)
    BY <2>1 DEF batch_encoded_vars_wildcard_match_native
  <2>3. WellFormed(s) /\ BatchStart(s)
    BY <2>2, SimpleSequence DEF BatchStart, batch_encoded_vars_wildcard_match_native
  <2>4. QED  BY <2>3 DEF WellFormed, TodoInv, StoreInv
<1> HIDE <1>1
<1>10. ASSUME NEW s \in Programs
       PROVE  \/ s \in Seq(QuietSteps)
              \/ \E n \in Nat : s = batch_encoded_vars_wildcard_match_native(n)
  <2>1. 0 .. MaxIterations \subseteq Nat
    BY JniAssumption
  <2>2. CASE s \in {validate_variable_handling_rule_versions, decode_message_native,
                    jni_wildcard_query_matches_any_encoded_var, encode_preamble,
                    encode_log_event, createNativeState}
    BY <1>3, <1>4, <1>5, <1>6, <2>2
  <2>3. CASE \E d \in BOOLEAN, e \in BOOLEAN : s = encode_message_native(d, e)
    BY <1>7, <2>3
  <2>4. CASE \E n \in 0 .. MaxIterations :
               s \in {batch_encoded_vars_wildcard_match_native(n), encode_native(n)}
    BY <1>8, <2>1, <2>4
  <2>5. QED  BY <2>2, <2>3, <2>4 DEF Programs
<1>11. QED
  BY <1>9, <1>10, Quiet DEF StoreInv

LEMMA EmptyTodo == \A h : TodoInv(<<>>, h) /\ StoreInv(<<>>, h)
BY DEF TodoInv, StoreInv, StoresNothing

(* Before a batch has matchResults, all its steps get arrays.              *)
LEMMA BatchGets ==
  ASSUME NEW s, BatchStart(s)
  PROVE  /\ s[1].do = "get" /\ s[1].what \notin RowArrays \cup NullableArrays
         /\ s[1].what = "matchResults" \/ BatchStart(Tail(s))
<1>1. \A w \in {"placeholders", "queries", "endIndexes", "matchResults"} :
        /\ w \in Operands /\ w \notin RowArrays \cup NullableArrays
        /\ Get(w).do = "get" /\ Get(w).what = w
  BY StepFields DEF Operands, Arrays, RowArrays, NullableArrays, Calls, Get
<1>2. PICK n \in Nat :
        \/ s = <<Get("matchResults"), Loop("row", n)>>
        \/ s = <<Get("endIndexes"), Get("matchResults"), Loop("row", n)>>
        \/ s = <<Get("queries"), Get("endIndexes"), Get("matchResults"),
                 Loop("row", n)>>
        \/ s = <<Get("placeholders"), Get("queries"), Get("endIndexes"),
                 Get("matchResults"), Loop("row", n)>>
  BY DEF BatchStart
<1>3. CASE s = <<Get("matchResults"), Loop("row", n)>>
  BY <1>1, <1>3
<1>4. CASE s = <<Get("endIndexes"), Get("matchResults"), Loop("row", n)>>
  <2>1. Tail(s) = <<Get("matchResults"), Loop("row", n)>>
    BY <1>4
  <2>2. QED  BY <1>1, <1>4, <2>1 DEF BatchStart
<1>5. CASE s = <<Get("queries"), Get("endIndexes"), Get("matchResults"),
                 Loop("row", n)>>
  <2>1. Tail(s) = <<Get("endIndexes"), Get("matchResults"), Loop("row", n)>>
    BY <1>5
  <2>2. QED  BY <1>1, <1>5, <2>1 DEF BatchStart
<1>6. CASE s = <<Get("placeholders"), Get("queries"), Get("endIndexes"),
                 Get("matchResults"), Loop("row", n)>>
  <2>1. Tail(s) = <<Get("queries"), Get("endIndexes"), Get("matchResults"),
                    Loop("row", n)>>
    BY <1>6
  <2>2. QED  BY <1>1, <1>6, <2>1 DEF BatchStart
<1>7. QED  BY <1>2, <1>3, <1>4, <1>5, <1>6

LEMMA ProceedKeeps ==
  ASSUME NEW s, NEW h, NEW g, TodoInv(s, h), StoreInv(s, h), s # <<>>,
         "matchResults" \in h => "matchResults" \in g,
         s[1].do = "reset" => s[1].what \notin g,
         s[1].do = "get" /\ s[1].what = "matchResults" => "matchResults" \in g
  PROVE  TodoInv(Tail(s), g) /\ StoreInv(Tail(s), g)
<1>1. TodoInv(Tail(s), g)
  BY TailTodo
<1>2. s \in Seq(Steps)
  BY DEF TodoInv
<1>3. StoreInv(Tail(s), g)
  BY <1>2, TailStores, BatchGets DEF StoreInv
<1>4. QED  BY <1>1, <1>3

-----------------------------------------------------------------------------
(* Type correctness: a program gets arrays and throws classes of Java.     *)
TypedSteps == {x \in Steps : /\ x.do = "get" => x.what \in Arrays
                             /\ x.do = "core" => x.what \in JavaClasses \cup {"none"}
                             /\ x.do = "nullElement" => x.what \in RowArrays}

TypeInv ==
  /\ phase \in Phases
  /\ todo \in Seq(TypedSteps)
  /\ held \subseteq Arrays
  /\ nulls \subseteq RowArrays
  /\ exception \in Exceptions
  /\ toThrow \in JavaClasses \cup {"none"}
  /\ pending \in JavaClasses \cup {"none", JvmError}
  /\ call \in JniFunctions \cup {"none"}
  /\ computed \in Nat /\ visible \in Nat
  /\ outcome \in {"none", "value", "error"}

LEMMA TypedConstructors ==
  /\ \A w \in Refs : /\ New(w) \in TypedSteps /\ Create(w) \in TypedSteps
                     /\ Element(w) \in TypedSteps /\ Delete(w) \in TypedSteps
                     /\ Reset(w) \in TypedSteps /\ SetField(w) \in TypedSteps
  /\ \A w \in RowArrays : NullElement(w) \in TypedSteps
  /\ \A w \in Arrays : Get(w) \in TypedSteps /\ Length(w) \in TypedSteps
  /\ \A w \in JavaClasses \cup {"none"} : Core(w) \in TypedSteps
  /\ SetElement \in TypedSteps /\ Store \in TypedSteps
  /\ \A b \in {"row", "subquery"}, n \in Nat : Loop(b, n) \in TypedSteps
<1>1. \A d \in Calls, w \in Operands :
        /\ Step(d, w) \in Steps /\ Step(d, w).do = d /\ Step(d, w).what = w
  BY StepFields
<1>2. \A d \in Calls \ {"get", "core", "nullElement"}, w \in Operands :
        Step(d, w) \in TypedSteps
  BY <1>1 DEF TypedSteps
<1>3. /\ \A w \in Refs : w \in Operands
      /\ \A w \in Arrays : w \in Operands
      /\ \A w \in JavaClasses \cup {"none"} : w \in Operands
      /\ \A w \in RowArrays : w \in Operands
      /\ "none" \in Operands
  BY DEF Operands, Arrays
<1>4. /\ \A w \in Refs : /\ New(w) \in TypedSteps /\ Create(w) \in TypedSteps
                         /\ Element(w) \in TypedSteps /\ Delete(w) \in TypedSteps
                         /\ Reset(w) \in TypedSteps /\ SetField(w) \in TypedSteps
      /\ SetElement \in TypedSteps /\ Store \in TypedSteps
  BY <1>2, <1>3 DEF New, Create, Element, Delete, Reset, SetField, SetElement,
                    Store, Calls
<1>5. /\ \A w \in Arrays : Get(w) \in TypedSteps /\ Length(w) \in TypedSteps
      /\ \A w \in RowArrays : NullElement(w) \in TypedSteps
  BY <1>1, <1>3 DEF TypedSteps, Get, Length, NullElement, Calls
<1>6. \A w \in JavaClasses \cup {"none"} : Core(w) \in TypedSteps
  BY <1>1, <1>3 DEF TypedSteps, Core, Calls
<1>7. \A b \in {"row", "subquery"}, n \in Nat : Loop(b, n) \in TypedSteps
  BY LoopFields DEF TypedSteps
<1>8. QED  BY <1>4, <1>5, <1>6, <1>7

LEMMA TypedBodies == \A loop : \A body \in Bodies(loop) : body \in Seq(TypedSteps)
<1> USE DEF Arrays, RowArrays, Refs, JavaClasses
<1>1. SubqueryBody \in Seq(TypedSteps)
  BY TypedConstructors DEF SubqueryBody
<1>2. RowEnd \in Seq(TypedSteps)
  BY TypedConstructors DEF RowEnd
<1>3. <<NullElement("rowVars"), Store>> \in Seq(TypedSteps)
  BY TypedConstructors
<1> DEFINE start == RowStart
           match == <<Get("rowLogtype"), Core("IOException"), Store>>
           null == <<NullElement("rowLogtype")>>
           logtype == <<Element("rowLogtype"), Length("rowLogtype")>>
<1>4. /\ start \in Seq(TypedSteps) /\ match \in Seq(TypedSteps)
      /\ null \in Seq(TypedSteps) /\ logtype \in Seq(TypedSteps)
  BY TypedConstructors DEF RowStart
<1>5. /\ RowMatch = match \o RowEnd
      /\ RowBodies = {<<NullElement("rowVars"), Store>>, start \o null \o RowMatch,
                      start \o logtype \o RowMatch}
  BY DEF RowBodies, RowMatch
<1> HIDE DEF start, match, null, logtype
<1>6. RowMatch \in Seq(TypedSteps)
  BY <1>2, <1>4, <1>5
<1>7. /\ start \o null \o RowMatch \in Seq(TypedSteps)
      /\ start \o logtype \o RowMatch \in Seq(TypedSteps)
  BY <1>4, <1>6
<1>8. QED  BY <1>1, <1>3, <1>5, <1>7 DEF Bodies

LEMMA TypedPrograms == \A s \in Programs : s \in Seq(TypedSteps)
<1> USE TypedConstructors DEF Arrays, RowArrays, Refs, JavaClasses
<1>1. /\ validate_variable_handling_rule_versions \in Seq(TypedSteps)
      /\ createNativeState \in Seq(TypedSteps)
      /\ encode_log_event \in Seq(TypedSteps)
  BY DEF validate_variable_handling_rule_versions, createNativeState,
         encode_log_event
<1>2. /\ decode_message_native \in Seq(TypedSteps)
      /\ jni_wildcard_query_matches_any_encoded_var \in Seq(TypedSteps)
  BY DEF decode_message_native, jni_wildcard_query_matches_any_encoded_var
<1>3. encode_preamble \in Seq(TypedSteps)
  BY DEF encode_preamble
<1>4. ASSUME NEW d \in BOOLEAN, NEW e \in BOOLEAN
      PROVE  encode_message_native(d, e) \in Seq(TypedSteps)
  <2> DEFINE start == <<Get("message"), Length("message"), Core("IOException"),
                        New("logtype"), SetField("logtype")>>
             bounds == IF d THEN <<New("dictVarBounds"), SetField("dictVarBounds")>>
                       ELSE <<>>
             encoded == IF e THEN <<New("encodedVars"), SetField("encodedVars")>>
                        ELSE <<>>
  <2>1. start \in Seq(TypedSteps)
    OBVIOUS
  <2>2. bounds \in Seq(TypedSteps) /\ encoded \in Seq(TypedSteps)
    OBVIOUS
  <2> HIDE DEF start, bounds, encoded
  <2>3. start \o bounds \o encoded \in Seq(TypedSteps)
    BY <2>1, <2>2
  <2>4. QED  BY <2>3 DEF encode_message_native, start, bounds, encoded
<1>5. 0 .. MaxIterations \subseteq Nat
  BY JniAssumption
<1>6. \A n \in Nat : encode_native(n) \in Seq(TypedSteps)
  BY DEF encode_native
<1>7. \A n \in Nat : batch_encoded_vars_wildcard_match_native(n) \in Seq(TypedSteps)
  BY DEF batch_encoded_vars_wildcard_match_native
<1> HIDE TypedConstructors
<1> HIDE DEF Arrays, RowArrays, Refs, JavaClasses
<1>8. \A n \in 0 .. MaxIterations :
        /\ encode_native(n) \in Seq(TypedSteps)
        /\ batch_encoded_vars_wildcard_match_native(n) \in Seq(TypedSteps)
  BY <1>5, <1>6, <1>7
<1>9. QED  BY <1>1, <1>2, <1>3, <1>4, <1>8 DEF Programs

LEMMA StepTypes ==
  ASSUME TypeInv, Discipline, [Next]_vars
  PROVE  TypeInv'
<1> USE DEF TypeInv, Phases, Exceptions, At, What, Proceed, JvmThrows, StdThrows,
            JavaThrows, Occurred, JniFunctions
<1>2. ASSUME todo # <<>>
      PROVE  /\ Head(todo) \in TypedSteps /\ Tail(todo) \in Seq(TypedSteps)
             /\ Head(todo).left \in Nat
             /\ Head(todo).do = "get" => What \in Arrays
             /\ Head(todo).do = "core" => What \in JavaClasses \cup {"none"}
             /\ Head(todo).do = "nullElement" => What \in RowArrays
  <2>1. Head(todo) \in TypedSteps /\ Tail(todo) \in Seq(TypedSteps)
    BY <1>2
  <2>2. \A x \in TypedSteps :
          /\ x.what \in Operands /\ x.left \in Nat
          /\ x.do = "get" => x.what \in Arrays
          /\ x.do = "core" => x.what \in JavaClasses \cup {"none"}
          /\ x.do = "nullElement" => x.what \in RowArrays
    BY DEF TypedSteps, Steps
  <2>3. QED  BY <2>1, <2>2
<1>3. <<>> \in Seq(TypedSteps)
  OBVIOUS
<1>4. {"IllegalArgumentException", "IOException", "RuntimeException",
       "UnsupportedOperationException"} = JavaClasses
  BY DEF JavaClasses
<1> HIDE DEF What
<1>5. CASE UNCHANGED vars
  BY <1>5 DEF vars
<1>6. CASE CallNative
  BY <1>6, TypedPrograms DEF CallNative
<1>7. CASE GetNull \/ GetElements
  BY <1>2, <1>3, <1>7 DEF GetNull, GetElements, AddRef, AddRefs
<1>8. CASE NewArray
  BY <1>2, <1>3, <1>4, <1>8 DEF NewArray, AddRef, AddRefs
<1>9. CASE CreateObject \/ GetElement \/ SetArrayElement
  BY <1>2, <1>3, <1>9 DEF CreateObject, GetElement, SetArrayElement, AddRef, AddRefs
<1>10. CASE PlainCall \/ StoreResult \/ DeleteLocalRef
  <2>1. CASE PlainCall
    BY <1>2, <2>1 DEF PlainCall
  <2>2. CASE StoreResult
    BY <1>2, <2>2 DEF StoreResult
  <2>3. CASE DeleteLocalRef
    BY <1>2, <2>3 DEF DeleteLocalRef
  <2>4. QED  BY <1>10, <2>1, <2>2, <2>3
<1>11. CASE CallCore
  BY <1>2, <1>3, <1>11 DEF CallCore
<1>12. CASE ResetArray
  BY <1>2, <1>12 DEF ResetArray, Release
<1>13. CASE Iterate
  <2>1. todo # <<>> /\ Head(todo).do = "loop"
    BY <1>13 DEF Iterate
  <2>2. CASE todo' = Tail(todo)
    BY <1>2, <1>13, <2>1, <2>2 DEF Iterate
  <2>3. CASE Head(todo).left # 0
    <3> DEFINE next == Loop(What, Head(todo).left - 1)
    <3>1. PICK body \in Bodies(What) : todo' = body \o <<next>> \o Tail(todo)
      BY <1>13, <2>3 DEF Iterate
    <3>2. next \in TypedSteps
      <4>1. /\ Head(todo).left - 1 \in Nat /\ What \in Operands
        BY <1>2, <2>1, <2>3 DEF TypedSteps, Steps, What
      <4>2. QED  BY <4>1 DEF Loop, TypedSteps, Steps, Calls
    <3>3. body \in Seq(TypedSteps)
      BY TypedBodies
    <3> HIDE DEF next
    <3>4. todo' \in Seq(TypedSteps)
      <4>1. <<next>> \in Seq(TypedSteps) /\ Tail(todo) \in Seq(TypedSteps)
        BY <1>2, <2>1, <3>2
      <4>2. QED  BY <3>1, <3>3, <4>1
    <3>5. QED  BY <1>13, <3>4 DEF Iterate
  <2>4. QED  BY <1>13, <2>2, <2>3 DEF Iterate
<1>14. CASE Unwind
  BY <1>14 DEF Unwind, Release
<1>15. CASE CatchAll
  BY <1>4, <1>15 DEF CatchAll, Return
<1>16. CASE FindClass
  BY <1>16 DEF FindClass, Thrown, Return, AddRef, AddRefs
<1>17. CASE ThrowNew
  BY <1>17 DEF ThrowNew
<1>18. CASE DeleteClassRef
  BY <1>18 DEF DeleteClassRef, Return
<1>19. QED
  BY <1>5, <1>6, <1>7, <1>8, <1>9, <1>10, <1>11, <1>12, <1>13, <1>14, <1>15, <1>16,
     <1>17, <1>18
     DEF Next, RunStep

LEMMA InitTypes == Init => TypeInv
BY DEF Init, TypeInv, Phases, Exceptions

LEMMA TypesHold == Spec => []TypeInv
<1>1. TypeInv /\ Discipline /\ [Next]_vars => TypeInv'
  BY StepTypes
<1>2. QED  BY <1>1, InitTypes, DisciplineHolds, PTL DEF Spec

-----------------------------------------------------------------------------
(* What the steps that are left say of the references they pass to JNI:    *)
(* each is there already, or an earlier step makes it, and no step between *)
(* deletes it.                                                             *)

SubqueryRefs == {"logtypeQuery", "dictVarBounds", "encodedVars", "placeholders",
                 "varBounds", "subquery"}
LoopRefs(loop) == IF loop = "row" THEN RowArrays ELSE SubqueryRefs

(* A variable's reference, as it is needed: an object, or maybe null.      *)
Items == Refs \X {"object", "nullable"}
Ref(x) == x[1]
Kind(x) == x[2]

(* The subqueries' loop needs what its bodies use and do not make.         *)
Needs(step, x) ==
  \/ /\ Passes(step, Ref(x))
     /\ Kind(x) = IF step.do \in {"get", "delete"} THEN "nullable" ELSE "object"
  \/ /\ step.do = "loop" /\ step.what # "row"
     /\ Ref(x) \in {"cleanQuery", "result"} /\ Kind(x) = "object"

Gives(step, x) ==
  \/ step.do \in {"new", "create", "element"} /\ step.what = Ref(x)
  \/ step.do = "nullElement" /\ step.what = Ref(x) /\ Kind(x) = "nullable"

Ends(step, x) ==
  \/ step.do = "delete" /\ step.what = Ref(x)
  \/ step.do = "loop" /\ (Ref(x) \in LoopRefs(step.what) \/ Kind(x) = "nullable")

GivenIn(s, i, x) ==
  \E j \in 1 .. i - 1 : Gives(s[j], x) /\ \A d \in j + 1 .. i - 1 : ~Ends(s[d], x)

UseTodo(s, p) ==
  \A i \in 1 .. Len(s), x \in Items : Needs(s[i], x) =>
    (x \in p /\ \A d \in 1 .. i - 1 : ~Ends(s[d], x)) \/ GivenIn(s, i, x)

(* A loop's body uses what it makes or what the loop needs, and deletes no *)
(* more than the loop may.                                                 *)
BodyUse(body, loop) ==
  \A i \in 1 .. Len(body), x \in Items :
    /\ Needs(body[i], x) => Needs(loop, x) \/ GivenIn(body, i, x)
    /\ Ends(body[i], x) => Ends(loop, x)

Ready == {x \in Items : refs[Ref(x)] > 0 \/ (Kind(x) = "nullable" /\ Ref(x) \in nulls)}

UseInv ==
  /\ refs \in [Refs -> Nat]
  /\ phase \in {"throwNew", "deleteClass"} => refs["class"] > 0
  /\ UseTodo(todo, Ready)

LEMMA ItemFields ==
  /\ \A x \in Items : Ref(x) \in Refs /\ Kind(x) \in {"object", "nullable"}
  /\ \A r \in Refs, k \in {"object", "nullable"} :
       <<r, k>> \in Items /\ Ref(<<r, k>>) = r /\ Kind(<<r, k>>) = k
BY DEF Items, Ref, Kind

LEMMA TailUse ==
  ASSUME NEW s \in Seq(Steps), NEW p, NEW q, UseTodo(s, p), s # <<>>,
         \A x \in Items : \/ Gives(s[1], x)
                          \/ x \in p /\ ~Ends(s[1], x)
                          => x \in q
  PROVE  UseTodo(Tail(s), q)
<1>1. /\ Len(Tail(s)) = Len(s) - 1 /\ Len(s) \in Nat
      /\ \A i \in 1 .. Len(s) - 1 : Tail(s)[i] = s[i + 1]
  OBVIOUS
<1>2. ASSUME NEW i \in 1 .. Len(Tail(s)), NEW x \in Items, Needs(Tail(s)[i], x)
      PROVE  \/ x \in q /\ \A d \in 1 .. i - 1 : ~Ends(Tail(s)[d], x)
             \/ GivenIn(Tail(s), i, x)
  <2> DEFINE m == i + 1
  <2>1. m \in 1 .. Len(s) /\ Needs(s[m], x) /\ m - 1 = i /\ 1 \in 1 .. m - 1
    BY <1>1, <1>2
  <2>2. \A d \in 1 .. i - 1 : Tail(s)[d] = s[d + 1] /\ d + 1 \in 2 .. m - 1
    BY <1>1, <2>1
  <2>3. (x \in p /\ \A d \in 1 .. m - 1 : ~Ends(s[d], x)) \/ GivenIn(s, m, x)
    BY <2>1 DEF UseTodo
  <2>4. CASE x \in p /\ \A d \in 1 .. m - 1 : ~Ends(s[d], x)
    <3>1. x \in q
      BY <2>1, <2>4
    <3>2. \A d \in 1 .. i - 1 : ~Ends(Tail(s)[d], x)
      BY <2>2, <2>4
    <3>3. QED  BY <3>1, <3>2
  <2>5. CASE GivenIn(s, m, x)
    <3>1. PICK j \in 1 .. m - 1 :
            Gives(s[j], x) /\ \A d \in j + 1 .. m - 1 : ~Ends(s[d], x)
      BY <2>5 DEF GivenIn
    <3>2. CASE j = 1
      <4>1. \A d \in 1 .. i - 1 : ~Ends(Tail(s)[d], x)
        BY <2>2, <3>1, <3>2
      <4>2. QED  BY <3>1, <3>2, <4>1
    <3>3. CASE j # 1
      <4> DEFINE k == j - 1
      <4>1. k \in 1 .. i - 1 /\ k + 1 = j
        BY <1>1, <3>1, <3>3
      <4>2. Gives(Tail(s)[k], x)
        BY <2>2, <3>1, <4>1
      <4>3. ASSUME NEW d \in k + 1 .. i - 1 PROVE ~Ends(Tail(s)[d], x)
        <5>1. d \in 1 .. i - 1 /\ d + 1 \in j + 1 .. m - 1
          BY <1>1, <4>1
        <5>2. QED  BY <2>2, <3>1, <5>1
      <4>4. QED  BY <4>1, <4>2, <4>3 DEF GivenIn
    <3>4. QED  BY <3>2, <3>3
  <2>6. QED  BY <2>3, <2>4, <2>5
<1>3. QED  BY <1>2 DEF UseTodo

(* What a loop needs of its surroundings, its bodies do not delete.        *)
LEMMA LoopNeeds ==
  \A step : \A x \in Items : step.do = "loop" /\ Needs(step, x) => ~Ends(step, x)
BY DEF Needs, Ends, Passes, LoopRefs, SubqueryRefs

LEMMA ConcatElements ==
  ASSUME NEW S, NEW s \in Seq(S), NEW t \in Seq(S)
  PROVE  /\ Len(s \o t) = Len(s) + Len(t)
         /\ \A i \in 1 .. Len(s) : (s \o t)[i] = s[i]
         /\ \A k \in 1 .. Len(t) : (s \o t)[Len(s) + k] = t[k]
<1>1. Len(s) \in Nat /\ Len(t) \in Nat
  OBVIOUS
<1>2. /\ Len(s \o t) = Len(s) + Len(t)
      /\ \A i \in 1 .. Len(s) : (s \o t)[i] = s[i]
  BY <1>1
<1>3. ASSUME NEW k \in 1 .. Len(t)
      PROVE  (s \o t)[Len(s) + k] = t[k]
  <2>1. Len(s) + k \in 1 .. Len(s) + Len(t) /\ ~(Len(s) + k <= Len(s))
    BY <1>1
  <2>2. (Len(s) + k) - Len(s) = k
    BY <1>1
  <2>3. QED  BY <1>1, <2>1, <2>2
<1>4. QED  BY <1>2, <1>3

(* A loop's body comes before what is left of the loop and after it.       *)
LEMMA LoopTodo ==
  ASSUME NEW s \in Seq(Steps), s # <<>>, NEW body \in Seq(Steps),
         NEW next \in Steps
  PROVE  LET t == body \o (<<next>> \o Tail(s))
             n == Len(body)
         IN  /\ Len(t) = n + Len(s) /\ n \in Nat /\ Len(s) \in Nat \ {0}
             /\ \A i \in 1 .. n : t[i] = body[i]
             /\ t[n + 1] = next
             /\ \A k \in 2 .. Len(s) : t[n + k] = s[k]
<1> DEFINE n == Len(body)
           rest == <<next>> \o Tail(s)
           t == body \o rest
<1>1. /\ rest \in Seq(Steps) /\ Len(rest) = Len(s) /\ rest[1] = next
      /\ \A k \in 2 .. Len(s) : rest[k] = s[k]
  OBVIOUS
<1>2. n \in Nat /\ Len(s) \in Nat \ {0}
  OBVIOUS
<1> HIDE DEF rest
<1>3. /\ Len(t) = n + Len(s)
      /\ \A i \in 1 .. n : t[i] = body[i]
      /\ \A k \in 1 .. Len(s) : t[n + k] = rest[k]
  <2>1. /\ Len(body \o rest) = Len(body) + Len(rest)
        /\ \A i \in 1 .. Len(body) : (body \o rest)[i] = body[i]
        /\ \A k \in 1 .. Len(rest) : (body \o rest)[Len(body) + k] = rest[k]
    <3>1. rest \in Seq(Steps)
      BY <1>1
    <3>2. QED  BY <3>1, ConcatElements
  <2>2. Len(rest) = Len(s)
    BY <1>1
  <2>3. QED  BY <2>1, <2>2, Zenon
<1>4. 1 \in 1 .. Len(s) /\ \A k \in 2 .. Len(s) : k \in 1 .. Len(s)
  BY <1>2
<1>5. t[n + 1] = next /\ \A k \in 2 .. Len(s) : t[n + k] = s[k]
  BY <1>1, <1>3, <1>4
<1>6. QED  BY <1>2, <1>3, <1>5 DEF rest

LEMMA LoopUse ==
  ASSUME NEW s \in Seq(Steps), NEW p, UseTodo(s, p), s # <<>>, s[1].do = "loop",
         NEW body \in Seq(Steps), BodyUse(body, s[1]),
         NEW next \in Steps, next.do = "loop", next.what = s[1].what,
         NEW t, t = body \o (<<next>> \o Tail(s)),
         NEW q, \A x \in Items : x \in p /\ ~Ends(s[1], x) => x \in q
  PROVE  UseTodo(t, q)
<1> DEFINE n == Len(body)
<1>1. /\ Len(t) = n + Len(s) /\ n \in Nat /\ Len(s) \in Nat \ {0}
      /\ \A i \in 1 .. n : t[i] = body[i]
      /\ t[n + 1] = next
      /\ \A k \in 2 .. Len(s) : t[n + k] = s[k]
  BY LoopTodo
<1>2. \A k \in 1 .. Len(s), x \in Items : /\ Needs(t[n + k], x) <=> Needs(s[k], x)
                                          /\ Gives(t[n + k], x) <=> Gives(s[k], x)
                                          /\ Ends(t[n + k], x) <=> Ends(s[k], x)
  <2> TAKE k \in 1 .. Len(s), x \in Items
  <2>1. CASE k = 1
    BY <1>1, <2>1 DEF Needs, Gives, Ends, Passes
  <2>2. CASE k # 1
    <3> HIDE DEF n
    <3>1. k \in 2 .. Len(s)
      BY <1>1, <2>2
    <3>2. t[n + k] = s[k]
      BY <1>1, <3>1
    <3>3. QED  BY <3>2
  <2>3. QED  BY <2>1, <2>2
<1>3. /\ 1 \in 1 .. Len(s)
      /\ \A x \in Items : Needs(s[1], x) => x \in p
  <2>1. 1 \in 1 .. Len(s) /\ \A d \in 1 .. 1 - 1 : FALSE
    BY <1>1
  <2>2. QED  BY <2>1 DEF UseTodo, GivenIn
<1>4. ASSUME NEW x \in Items, ~Ends(s[1], x)
      PROVE  \A d \in 1 .. n : ~Ends(t[d], x)
  BY <1>1, <1>4 DEF BodyUse
<1>5. ASSUME NEW i \in 1 .. n, NEW x \in Items, Needs(t[i], x)
      PROVE  \/ x \in q /\ \A d \in 1 .. i - 1 : ~Ends(t[d], x)
             \/ GivenIn(t, i, x)
  <2>1. Needs(s[1], x) \/ GivenIn(body, i, x)
    BY <1>1, <1>5 DEF BodyUse
  <2>2. \A d \in 1 .. i - 1 : d \in 1 .. n
    BY <1>1
  <2>3. CASE Needs(s[1], x)
    BY <1>3, <1>4, <2>2, <2>3, LoopNeeds
  <2>4. CASE GivenIn(body, i, x)
    <3>1. PICK j \in 1 .. i - 1 :
            Gives(body[j], x) /\ \A d \in j + 1 .. i - 1 : ~Ends(body[d], x)
      BY <2>4 DEF GivenIn
    <3>2. \A d \in j + 1 .. i - 1 : d \in 1 .. i - 1
      BY <1>1, <3>1
    <3>3. Gives(t[j], x) /\ \A d \in j + 1 .. i - 1 : ~Ends(t[d], x)
      BY <1>1, <2>2, <3>1, <3>2
    <3>4. QED  BY <3>3 DEF GivenIn
  <2>5. QED  BY <2>1, <2>3, <2>4
<1>6. ASSUME NEW k \in 1 .. Len(s), NEW i \in Int, i = n + k,
             NEW x \in Items, Needs(t[i], x)
      PROVE  \/ x \in q /\ \A d \in 1 .. i - 1 : ~Ends(t[d], x)
             \/ GivenIn(t, i, x)
  <2>1. (x \in p /\ \A d \in 1 .. k - 1 : ~Ends(s[d], x)) \/ GivenIn(s, k, x)
    BY <1>2, <1>6 DEF UseTodo
  <2>2. ASSUME NEW d \in 1 .. i - 1, d > n
        PROVE  d - n \in 1 .. k - 1 /\ (Ends(t[d], x) <=> Ends(s[d - n], x))
    <3> DEFINE e == d - n
    <3>1. e \in 1 .. k - 1 /\ e \in 1 .. Len(s) /\ n + e = d
      BY <1>1, <1>6, <2>2
    <3> HIDE DEF e
    <3>2. Ends(t[n + e], x) <=> Ends(s[e], x)
      BY <1>2, <3>1
    <3>3. QED  BY <3>1, <3>2 DEF e
  <2>3. CASE x \in p /\ \A d \in 1 .. k - 1 : ~Ends(s[d], x)
    <3>1. ~Ends(s[1], x)
      <4>1. CASE k = 1
        BY <1>2, <1>3, <1>6, <4>1, LoopNeeds
      <4>2. CASE k # 1
        BY <1>1, <2>3, <4>2
      <4>3. QED  BY <4>1, <4>2
    <3>2. ASSUME NEW d \in 1 .. i - 1 PROVE ~Ends(t[d], x)
      <4>1. CASE d > n
        BY <2>2, <2>3, <4>1
      <4>2. CASE ~(d > n)
        <5>1. d \in 1 .. n
          BY <1>1, <4>2
        <5>2. QED  BY <1>4, <3>1, <5>1
      <4>3. QED  BY <4>1, <4>2
    <3>3. QED  BY <2>3, <3>1, <3>2
  <2>4. CASE GivenIn(s, k, x)
    <3>1. PICK j \in 1 .. k - 1 :
            Gives(s[j], x) /\ \A d \in j + 1 .. k - 1 : ~Ends(s[d], x)
      BY <2>4 DEF GivenIn
    <3> DEFINE l == n + j
    <3>2. j \in 1 .. Len(s) /\ l \in 1 .. i - 1 /\ l > n
      BY <1>1, <1>6, <3>1
    <3>3. Gives(t[l], x)
      BY <1>2, <3>1, <3>2
    <3>4. ASSUME NEW d \in l + 1 .. i - 1 PROVE ~Ends(t[d], x)
      <4>1. d \in 1 .. i - 1 /\ d > n /\ d - n \in j + 1 .. k - 1
        BY <1>1, <1>6, <3>1
      <4>2. QED  BY <2>2, <3>1, <4>1
    <3>5. QED  BY <3>2, <3>3, <3>4 DEF GivenIn
  <2>5. QED  BY <2>1, <2>3, <2>4
<1>7. ASSUME NEW i \in 1 .. Len(t), NEW x \in Items, Needs(t[i], x)
      PROVE  \/ x \in q /\ \A d \in 1 .. i - 1 : ~Ends(t[d], x)
             \/ GivenIn(t, i, x)
  <2>1. CASE i \in 1 .. n
    BY <1>5, <1>7, <2>1
  <2>2. CASE i \notin 1 .. n
    <3> DEFINE k == i - n
    <3>1. k \in 1 .. Len(s) /\ i \in Int /\ i = n + k
      BY <1>1, <2>2
    <3> HIDE DEF k, n
    <3>2. QED  BY <1>6, <1>7, <3>1
  <2>3. QED  BY <2>1, <2>2
<1>8. QED  BY <1>7 DEF UseTodo

-----------------------------------------------------------------------------
(* What each step uses, makes and deletes.                                 *)
LEMMA StepUses ==
  /\ \A w, x : /\ Needs(Get(w), x)
                    <=> w \in RowArrays /\ Ref(x) = w /\ Kind(x) = "nullable"
               /\ Needs(Length(w), x)
                    <=> w \in RowArrays /\ Ref(x) = w /\ Kind(x) = "object"
               /\ Needs(SetField(w), x) <=> Ref(x) = w /\ Kind(x) = "object"
               /\ Needs(Delete(w), x) <=> Ref(x) = w /\ Kind(x) = "nullable"
               /\ Needs(Create(w), x) <=> /\ w = "subquery"
                                          /\ Ref(x) \in SubqueryArguments
                                          /\ Kind(x) = "object"
               /\ ~Needs(New(w), x) /\ ~Needs(Element(w), x)
               /\ ~Needs(NullElement(w), x) /\ ~Needs(Core(w), x)
               /\ ~Needs(Reset(w), x)
  /\ \A x : /\ Needs(SetElement, x)
                 <=> Ref(x) \in {"result", "subquery"} /\ Kind(x) = "object"
            /\ ~Needs(Store, x)
  /\ \A b, n, x :
       Needs(Loop(b, n), x) <=> /\ b # "row"
                                /\ Ref(x) \in {"cleanQuery", "result"}
                                /\ Kind(x) = "object"
  /\ \A w, x : /\ Gives(New(w), x) <=> Ref(x) = w
               /\ Gives(Create(w), x) <=> Ref(x) = w
               /\ Gives(Element(w), x) <=> Ref(x) = w
               /\ Gives(NullElement(w), x) <=> Ref(x) = w /\ Kind(x) = "nullable"
  /\ \A w, x : /\ Ends(Delete(w), x) <=> Ref(x) = w
               /\ ~Ends(Get(w), x) /\ ~Ends(Length(w), x) /\ ~Ends(SetField(w), x)
               /\ ~Ends(New(w), x) /\ ~Ends(Create(w), x) /\ ~Ends(Element(w), x)
               /\ ~Ends(NullElement(w), x) /\ ~Ends(Core(w), x)
               /\ ~Ends(Reset(w), x)
  /\ \A x : ~Ends(SetElement, x) /\ ~Ends(Store, x)
<1> USE DEF Step, Passes
<1>1. \A w, x : Needs(Get(w), x)
                  <=> w \in RowArrays /\ Ref(x) = w /\ Kind(x) = "nullable"
  BY DEF Needs, Get
<1>2. \A w, x : Needs(Length(w), x)
                  <=> w \in RowArrays /\ Ref(x) = w /\ Kind(x) = "object"
  BY DEF Needs, Length
<1>3. \A w, x : Needs(SetField(w), x) <=> Ref(x) = w /\ Kind(x) = "object"
  BY DEF Needs, SetField
<1>4. \A w, x : Needs(Delete(w), x) <=> Ref(x) = w /\ Kind(x) = "nullable"
  BY DEF Needs, Delete
<1>5. \A w, x : /\ Needs(Create(w), x) <=> /\ w = "subquery"
                                           /\ Ref(x) \in SubqueryArguments
                                           /\ Kind(x) = "object"
                /\ ~Needs(New(w), x) /\ ~Needs(Element(w), x)
                /\ ~Needs(NullElement(w), x) /\ ~Needs(Core(w), x)
                /\ ~Needs(Reset(w), x)
  BY DEF Needs, Create, New, Element, NullElement, Core, Reset
<1>6. \A x : /\ Needs(SetElement, x)
                  <=> Ref(x) \in {"result", "subquery"} /\ Kind(x) = "object"
             /\ ~Needs(Store, x)
  BY DEF Needs, SetElement, Store
<1>7. \A b, n, x :
        Needs(Loop(b, n), x) <=> /\ b # "row"
                                 /\ Ref(x) \in {"cleanQuery", "result"}
                                 /\ Kind(x) = "object"
  BY DEF Loop, Needs
<1>8. \A w, x : /\ Gives(New(w), x) <=> Ref(x) = w
                /\ Gives(Create(w), x) <=> Ref(x) = w
                /\ Gives(Element(w), x) <=> Ref(x) = w
                /\ Gives(NullElement(w), x) <=> Ref(x) = w /\ Kind(x) = "nullable"
  BY DEF Gives, New, Create, Element, NullElement
<1>9. \A w, x : /\ Ends(Delete(w), x) <=> Ref(x) = w
                /\ ~Ends(Get(w), x) /\ ~Ends(Length(w), x) /\ ~Ends(SetField(w), x)
                /\ ~Ends(New(w), x) /\ ~Ends(Create(w), x)
  BY DEF Ends, Delete, Get, Length, SetField, New, Create
<1>10. \A w, x : /\ ~Ends(Element(w), x) /\ ~Ends(NullElement(w), x)
                 /\ ~Ends(Core(w), x) /\ ~Ends(Reset(w), x)
  BY DEF Ends, Element, NullElement, Core, Reset
<1>11. \A x : ~Ends(SetElement, x) /\ ~Ends(Store, x)
  BY DEF Ends, SetElement, Store
<1> HIDE DEF Step, Passes
<1>12. QED
  BY <1>1, <1>2, <1>3, <1>4, <1>5, <1>6, <1>7, <1>8, <1>9, <1>10, <1>11

LEMMA SubqueryUse ==
  ASSUME NEW loop, loop.do = "loop", loop.what # "row"
  PROVE  BodyUse(SubqueryBody, loop)
<1> DEFINE s == SubqueryBody
           (* The steps that make and delete a reference. *)
           Between(r, m, g) == \/ r = "logtypeQuery" /\ m = 1 /\ g = 9
                               \/ r = "dictVarBounds" /\ m = 3 /\ g = 10
                               \/ r = "encodedVars" /\ m = 4 /\ g = 11
                               \/ r = "placeholders" /\ m = 5 /\ g = 12
                               \/ r = "varBounds" /\ m = 6 /\ g = 13
                               \/ r = "subquery" /\ m = 7 /\ g = 14
<1>1. /\ Len(s) = 14
      /\ s[1] = New("logtypeQuery") /\ s[2] = Core("RuntimeException")
      /\ s[3] = New("dictVarBounds") /\ s[4] = New("encodedVars")
      /\ s[5] = New("placeholders") /\ s[6] = New("varBounds")
      /\ s[7] = Create("subquery") /\ s[8] = SetElement
      /\ s[9] = Delete("logtypeQuery") /\ s[10] = Delete("dictVarBounds")
      /\ s[11] = Delete("encodedVars") /\ s[12] = Delete("placeholders")
      /\ s[13] = Delete("varBounds") /\ s[14] = Delete("subquery")
  BY DEF SubqueryBody
<1> HIDE DEF s
<1>2. \A x : /\ Ends(s[9], x) <=> Ref(x) = "logtypeQuery"
             /\ Ends(s[10], x) <=> Ref(x) = "dictVarBounds"
             /\ Ends(s[11], x) <=> Ref(x) = "encodedVars"
             /\ Ends(s[12], x) <=> Ref(x) = "placeholders"
             /\ Ends(s[13], x) <=> Ref(x) = "varBounds"
             /\ Ends(s[14], x) <=> Ref(x) = "subquery"
             /\ ~Ends(s[1], x) /\ ~Ends(s[2], x) /\ ~Ends(s[3], x) /\ ~Ends(s[4], x)
             /\ ~Ends(s[5], x) /\ ~Ends(s[6], x) /\ ~Ends(s[7], x) /\ ~Ends(s[8], x)
  BY <1>1, StepUses
<1>3. \A x : /\ Ref(x) = "logtypeQuery" => Gives(s[1], x)
             /\ Ref(x) = "dictVarBounds" => Gives(s[3], x)
             /\ Ref(x) = "encodedVars" => Gives(s[4], x)
             /\ Ref(x) = "placeholders" => Gives(s[5], x)
             /\ Ref(x) = "varBounds" => Gives(s[6], x)
             /\ Ref(x) = "subquery" => Gives(s[7], x)
  BY <1>1, StepUses
<1>4. \A x : /\ Needs(s[7], x) => Ref(x) \in SubqueryArguments /\ Kind(x) = "object"
             /\ Needs(s[8], x) => Ref(x) \in {"result", "subquery"} /\ Kind(x) = "object"
             /\ Needs(s[9], x) => Ref(x) = "logtypeQuery"
             /\ Needs(s[10], x) => Ref(x) = "dictVarBounds"
             /\ Needs(s[11], x) => Ref(x) = "encodedVars"
             /\ Needs(s[12], x) => Ref(x) = "placeholders"
             /\ Needs(s[13], x) => Ref(x) = "varBounds"
             /\ Needs(s[14], x) => Ref(x) = "subquery"
             /\ ~Needs(s[1], x) /\ ~Needs(s[2], x) /\ ~Needs(s[3], x)
             /\ ~Needs(s[4], x) /\ ~Needs(s[5], x) /\ ~Needs(s[6], x)
  BY <1>1, StepUses
<1>5. \A i \in 1 .. 14 : i \in {1, 2, 3, 4, 5, 6, 7, 8, 9, 10, 11, 12, 13, 14}
  OBVIOUS
<1>6. ASSUME NEW i \in 1 .. 14, NEW x, Ends(s[i], x)
      PROVE  Ref(x) \in SubqueryRefs /\ \E m \in Nat : Between(Ref(x), m, i)
  BY <1>2, <1>5, <1>6 DEF SubqueryRefs
<1>7. ASSUME NEW i \in 1 .. 14, NEW x, Needs(s[i], x)
      PROVE  \/ Ref(x) \in {"cleanQuery", "result"} /\ Kind(x) = "object"
             \/ \E m \in 1 .. i - 1, g \in Nat :
                  Between(Ref(x), m, g) /\ i <= g /\ Gives(s[m], x)
  <2>1. CASE i \in {1, 2, 3, 4, 5, 6}
    BY <1>4, <1>7, <2>1
  <2>2. CASE i = 7
    BY <1>3, <1>4, <1>7, <2>2 DEF SubqueryArguments
  <2>3. CASE i = 8
    BY <1>3, <1>4, <1>7, <2>3
  <2>4. CASE i \in {9, 10, 11, 12, 13, 14}
    BY <1>3, <1>4, <1>7, <2>4
  <2>5. QED  BY <1>5, <2>1, <2>2, <2>3, <2>4
<1>8. \A r, m, n, g, h : Between(r, m, g) /\ Between(r, n, h) => g = h
  OBVIOUS
<1> HIDE DEF Between
<1>9. ASSUME NEW i \in 1 .. Len(s), NEW x \in Items, Needs(s[i], x)
      PROVE  Needs(loop, x) \/ GivenIn(s, i, x)
  <2>1. i \in 1 .. 14
    BY <1>1
  <2>2. CASE Ref(x) \in {"cleanQuery", "result"} /\ Kind(x) = "object"
    BY <2>2 DEF Needs
  <2>3. CASE \E m \in 1 .. i - 1, g \in Nat :
               Between(Ref(x), m, g) /\ i <= g /\ Gives(s[m], x)
    <3>1. PICK m \in 1 .. i - 1, g \in Nat :
            Between(Ref(x), m, g) /\ i <= g /\ Gives(s[m], x)
      BY <2>3
    <3>2. ASSUME NEW d \in m + 1 .. i - 1 PROVE ~Ends(s[d], x)
      <4>1. d \in 1 .. 14 /\ d # g
        BY <2>1, <3>1
      <4>2. QED  BY <1>6, <1>8, <3>1, <4>1
    <3>3. QED  BY <3>1, <3>2 DEF GivenIn
  <2>4. QED  BY <1>7, <1>9, <2>1, <2>2, <2>3
<1>10. ASSUME NEW i \in 1 .. Len(s), NEW x \in Items, Ends(s[i], x)
       PROVE  Ends(loop, x)
  BY <1>1, <1>6, <1>10 DEF Ends, LoopRefs
<1>11. QED  BY <1>9, <1>10 DEF BodyUse, s

LEMMA RowUse ==
  ASSUME NEW loop, loop.do = "loop", loop.what = "row"
  PROVE  \A body \in RowBodies : BodyUse(body, loop)
<1>1. BodyUse(<<NullElement("rowVars"), Store>>, loop)
  BY StepUses DEF BodyUse
<1>2. ASSUME NEW s \in RowBodies, NEW e \in {4, 5}, Len(s) = e + 7,
             s[1] = Element("rowVars"), s[2] = Length("rowVars"),
             s[3] = Get("rowVars"),
             \/ e = 4 /\ s[4] = NullElement("rowLogtype")
             \/ e = 5 /\ s[4] = Element("rowLogtype") /\ s[5] = Length("rowLogtype"),
             s[e + 1] = Get("rowLogtype"), s[e + 2] = Core("IOException"),
             s[e + 3] = Store,
             s[e + 4] = Reset("rowLogtype"), s[e + 5] = Delete("rowLogtype"),
             s[e + 6] = Reset("rowVars"), s[e + 7] = Delete("rowVars")
      PROVE  BodyUse(s, loop)
  <2>1. ASSUME NEW i \in 1 .. Len(s)
        PROVE  \/ i \in {1, 2, 3, 4} \/ (i = 5 /\ e = 5)
               \/ i \in {e + 1, e + 2, e + 3, e + 4, e + 5, e + 6, e + 7}
    BY <1>2
  <2>2. ASSUME NEW i \in 1 .. Len(s), NEW x \in Items, Ends(s[i], x)
        PROVE  \/ i = e + 5 /\ Ref(x) = "rowLogtype"
               \/ i = e + 7 /\ Ref(x) = "rowVars"
    <3>1. CASE i \in {1, 2, 3, 4} \/ (i = 5 /\ e = 5)
      BY <1>2, <2>2, <3>1, StepUses
    <3>2. CASE i \in {e + 1, e + 2, e + 3, e + 4, e + 5, e + 6, e + 7}
      BY <1>2, <2>2, <3>2, StepUses
    <3>3. QED  BY <2>1, <3>1, <3>2
  <2>3. ASSUME NEW i \in 1 .. Len(s), NEW x \in Items, Needs(s[i], x)
        PROVE  \/ i > 1 /\ Ref(x) = "rowVars"
               \/ i > 4 /\ i <= e + 5 /\ Ref(x) = "rowLogtype" /\ Gives(s[4], x)
    <3>1. CASE i \in {1, 2, 3, 4}
      BY <1>2, <2>3, <3>1, StepUses
    <3>2. CASE i = 5 /\ e = 5
      BY <1>2, <2>3, <3>2, StepUses
    <3>3. CASE i \in {e + 1, e + 2, e + 3, e + 4, e + 5, e + 6, e + 7}
      <4>1. \/ i = e + 7 /\ Ref(x) = "rowVars"
            \/ i \in {e + 1, e + 5} /\ Ref(x) = "rowLogtype" /\ Kind(x) = "nullable"
        BY <1>2, <2>3, <3>3, StepUses
      <4>2. Ref(x) = "rowLogtype" /\ Kind(x) = "nullable" => Gives(s[4], x)
        BY <1>2, StepUses
      <4>3. QED  BY <4>1, <4>2
    <3>4. QED  BY <2>1, <3>1, <3>2, <3>3
  <2>4. ASSUME NEW i \in 1 .. Len(s), NEW x \in Items, Needs(s[i], x)
        PROVE  GivenIn(s, i, x)
    <3>1. CASE i > 1 /\ Ref(x) = "rowVars"
      <4>1. Gives(s[1], x)
        BY <1>2, <3>1, StepUses
      <4>2. ASSUME NEW d \in 1 + 1 .. i - 1 PROVE ~Ends(s[d], x)
        <5>1. d \in 1 .. Len(s) /\ d # e + 7
          BY <1>2
        <5>2. QED  BY <2>2, <3>1, <5>1
      <4>3. 1 \in 1 .. i - 1
        BY <3>1
      <4>4. QED  BY <4>1, <4>2, <4>3 DEF GivenIn
    <3>2. CASE i > 4 /\ i <= e + 5 /\ Ref(x) = "rowLogtype" /\ Gives(s[4], x)
      <4>1. ASSUME NEW d \in 4 + 1 .. i - 1 PROVE ~Ends(s[d], x)
        <5>1. d \in 1 .. Len(s) /\ d # e + 5
          BY <1>2, <3>2
        <5>2. QED  BY <2>2, <3>2, <5>1
      <4>2. 4 \in 1 .. i - 1
        BY <3>2
      <4>3. QED  BY <3>2, <4>1, <4>2 DEF GivenIn
    <3>3. QED  BY <2>3, <2>4, <3>1, <3>2
  <2>5. ASSUME NEW i \in 1 .. Len(s), NEW x \in Items, Ends(s[i], x)
        PROVE  Ends(loop, x)
    BY <2>2, <2>5 DEF Ends, LoopRefs, RowArrays
  <2>6. QED  BY <2>4, <2>5 DEF BodyUse
<1> DEFINE null == <<Element("rowVars"), Length("rowVars"), Get("rowVars"),
                     NullElement("rowLogtype"), Get("rowLogtype"),
                     Core("IOException"), Store,
                     Reset("rowLogtype"), Delete("rowLogtype"),
                     Reset("rowVars"), Delete("rowVars")>>
           both == <<Element("rowVars"), Length("rowVars"), Get("rowVars"),
                     Element("rowLogtype"), Length("rowLogtype"),
                     Get("rowLogtype"), Core("IOException"), Store,
                     Reset("rowLogtype"), Delete("rowLogtype"),
                     Reset("rowVars"), Delete("rowVars")>>
<1>3. RowBodies = {<<NullElement("rowVars"), Store>>, null, both}
  BY DEF RowBodies, RowStart, RowMatch, RowEnd
<1>4. BodyUse(null, loop)
  <2>1. null \in RowBodies
    BY <1>3
  <2>2. QED  BY <1>2, <2>1
<1>5. BodyUse(both, loop)
  <2>1. both \in RowBodies
    BY <1>3
  <2>2. QED  BY <1>2, <2>1
<1>6. QED  BY <1>1, <1>3, <1>4, <1>5

(* A program makes what it passes to JNI.                                  *)
LEMMA ProgramUse == \A s \in Programs : UseTodo(s, {})
<1> SUFFICES ASSUME NEW s \in Programs PROVE UseTodo(s, {})
  OBVIOUS
<1>1. CASE s \in {validate_variable_handling_rule_versions, createNativeState,
                  jni_wildcard_query_matches_any_encoded_var}
  <2>1. \A i \in 1 .. Len(s), x \in Items : ~Needs(s[i], x)
    BY <1>1, StepUses
       DEF validate_variable_handling_rule_versions, createNativeState,
           jni_wildcard_query_matches_any_encoded_var, RowArrays
  <2>2. QED  BY <2>1 DEF UseTodo
<1>2. CASE s \in {decode_message_native, encode_preamble, encode_log_event}
  <2>1. \A i \in 1 .. Len(s), x \in Items : ~Needs(s[i], x)
    <3>1. CASE s = decode_message_native
      BY <3>1, StepUses DEF decode_message_native, RowArrays
    <3>2. CASE s = encode_preamble
      BY <3>2, StepUses DEF encode_preamble, RowArrays
    <3>3. CASE s = encode_log_event
      BY <3>3, StepUses DEF encode_log_event, RowArrays
    <3>4. QED  BY <1>2, <3>1, <3>2, <3>3
  <2>2. QED  BY <2>1 DEF UseTodo
<1>3. CASE \E n \in 0 .. MaxIterations : s = encode_native(n)
  <2>1. PICK n \in 0 .. MaxIterations : s = encode_native(n)
    BY <1>3
  <2>2. /\ Len(s) = 6
        /\ s[1] = Get("wildcardQuery") /\ s[2] = New("cleanQuery")
        /\ s[3] = Core("IllegalArgumentException")
        /\ s[4] = Core("UnsupportedOperationException")
        /\ s[5] = Create("result") /\ s[6] = Loop("subquery", n)
    BY <2>1 DEF encode_native
  <2>3. ASSUME NEW i \in 1 .. Len(s), NEW x \in Items, Needs(s[i], x)
        PROVE  i = 6 /\ Ref(x) \in {"cleanQuery", "result"}
    BY <2>2, <2>3, StepUses DEF RowArrays
  <2>4. \A d \in 1 .. 5, x \in Items : ~Ends(s[d], x)
    BY <2>2, StepUses
  <2>5. \A x \in Items : /\ Ref(x) = "cleanQuery" => Gives(s[2], x)
                         /\ Ref(x) = "result" => Gives(s[5], x)
    BY <2>2, StepUses
  <2>6. ASSUME NEW i \in 1 .. Len(s), NEW x \in Items, Needs(s[i], x)
        PROVE  GivenIn(s, i, x)
    <3>1. i = 6 /\ Ref(x) \in {"cleanQuery", "result"}
      BY <2>3, <2>6
    <3>2. PICK j \in {2, 5} : Gives(s[j], x)
      BY <2>5, <3>1
    <3>3. j \in 1 .. i - 1 /\ \A d \in j + 1 .. i - 1 : d \in 1 .. 5
      BY <3>1, <3>2
    <3>4. QED  BY <2>4, <3>2, <3>3 DEF GivenIn
  <2>7. QED  BY <2>6 DEF UseTodo
<1>4. CASE \E n \in 0 .. MaxIterations :
             s = batch_encoded_vars_wildcard_match_native(n)
  <2>1. \A i \in 1 .. Len(s), x \in Items : ~Needs(s[i], x)
    BY <1>4, StepUses DEF batch_encoded_vars_wildcard_match_native, RowArrays
  <2>2. QED  BY <2>1 DEF UseTodo
<1>5. CASE \E d \in BOOLEAN, e \in BOOLEAN : s = encode_message_native(d, e)
  <2>1. PICK d \in BOOLEAN, e \in BOOLEAN : s = encode_message_native(d, e)
    BY <1>5
  <2> DEFINE start == <<Get("message"), Length("message"), Core("IOException"),
                        New("logtype"), SetField("logtype")>>
             bounds == <<New("dictVarBounds"), SetField("dictVarBounds")>>
             encoded == <<New("encodedVars"), SetField("encodedVars")>>
  <2>2. s = start \o (IF d THEN bounds ELSE <<>>) \o (IF e THEN encoded ELSE <<>>)
    BY <2>1 DEF encode_message_native
  <2>3. \A i \in 1 .. Len(s) :
          \/ s[i] \in {Get("message"), Length("message"), Core("IOException"),
                       New("logtype"), New("dictVarBounds"), New("encodedVars")}
          \/ /\ i > 1
             /\ \E w \in {"logtype", "dictVarBounds", "encodedVars"} :
                  s[i] = SetField(w) /\ s[i - 1] = New(w)
    <3>1. CASE ~d /\ ~e
      <4>1. s = start \o <<>> \o <<>>
        BY <2>2, <3>1
      <4>2. QED  BY <4>1
    <3>2. CASE d /\ ~e
      <4>1. s = start \o bounds \o <<>>
        BY <2>2, <3>2
      <4>2. QED  BY <4>1
    <3>3. CASE ~d /\ e
      <4>1. s = start \o <<>> \o encoded
        BY <2>2, <3>3
      <4>2. QED  BY <4>1
    <3>4. CASE d /\ e
      <4>1. s = start \o bounds \o encoded
        BY <2>2, <3>4
      <4>2. QED  BY <4>1
    <3>5. QED  BY <3>1, <3>2, <3>3, <3>4
  <2>4. ASSUME NEW i \in 1 .. Len(s), NEW x \in Items, Needs(s[i], x)
        PROVE  GivenIn(s, i, x)
    <3>1. PICK w \in {"logtype", "dictVarBounds", "encodedVars"} :
            i > 1 /\ s[i] = SetField(w) /\ s[i - 1] = New(w)
      <4>1. s[i] \notin {Get("message"), Length("message"), Core("IOException"),
                         New("logtype"), New("dictVarBounds"), New("encodedVars")}
        BY <2>4, StepUses DEF RowArrays
      <4>2. QED  BY <2>3, <4>1
    <3>2. Gives(s[i - 1], x)
      BY <2>4, <3>1, StepUses
    <3>3. i - 1 \in 1 .. i - 1 /\ \A k \in (i - 1) + 1 .. i - 1 : FALSE
      BY <3>1
    <3>4. QED  BY <3>2, <3>3 DEF GivenIn
  <2>5. QED  BY <2>4 DEF UseTodo
<1>6. QED  BY <1>1, <1>2, <1>3, <1>4, <1>5 DEF Programs

LEMMA EmptyUse == \A p : UseTodo(<<>>, p)
BY DEF UseTodo

(* What the next step passes to JNI is there.                              *)
LEMMA HeadUses ==
  ASSUME ProgramInv, UseInv, phase = "running", todo # <<>>
  PROVE  \A r \in Refs : Passes(todo[1], r) =>
           refs[r] > 0 \/ (r \in nulls /\ todo[1].do \in {"get", "delete"})
<1> SUFFICES ASSUME NEW r \in Refs, Passes(todo[1], r)
             PROVE  refs[r] > 0 \/ (r \in nulls /\ todo[1].do \in {"get", "delete"})
  OBVIOUS
<1> DEFINE k == IF todo[1].do \in {"get", "delete"} THEN "nullable" ELSE "object"
           x == <<r, k>>
<1>1. x \in Items /\ Needs(todo[1], x)
  <2>1. k \in {"object", "nullable"}
    OBVIOUS
  <2>2. x \in Items /\ Ref(x) = r /\ Kind(x) = k
    BY <2>1, ItemFields
  <2> HIDE DEF x
  <2>3. QED  BY <2>2 DEF Needs
<1>2. 1 \in 1 .. Len(todo) /\ \A d \in 1 .. 1 - 1 : FALSE
  BY DEF ProgramInv, TodoInv
<1>3. x \in Ready
  BY <1>1, <1>2 DEF UseInv, UseTodo, GivenIn
<1>4. Ref(x) = r /\ Kind(x) = k
  BY ItemFields
<1> HIDE DEF x
<1>5. QED  BY <1>3, <1>4 DEF Ready

-----------------------------------------------------------------------------
(* A step that goes on.                                                    *)
LEMMA ProceedUse ==
  ASSUME ProgramInv, UseInv, phase = "running", todo # <<>>, Proceed,
         refs' \in [Refs -> Nat],
         \A x \in Items : \/ Gives(todo[1], x)
                          \/ x \in Ready /\ ~Ends(todo[1], x)
                          => x \in Ready'
  PROVE  UseInv'
<1>1. UseTodo(Tail(todo), Ready')
  BY TailUse DEF UseInv, ProgramInv, TodoInv
<1>2. todo' = Tail(todo) /\ phase' = "running"
  BY DEF Proceed
<1>3. UseTodo(todo', Ready')
  BY <1>1, <1>2
<1>4. UseTodo(todo, Ready)'
  BY <1>3 DEF UseTodo, GivenIn, Needs, Gives, Ends, Items, Passes
<1>5. QED  BY <1>2, <1>4 DEF UseInv

(* Nothing is left of a native method.                                     *)
LEMMA NoUse ==
  ASSUME todo' = <<>>, refs' \in [Refs -> Nat],
         phase' \in {"throwNew", "deleteClass"} => refs'["class"] > 0
  PROVE  UseInv'
<1>1. UseTodo(todo, Ready)'
  BY DEF UseTodo
<1>2. QED  BY <1>1 DEF UseInv

LEMMA AddsReady ==
  ASSUME refs \in [Refs -> Nat], NEW rs, AddRefs(rs)
  PROVE  /\ refs' \in [Refs -> Nat]
         /\ \A r \in Refs : refs'[r] >= refs[r] /\ (r \in rs => refs'[r] > 0)
         /\ \A x \in Items : x \in Ready \/ Ref(x) \in rs => x \in Ready'
<1>1. /\ refs' \in [Refs -> Nat]
      /\ \A r \in Refs : refs'[r] >= refs[r] /\ (r \in rs => refs'[r] > 0)
      /\ nulls' = nulls \ rs
  BY DEF AddRefs
<1>2. ASSUME NEW x \in Items, x \in Ready \/ Ref(x) \in rs
      PROVE  x \in Ready'
  <2>1. Ref(x) \in Refs /\ refs[Ref(x)] \in Nat
    BY ItemFields
  <2>2. CASE Ref(x) \in rs
    BY <1>1, <2>1, <2>2 DEF Ready, Items
  <2>3. CASE Ref(x) \notin rs /\ x \in Ready
    BY <1>1, <2>1, <2>3 DEF Ready, Items
  <2>4. QED  BY <1>2, <2>2, <2>3
<1>3. QED  BY <1>1, <1>2

LEMMA GivingUse ==
  ASSUME ProgramInv, UseInv, NewArray \/ CreateObject \/ GetElement
  PROVE  UseInv'
<1> USE DEF At, What
<1>1. /\ phase = "running" /\ todo # <<>> /\ Head(todo) = todo[1]
      /\ refs \in [Refs -> Nat]
      /\ todo[1].do \notin {"delete", "loop"}
  BY DEF NewArray, CreateObject, GetElement, ProgramInv, TodoInv, UseInv
<1>2. \A x \in Items : ~Ends(todo[1], x)
  BY <1>1 DEF Ends
<1>3. CASE Proceed
  <2>1. \/ /\ refs' = refs
           /\ nulls' = nulls \cup {todo[1].what} /\ todo[1].do = "nullElement"
        \/ AddRefs({todo[1].what}) /\ todo[1].do \in {"new", "create", "element"}
    BY <1>1, <1>3 DEF NewArray, CreateObject, GetElement, Occurred, JvmThrows,
                      StdThrows, JavaThrows, Proceed, AddRef
  <2>2. CASE /\ refs' = refs
             /\ nulls' = nulls \cup {todo[1].what} /\ todo[1].do = "nullElement"
    <3>1. ASSUME NEW x \in Items, Gives(todo[1], x) \/ x \in Ready
          PROVE  x \in Ready'
      BY <2>2, <3>1 DEF Gives, Ready, Items
    <3>2. QED  BY <1>1, <1>3, <2>2, <3>1, ProceedUse
  <2>3. CASE AddRefs({todo[1].what}) /\ todo[1].do \in {"new", "create", "element"}
    <3>1. /\ refs' \in [Refs -> Nat]
          /\ \A x \in Items : x \in Ready \/ Ref(x) \in {todo[1].what} => x \in Ready'
      BY <1>1, <2>3, AddsReady
    <3>2. \A x \in Items : Gives(todo[1], x) => Ref(x) \in {todo[1].what}
      BY <2>3 DEF Gives
    <3>3. QED  BY <1>1, <1>3, <3>1, <3>2, ProceedUse
  <2>4. QED  BY <2>1, <2>2, <2>3
<1>4. CASE ~Proceed
  <2>1. /\ phase' \in {"unwinding", "findClass"} /\ todo' = <<>>
        /\ refs' = refs \/ \E rs : AddRefs(rs)
    BY <1>1, <1>4 DEF NewArray, CreateObject, GetElement, Occurred, JvmThrows,
                      StdThrows, JavaThrows, AddRef
  <2>2. refs' \in [Refs -> Nat]
    BY <1>1, <2>1, AddsReady
  <2>3. QED  BY <2>1, <2>2, NoUse
<1>5. QED  BY <1>3, <1>4

LEMMA OtherUse ==
  ASSUME ProgramInv, UseInv,
         \/ GetNull \/ GetElements \/ SetArrayElement \/ PlainCall \/ CallCore
         \/ StoreResult \/ ResetArray
  PROVE  UseInv'
<1> USE DEF At, What, GetNull, GetElements, SetArrayElement, PlainCall, CallCore,
            StoreResult, ResetArray
<1>1. /\ phase = "running" /\ todo # <<>> /\ Head(todo) = todo[1]
      /\ refs \in [Refs -> Nat]
      /\ todo[1].do \notin {"new", "create", "element", "nullElement", "delete", "loop"}
  BY DEF ProgramInv, TodoInv, UseInv
<1>2. CASE Proceed
  <2>1. refs' = refs /\ nulls' = nulls
    BY <1>1, <1>2 DEF Proceed, Occurred, JvmThrows, StdThrows, JavaThrows
  <2>2. Ready' = Ready
    BY <2>1 DEF Ready, Items
  <2>3. \A x \in Items : ~Gives(todo[1], x)
    BY <1>1 DEF Gives
  <2>4. QED  BY <1>1, <1>2, <2>1, <2>2, <2>3, ProceedUse
<1>3. CASE ~Proceed
  <2>1. /\ phase' \in {"unwinding", "findClass"} /\ todo' = <<>>
        /\ refs' = refs \/ \E rs : AddRefs(rs)
    BY <1>3 DEF Occurred, JvmThrows, StdThrows, JavaThrows, AddRef
  <2>2. refs' \in [Refs -> Nat]
    BY <1>1, <2>1, AddsReady
  <2>3. QED  BY <2>1, <2>2, NoUse
<1>4. QED  BY <1>2, <1>3

LEMMA DeletingUse ==
  ASSUME ProgramInv, UseInv, DeleteLocalRef
  PROVE  UseInv'
<1> USE DEF At, What, DeleteLocalRef
<1>1. /\ phase = "running" /\ todo # <<>> /\ Head(todo) = todo[1]
      /\ refs \in [Refs -> Nat] /\ Proceed
      /\ todo[1].do = "delete" /\ nulls' = nulls
  BY DEF ProgramInv, TodoInv, UseInv
<1> DEFINE w == todo[1].what
<1>2. w \in Refs => refs[w] > 0 \/ w \in nulls
  BY <1>1, HeadUses DEF Passes
<1>3. /\ refs' \in [Refs -> Nat]
      /\ \A r \in Refs : r # w => refs'[r] = refs[r]
  <2>1. CASE w \in nulls
    BY <1>1, <2>1
  <2>2. CASE w \notin nulls
    <3>1. refs' = [refs EXCEPT ![w] = @ - 1]
      BY <1>1, <2>2
    <3>2. w \in Refs => refs[w] - 1 \in Nat
      BY <1>1, <1>2, <2>2
    <3> HIDE DEF w
    <3>3. QED  BY <1>1, <3>1, <3>2
  <2>3. QED  BY <2>1, <2>2
<1>4. ASSUME NEW x \in Items, Gives(todo[1], x) \/ (x \in Ready /\ ~Ends(todo[1], x))
      PROVE  x \in Ready'
  <2>1. x \in Ready /\ Ref(x) # w /\ Ref(x) \in Refs
    BY <1>1, <1>4, ItemFields DEF Gives, Ends
  <2> HIDE DEF w
  <2>2. QED  BY <1>1, <1>3, <2>1 DEF Ready, Items
<1>5. QED  BY <1>1, <1>3, <1>4, ProceedUse

LEMMA LoopingUse ==
  ASSUME ProgramInv, UseInv, Iterate
  PROVE  UseInv'
<1> USE DEF At, What
<1>1. /\ phase = "running" /\ todo # <<>> /\ Head(todo) = todo[1]
      /\ refs \in [Refs -> Nat]
      /\ todo[1].do = "loop" /\ phase' = phase /\ refs' = refs /\ nulls' = {}
  BY DEF Iterate, ProgramInv, TodoInv, UseInv
<1>2. /\ todo \in Seq(Steps) /\ Tail(todo) \in Seq(Steps)
      /\ todo[1].what \in Operands /\ todo[1].left \in Nat
  <2>1. todo \in Seq(Steps)
    BY DEF ProgramInv, TodoInv
  <2>2. todo[1] \in Steps /\ Tail(todo) \in Seq(Steps)
    BY <1>1, <2>1
  <2>3. \A x \in Steps : x.left \in Nat /\ x.what \in Operands
    BY DEF Steps
  <2>4. QED  BY <2>1, <2>2, <2>3
<1>3. \A x \in Items : x \in Ready /\ ~Ends(todo[1], x) => x \in Ready'
  BY <1>1 DEF Ready, Ends, Items
<1>4. \A x \in Items : ~Gives(todo[1], x)
  BY <1>1 DEF Gives
<1>5. CASE todo' = Tail(todo)
  <2>1. Proceed
    BY <1>5 DEF Iterate, Proceed
  <2>2. QED  BY <1>1, <1>3, <1>4, <2>1, ProceedUse
<1>6. CASE todo[1].left # 0
  <2> DEFINE next == Loop(todo[1].what, todo[1].left - 1)
  <2>1. PICK body \in Bodies(todo[1].what) : todo' = body \o <<next>> \o Tail(todo)
    BY <1>1, <1>6 DEF Iterate
  <2>2. todo[1].left - 1 \in Nat
    BY <1>2, <1>6
  <2>3. next \in Steps /\ next.do = "loop" /\ next.what = todo[1].what
    BY <1>2, <2>2 DEF Loop, Steps, Calls
  <2>4. body \in Seq(Steps)
    BY RowBodiesWellFormed, SubqueryBodyQuiet, QuietSequence
       DEF Bodies, WellFormed, TodoInv
  <2> HIDE DEF next
  <2>5. todo' = body \o (<<next>> \o Tail(todo))
    <3>1. <<next>> \in Seq(Steps)
      BY <2>3
    <3>2. QED  BY <1>2, <2>1, <2>4, <3>1, ConcatAssociative
  <2>6. BodyUse(body, todo[1])
    BY <1>1, SubqueryUse, RowUse DEF Bodies
  <2>7. UseTodo(todo', Ready')
    BY <1>1, <1>2, <1>3, <2>3, <2>4, <2>5, <2>6, LoopUse DEF UseInv
  <2>8. UseTodo(todo, Ready)'
    BY <2>7 DEF UseTodo, GivenIn, Needs, Gives, Ends, Items, Passes
  <2>9. QED  BY <1>1, <2>8 DEF UseInv
<1>7. QED  BY <1>1, <1>5, <1>6 DEF Iterate

(* Every step keeps it.                                                    *)
LEMMA StepUse ==
  ASSUME Discipline, ProgramInv, UseInv, [Next]_vars
  PROVE  UseInv'
<1>1. CASE UNCHANGED vars
  BY <1>1 DEF vars, UseInv, UseTodo, GivenIn, Needs, Gives, Ends, Items, Passes, Ready
<1>2. CASE RunStep
  BY <1>2, GivingUse, OtherUse, DeletingUse, LoopingUse DEF RunStep
<1>3. CASE CallNative
  <2>1. refs' = refs /\ phase' = "running" /\ todo' \in Programs
    BY <1>3 DEF CallNative
  <2>2. UseTodo(todo', {})
    BY <2>1, ProgramUse
  <2>3. UseTodo(todo, Ready)'
    BY <2>2 DEF UseTodo, GivenIn, Needs, Gives, Ends, Items, Passes
  <2>4. QED  BY <2>1, <2>3 DEF UseInv
<1>4. CASE Unwind \/ CatchAll \/ FindClass \/ ThrowNew \/ DeleteClassRef
  <2>1. todo = <<>> /\ todo' = <<>>
    BY <1>4 DEF Unwind, CatchAll, FrameEnds, FindClass, ThrowNew, DeleteClassRef,
                ProgramInv
  <2>2. /\ refs \in [Refs -> Nat] /\ "class" \in Refs
        /\ NoRefs \in [Refs -> Nat]
    BY DEF UseInv, Refs, NoRefs
  <2>3. CASE Unwind \/ CatchAll
    BY <2>1, <2>2, <2>3, NoUse DEF Unwind, CatchAll, FrameEnds, Return
  <2>4. CASE FindClass
    <3>1. CASE phase' = "throwNew" /\ AddRefs({"class"})
      BY <2>1, <2>2, <3>1, AddsReady, NoUse
    <3>2. CASE Thrown
      BY <2>1, <2>2, <3>2, NoUse DEF Thrown, Return
    <3>3. QED  BY <2>4, <3>1, <3>2 DEF FindClass, AddRef
  <2>5. CASE ThrowNew
    BY <2>1, <2>2, <2>5, NoUse DEF ThrowNew, UseInv
  <2>6. CASE DeleteClassRef
    <3>1. CASE refs' = [refs EXCEPT !["class"] = @ - 1] /\ phase' = "unwinding"
      <4>1. refs["class"] > 0
        BY <2>6 DEF DeleteClassRef, UseInv
      <4>2. refs' \in [Refs -> Nat]
        BY <2>2, <3>1, <4>1
      <4>3. QED  BY <2>1, <3>1, <4>2, NoUse
    <3>2. CASE Return("error")
      BY <2>1, <2>2, <3>2, NoUse DEF Return
    <3>3. QED  BY <2>6, <3>1, <3>2 DEF DeleteClassRef
  <2>7. QED  BY <1>4, <2>3, <2>4, <2>5, <2>6
<1>5. QED  BY <1>1, <1>2, <1>3, <1>4 DEF Next

LEMMA InitUse == Init => UseInv
BY EmptyUse DEF Init, UseInv, NoRefs

-----------------------------------------------------------------------------
(* A step that throws drops the steps that are left.                       *)
LEMMA ThrowKeeps ==
  ASSUME ProgramInv, phase' # "running", todo' = <<>>, held' = held,
         computed' = computed, visible' = visible,
         refs' \in [Refs -> Int],
         \A array \in RowArrays : refs'[array] >= refs[array]
  PROVE  ProgramInv'
<1>1. TodoInv(todo', held') /\ StoreInv(todo', held')
  BY EmptyTodo
<1>2. \A array \in RowArrays : array \in Refs
  BY DEF Refs
<1>3. /\ \A array \in RowArrays : refs'[array] >= 0
      /\ \A array \in held' \cap RowArrays : refs'[array] > 0
  BY <1>2 DEF ProgramInv, HeldIsReferenced
<1>4. QED
  BY <1>1, <1>3 DEF ProgramInv, HeldIsReferenced, TodoInv, StoreInv, StoresNothing,
                   BatchStart

LEMMA ProceedProgram ==
  ASSUME ProgramInv, phase = "running", todo # <<>>, Proceed,
         "matchResults" \in held => "matchResults" \in held',
         todo[1].do = "reset" => todo[1].what \notin held',
         todo[1].do = "get" /\ todo[1].what = "matchResults"
           => "matchResults" \in held',
         computed' # visible' => "matchResults" \in held',
         refs' \in [Refs -> Int],
         \A array \in RowArrays : refs'[array] >= 0,
         \A array \in held' \cap RowArrays : refs'[array] > 0
  PROVE  ProgramInv'
<1>1. TodoInv(Tail(todo), held') /\ StoreInv(Tail(todo), held')
  BY ProceedKeeps DEF ProgramInv
<1>2. todo' = Tail(todo) /\ phase' = "running"
  BY DEF Proceed
<1>3. TodoInv(todo, held)' /\ StoreInv(todo, held)'
  BY <1>1, <1>2 DEF TodoInv, StoreInv, StoresNothing, BatchStart
<1>4. QED
  BY <1>2, <1>3 DEF ProgramInv, HeldIsReferenced

LEMMA AddKeeps ==
  ASSUME refs \in [Refs -> Int], NEW rs, AddRefs(rs)
  PROVE  /\ refs' \in [Refs -> Int]
         /\ \A x \in Refs : refs'[x] >= refs[x]
BY DEF AddRefs

(* Steps that leave the arrays held alone and delete nothing: they go on or*)
(* throw.                                                                  *)
LEMMA OrdinaryStep ==
  ASSUME ProgramInv,
         \/ NewArray \/ CreateObject \/ GetElement \/ SetArrayElement \/ PlainCall
         \/ CallCore
  PROVE  ProgramInv'
<1> USE DEF At, What
<1>1. /\ phase = "running" /\ todo # <<>> /\ Head(todo) = todo[1]
      /\ todo[1].do \notin {"reset", "get"}
      /\ held' = held /\ computed' = computed /\ visible' = visible
  BY DEF NewArray, CreateObject, GetElement, SetArrayElement, PlainCall, CallCore
<1>2. /\ refs \in [Refs -> Int] /\ RowArrays \subseteq Refs
      /\ \A array \in RowArrays : refs[array] >= 0
  BY DEF ProgramInv, Refs
<1>3. /\ refs' \in [Refs -> Int]
      /\ \A array \in RowArrays : refs'[array] >= refs[array]
  <2>1. refs' = refs \/ \E rs : AddRefs(rs)
    BY DEF NewArray, CreateObject, GetElement, SetArrayElement, PlainCall, CallCore,
           Occurred, AddRef
  <2>2. \A array \in RowArrays : array \in Refs /\ refs[array] \in Int
    BY <1>2
  <2>3. QED  BY <1>2, <2>1, <2>2, AddKeeps
<1>4. Proceed \/ (phase' # "running" /\ todo' = <<>>)
  BY DEF NewArray, CreateObject, GetElement, SetArrayElement, PlainCall, CallCore,
         Occurred, JvmThrows, StdThrows, JavaThrows
<1>5. CASE Proceed
  <2>1. /\ \A array \in RowArrays : refs'[array] >= 0
        /\ \A array \in held' \cap RowArrays : refs'[array] > 0
    BY <1>1, <1>2, <1>3 DEF ProgramInv, HeldIsReferenced
  <2>2. computed' # visible' => "matchResults" \in held'
    BY <1>1 DEF ProgramInv
  <2>3. QED  BY <1>1, <1>3, <1>5, <2>1, <2>2, ProceedProgram
<1>6. CASE phase' # "running" /\ todo' = <<>>
  BY <1>1, <1>3, <1>6, ThrowKeeps
<1>7. QED  BY <1>4, <1>5, <1>6

LEMMA GetStep ==
  ASSUME ProgramInv, UseInv, TypeInv, GetNull \/ GetElements
  PROVE  ProgramInv'
<1> USE DEF At, What
<1>1. /\ phase = "running" /\ todo # <<>> /\ Head(todo) = todo[1]
      /\ todo[1].do = "get" /\ computed' = computed /\ visible' = visible
  BY DEF GetNull, GetElements
<1>2. /\ refs \in [Refs -> Int] /\ RowArrays \subseteq Refs
      /\ \A array \in RowArrays : refs[array] >= 0
      /\ \A array \in held \cap RowArrays : refs[array] > 0
      /\ computed # visible => "matchResults" \in held
  BY DEF ProgramInv, Refs, HeldIsReferenced
<1>3. CASE GetNull
  <2>1. Proceed /\ held' = held /\ refs' = refs
    BY <1>3 DEF GetNull
  <2>2. todo[1].what # "matchResults"
    <3>1. "matchResults" \notin nulls
      BY DEF TypeInv, RowArrays
    <3>2. QED  BY <1>1, <1>3, <3>1 DEF GetNull, NullableArrays
  <2>3. QED  BY <1>1, <1>2, <2>1, <2>2, ProceedProgram
<1>4. CASE GetElements /\ Proceed /\ held' = held \cup {What} /\ refs' = refs
  <2>1. What \in RowArrays => refs[What] > 0
    BY <1>1, <1>2, <1>4, HeadUses DEF GetElements, Passes
  <2>2. \A array \in held' \cap RowArrays : refs'[array] > 0
    BY <1>2, <1>4, <2>1
  <2>3. /\ todo[1].what = "matchResults" => "matchResults" \in held'
        /\ held \subseteq held'
    BY <1>1, <1>4
  <2>4. QED  BY <1>1, <1>2, <1>4, <2>2, <2>3, ProceedProgram
<1>5. CASE GetElements /\ phase' # "running" /\ todo' = <<>>
  <2>1. held' = held
    BY <1>5, <1>1 DEF GetElements, Proceed
  <2>2. refs' = refs \/ AddRefs({"exception"})
    BY <1>5, <1>1 DEF GetElements, Proceed, Occurred, AddRef
  <2>3. /\ refs' \in [Refs -> Int]
        /\ \A array \in RowArrays : refs'[array] >= refs[array]
    <3>1. \A array \in RowArrays : array \in Refs /\ refs[array] \in Int
      BY <1>2
    <3>2. QED  BY <1>2, <2>2, <3>1, AddKeeps
  <2>4. QED  BY <1>1, <1>5, <2>1, <2>3, ThrowKeeps
<1>6. GetElements => \/ Proceed /\ held' = held \cup {What} /\ refs' = refs
                     \/ phase' # "running" /\ todo' = <<>>
  BY DEF GetElements, Occurred, JvmThrows, StdThrows
<1>7. QED  BY <1>3, <1>4, <1>5, <1>6

LEMMA StoreStep ==
  ASSUME ProgramInv, StoreResult
  PROVE  ProgramInv'
<1> USE DEF StoreResult, At, ProgramInv
<1>1. phase = "running" /\ todo # <<>> /\ Head(todo) = todo[1] /\ todo[1].do = "store"
  OBVIOUS
<1>2. ~StoresNothing(todo)
  BY <1>1 DEF StoresNothing, TodoInv
<1>3. "matchResults" \in held
  BY <1>1, <1>2, BatchGets DEF StoreInv
<1>4. QED  BY <1>1, <1>3, ProceedProgram DEF HeldIsReferenced

LEMMA ResetStep ==
  ASSUME ProgramInv, ResetArray
  PROVE  ProgramInv'
<1> USE DEF ResetArray, Release, At, What, ProgramInv
<1>1. phase = "running" /\ todo # <<>> /\ Head(todo) = todo[1] /\ todo[1].do = "reset"
  OBVIOUS
<1>2. todo[1].what \in RowArrays
  BY <1>1 DEF TodoInv
<1>3. "matchResults" # todo[1].what
  BY <1>2 DEF RowArrays
<1>4. held' = held \ {todo[1].what} /\ visible' = visible
  BY <1>1, <1>3
<1>5. QED  BY <1>1, <1>3, <1>4, ProceedProgram DEF HeldIsReferenced

LEMMA DeleteStep ==
  ASSUME ProgramInv, UseInv, DeleteLocalRef
  PROVE  ProgramInv'
<1> USE DEF DeleteLocalRef, At, What
<1>1. phase = "running" /\ todo # <<>> /\ Head(todo) = todo[1] /\ todo[1].do = "delete"
  OBVIOUS
<1>2. /\ refs \in [Refs -> Int] /\ RowArrays \subseteq Refs
      /\ \A array \in RowArrays : refs[array] >= 0
      /\ \A array \in held \cap RowArrays : refs[array] > 0
      /\ computed # visible => "matchResults" \in held
  BY DEF ProgramInv, Refs, HeldIsReferenced
<1>3. todo[1].what \in RowArrays => todo[1].what \notin held
  BY <1>1 DEF ProgramInv, TodoInv, RowDelete
<1>4. /\ refs' \in [Refs -> Int]
      /\ \A array \in RowArrays : refs'[array] >= 0
      /\ \A array \in RowArrays : array # todo[1].what => refs'[array] = refs[array]
  <2>1. refs' \in [Refs -> Nat]
    BY DeletingUse DEF UseInv
  <2>2. refs' = refs \/ refs' = [refs EXCEPT ![todo[1].what] = @ - 1]
    BY <1>1
  <2>3. QED  BY <1>2, <2>1, <2>2
<1>5. \A array \in held' \cap RowArrays : refs'[array] > 0
  BY <1>2, <1>3, <1>4
<1>6. QED  BY <1>1, <1>2, <1>4, <1>5, ProceedProgram

LEMMA IterateStep ==
  ASSUME ProgramInv, Iterate
  PROVE  ProgramInv'
<1> USE DEF At, What
<1>1. /\ phase = "running" /\ todo # <<>> /\ Head(todo) = todo[1]
      /\ todo[1].do = "loop" /\ phase' = phase
      /\ UNCHANGED <<held, refs, computed, visible>>
  BY DEF Iterate
<1>2. todo \in Seq(Steps) /\ todo[1] \in Steps /\ todo[1].left \in Nat
      /\ todo[1].what \in Operands
  <2>1. todo \in Seq(Steps)
    BY DEF ProgramInv, TodoInv
  <2>2. todo[1] \in Steps
    BY <1>1, <2>1
  <2>3. \A x \in Steps : x.left \in Nat /\ x.what \in Operands
    BY DEF Steps
  <2>4. QED  BY <2>1, <2>2, <2>3
<1>3. TodoInv(Tail(todo), RowArrays) /\ StoreInv(Tail(todo), held)
      /\ TodoInv(Tail(todo), held)
  BY <1>1, TailTodo, ProceedKeeps DEF ProgramInv
<1>4. TodoInv(todo', held) /\ StoreInv(todo', held)
  <2>1. CASE todo' = Tail(todo)
    BY <1>3, <2>1
  <2>2. CASE todo[1].left # 0
    <3> DEFINE next == Loop(What, todo[1].left - 1)
    <3>1. PICK body \in Bodies(What) : todo' = body \o <<next>> \o Tail(todo)
      BY <1>1, <2>2 DEF Iterate
    <3>2. todo[1].left - 1 \in Nat
      BY <1>2, <2>2
    <3>3. next \in Steps /\ next.do = "loop" /\ next.what = What
      BY <1>1, <1>2, <3>2 DEF Loop, Steps
    <3>4. WellFormed(body) /\ body \in Seq(Steps)
      BY RowBodiesWellFormed, SubqueryBodyQuiet, QuietSequence
         DEF Bodies, WellFormed, TodoInv
    <3> HIDE DEF next
    <3>5. WellFormed(<<next>>)
      BY <3>3 DEF WellFormed, TodoInv, RowDelete
    <3> DEFINE rest == <<next>> \o Tail(todo)
    <3>6. WellFormed(rest) /\ rest \in Seq(Steps)
      <4>1. <<next>> # <<>>
        OBVIOUS
      <4>2. TodoInv(rest, RowArrays)
        BY <1>3, <3>5, <4>1, ConcatTodo DEF WellFormed
      <4>3. QED  BY <4>2 DEF WellFormed, TodoInv
    <3>7. todo' = body \o rest
      <4>1. <<next>> \in Seq(Steps) /\ Tail(todo) \in Seq(Steps)
        BY <1>1, <1>2, <3>3
      <4>2. body \o <<next>> \o Tail(todo) = body \o (<<next>> \o Tail(todo))
        BY <3>4, <4>1, ConcatAssociative
      <4>3. QED  BY <3>1, <4>2
    <3> HIDE DEF rest
    <3>8. TodoInv(todo', held)
      <4>1. CASE body = <<>>
        <5>1. todo' = rest
          BY <3>6, <3>7, <4>1
        <5>2. QED  BY <3>6, <5>1, WeakenTodo DEF WellFormed
      <4>2. CASE body # <<>>
        <5>1. TodoInv(body \o rest, RowArrays)
          BY <3>4, <3>6, <4>2, ConcatTodo DEF WellFormed
        <5>2. QED  BY <3>7, <5>1, WeakenTodo
      <4>3. QED  BY <4>1, <4>2
    <3>9. StoreInv(todo', held)
      <4>1. CASE What = "row"
        <5>1. ~StoresNothing(todo)
          BY <1>1, <1>2, <4>1 DEF StoresNothing
        <5>2. "matchResults" \in held
          BY <1>1, <5>1, BatchGets DEF ProgramInv, StoreInv
        <5>3. QED  BY <5>2 DEF StoreInv
      <4>2. CASE What # "row"
        <5>1. body \in Seq(Steps) /\ StoresNothing(body)
          BY <4>2, SubqueryBodyQuiet, QuietSequence DEF Bodies
        <5>2. StoresNothing(<<next>>) /\ <<next>> \in Seq(Steps)
          BY <3>3, <4>2 DEF StoresNothing
        <5>3. CASE StoresNothing(todo)
          <6>1. StoresNothing(Tail(todo)) /\ Tail(todo) \in Seq(Steps)
            BY <1>1, <1>2, <5>3, TailStores
          <6>2. StoresNothing(rest)
            BY <5>2, <6>1, ConcatStores DEF rest
          <6>3. StoresNothing(todo')
            BY <3>6, <3>7, <5>1, <6>2, ConcatStores
          <6>4. QED  BY <6>3 DEF StoreInv
        <5>4. CASE ~StoresNothing(todo)
          BY <1>1, <5>4, BatchGets DEF ProgramInv, StoreInv
        <5>5. QED  BY <5>3, <5>4
      <4>3. QED  BY <4>1, <4>2
    <3>10. QED  BY <3>8, <3>9
  <2>3. QED  BY <1>1, <2>1, <2>2 DEF Iterate
<1>5. TodoInv(todo, held)' /\ StoreInv(todo, held)'
  BY <1>1, <1>4 DEF TodoInv, StoreInv, StoresNothing, BatchStart
<1>6. QED  BY <1>1, <1>5 DEF ProgramInv, HeldIsReferenced

(* Every step keeps it, given the discipline, which says that nothing is   *)
(* held when the frame has been left.                                      *)
LEMMA StepProgram ==
  ASSUME Discipline, TypeInv, ProgramInv, UseInv, [Next]_vars
  PROVE  ProgramInv'
<1>1. CASE UNCHANGED vars
  BY <1>1 DEF vars, ProgramInv, TodoInv, StoreInv, StoresNothing, BatchStart,
              HeldIsReferenced
<1>2. CASE RunStep
  BY <1>2, OrdinaryStep, GetStep, StoreStep, ResetStep, DeleteStep, IterateStep
     DEF RunStep
<1>3. CASE CallNative
  <2>1. held = {} /\ held' = {} /\ computed' = visible' /\ refs' = refs
        /\ phase' = "running"
    BY <1>3 DEF CallNative, Discipline
  <2>2. TodoInv(todo', {}) /\ StoreInv(todo', {})
    BY <1>3, ProgramsInv DEF CallNative
  <2>3. QED
    BY <2>1, <2>2 DEF ProgramInv, TodoInv, StoreInv, StoresNothing, BatchStart,
                      HeldIsReferenced
<1>4. CASE Unwind
  <2>1. todo = <<>> /\ todo' = <<>> /\ phase' = "unwinding"
    BY <1>4 DEF Unwind, FrameEnds, ProgramInv
  <2>2. PICK array \in held : Release(array)
    BY <1>4 DEF Unwind
  <2>3. TodoInv(todo', held') /\ StoreInv(todo', held')
    BY <2>1, EmptyTodo
  <2>4. computed' # visible' => "matchResults" \in held'
    BY <1>4, <2>2 DEF Unwind, Release, ProgramInv
  <2>5. held' \subseteq held /\ refs' = refs
    BY <1>4, <2>2 DEF Unwind, Release
  <2>6. QED
    BY <2>1, <2>3, <2>4, <2>5
       DEF ProgramInv, TodoInv, StoreInv, StoresNothing, BatchStart, HeldIsReferenced
<1>5. CASE CatchAll \/ FindClass \/ ThrowNew \/ DeleteClassRef
  <2>1. /\ todo = <<>> /\ todo' = <<>> /\ phase' # "running" /\ held' = held
        /\ computed' = computed /\ visible' = visible
    BY <1>5 DEF CatchAll, FrameEnds, FindClass, ThrowNew, DeleteClassRef, ProgramInv,
                Return, Thrown
  <2>2. TodoInv(todo', held') /\ StoreInv(todo', held')
    BY <2>1, EmptyTodo
  <2>3. /\ refs \in [Refs -> Int] /\ RowArrays \subseteq Refs
        /\ "class" \notin RowArrays
    BY DEF ProgramInv, Refs, RowArrays
  <2>4. \/ refs' = NoRefs /\ held = {}
        \/ refs' = refs
        \/ AddRefs({"class"})
        \/ refs' = [refs EXCEPT !["class"] = @ - 1]
    BY <1>5, <2>3 DEF CatchAll, FindClass, ThrowNew, DeleteClassRef, Return, Thrown,
                      Discipline, AddRef
  <2>5. /\ refs' \in [Refs -> Int]
        /\ \A array \in RowArrays : refs'[array] >= 0
        /\ \A array \in held' \cap RowArrays : refs'[array] > 0
    BY <2>1, <2>3, <2>4 DEF ProgramInv, HeldIsReferenced, NoRefs, AddRefs
  <2>6. QED
    BY <2>1, <2>2, <2>5
       DEF ProgramInv, TodoInv, StoreInv, StoresNothing, BatchStart, HeldIsReferenced
<1>6. QED
  BY <1>1, <1>2, <1>3, <1>4, <1>5 DEF Next

LEMMA InitProgram == Init => ProgramInv
BY EmptyTodo DEF Init, ProgramInv, NoRefs, HeldIsReferenced, RowArrays, Refs

LEMMA ProgramHolds == Spec => []ProgramInv /\ []UseInv
<1>1. Discipline /\ TypeInv /\ ProgramInv /\ UseInv /\ [Next]_vars
        => ProgramInv' /\ UseInv'
  BY StepProgram, StepUse
<1>2. QED
  BY <1>1, InitProgram, InitUse, DisciplineHolds, TypesHold, PTL DEF Spec

(* However a native method ends, it has released every array, and the      *)
(* results it stored are in Java's matchResults.                           *)
THEOREM EverythingReleased == Spec => []NothingHeldAfterReturn
<1>1. Discipline /\ ProgramInv => NothingHeldAfterReturn
  BY DEF Discipline, ProgramInv, NothingHeldAfterReturn
<1>2. QED  BY <1>1, ProgramHolds, DisciplineHolds, PTL

(* In batches of any length, a row's elements go back before its reference.*)
THEOREM ReleasedBeforeDeleted == Spec => []HeldIsReferenced
<1>1. ProgramInv => HeldIsReferenced
  BY DEF ProgramInv
<1>2. QED  BY <1>1, ProgramHolds, PTL

(* No step of any native method passes to JNI a reference that is not there*)
(* (never made, or deleted before), nor a null one except where it may.    *)
THEOREM ReferencesLive == Spec => []PassesLiveReferences
<1>1. ProgramInv /\ UseInv => PassesLiveReferences
  <2> SUFFICES ASSUME ProgramInv, UseInv, phase = "running", todo # <<>>
               PROVE  \A r \in Refs : Passes(Head(todo), r) =>
                        refs[r] > 0 \/ (r \in nulls /\ Head(todo).do \in {"get", "delete"})
    BY DEF PassesLiveReferences
  <2>1. Head(todo) = todo[1]
    BY DEF ProgramInv, TodoInv
  <2>2. QED  BY <2>1, HeadUses
<1>2. QED  BY <1>1, ProgramHolds, PTL

-----------------------------------------------------------------------------
(* The local references, and so the types.  A C++ variable has one         *)
(* reference at most: a program makes each once, and a loop's body deletes *)
(* what it made before it starts again.                                    *)

(* References that the catch-all and throw_in_java make, and no program.   *)
Reserved == {"exception", "class"}

(* A step makes a reference for r; a loop makes those of its body.         *)
Adds(step, r) ==
  \/ step.do \in {"new", "create", "element"} /\ step.what = r
  \/ step.do = "loop" /\ r \in LoopRefs(step.what)

Drops(step, r) == step.do = "delete" /\ step.what = r

(* A step gives r a value, if only the null reference.                     *)
Assigns(step, r) == Adds(step, r) \/ (step.do = "nullElement" /\ step.what = r)

(* What is left of a call that has the references of p: before a step gives*)
(* r a value, the reference it had is deleted.                             *)
RefTodo(s, p) ==
  \A i \in 1 .. Len(s), r \in Refs : Assigns(s[i], r) =>
    /\ r \notin Reserved
    /\ r \in p => \E d \in 1 .. i - 1 : Drops(s[d], r)
    /\ \A j \in 1 .. i - 1 :
         Adds(s[j], r) => \E d \in j + 1 .. i - 1 : Drops(s[d], r)

(* A loop's body has deleted in the end what it made.                      *)
BodyInv(body, loop) ==
  /\ RefTodo(body, {})
  /\ \A i \in 1 .. Len(body), r \in Refs : Assigns(body[i], r) =>
       /\ r \in LoopRefs(loop)
       /\ Adds(body[i], r) => \E d \in i + 1 .. Len(body) : Drops(body[d], r)

Present == {r \in Refs : refs[r] # 0}

RefInv ==
  /\ refs \in [Refs -> {0, 1}]
  /\ \A r \in Refs : r \in nulls => refs[r] = 0
  /\ phase = "java" => refs = NoRefs
  /\ phase = "running" => refs["exception"] = 0
  /\ phase \in {"running", "unwinding", "findClass"} => refs["class"] = 0
  /\ phase = "deleteClass" => refs["class"] = 1
  /\ phase = "throwNew" => refs["class"] = 1
  /\ RefTodo(todo, Present)

-----------------------------------------------------------------------------
LEMMA TailRefs ==
  ASSUME NEW s \in Seq(Steps), NEW p, NEW q, RefTodo(s, p), s # <<>>,
         \A r \in Refs : r \in q => \/ r \in p /\ ~Drops(s[1], r)
                                    \/ Adds(s[1], r)
  PROVE  RefTodo(Tail(s), q)
<1>1. /\ Len(Tail(s)) = Len(s) - 1 /\ Len(s) \in Nat
      /\ \A i \in 1 .. Len(s) - 1 : Tail(s)[i] = s[i + 1]
  OBVIOUS
<1>2. ASSUME NEW i \in 1 .. Len(Tail(s)), NEW r \in Refs, Assigns(Tail(s)[i], r)
      PROVE  /\ r \notin Reserved
             /\ r \in q => \E d \in 1 .. i - 1 : Drops(Tail(s)[d], r)
             /\ \A j \in 1 .. i - 1 : Adds(Tail(s)[j], r)
                  => \E d \in j + 1 .. i - 1 : Drops(Tail(s)[d], r)
  <2> DEFINE m == i + 1
  <2>1. m \in 1 .. Len(s) /\ Assigns(s[m], r) /\ m - 1 = i /\ 1 \in 1 .. m - 1
    BY <1>1, <1>2
  <2>2. /\ r \notin Reserved
        /\ r \in p => \E d \in 1 .. m - 1 : Drops(s[d], r)
        /\ \A j \in 1 .. m - 1 :
             Adds(s[j], r) => \E d \in j + 1 .. m - 1 : Drops(s[d], r)
    BY <2>1 DEF RefTodo
  <2>3. ASSUME NEW d \in 2 .. m - 1
        PROVE  d - 1 \in 1 .. i - 1 /\ Tail(s)[d - 1] = s[d]
    BY <1>1, <2>1, <2>3
  <2>4. ASSUME r \in q PROVE \E d \in 1 .. i - 1 : Drops(Tail(s)[d], r)
    <3>1. PICK d \in 1 .. m - 1 : Drops(s[d], r) /\ d # 1
      <4>1. CASE r \in p /\ ~Drops(s[1], r)
        BY <2>2, <4>1
      <4>2. CASE Adds(s[1], r)
        <5>1. PICK d \in 1 + 1 .. m - 1 : Drops(s[d], r)
          BY <2>1, <2>2, <4>2
        <5>2. d \in 1 .. m - 1 /\ d # 1
          BY <5>1
        <5>3. QED  BY <5>1, <5>2
      <4>3. QED  BY <2>4, <4>1, <4>2
    <3>2. d \in 2 .. m - 1
      BY <3>1
    <3>3. QED  BY <2>3, <3>1, <3>2
  <2>5. ASSUME NEW j \in 1 .. i - 1, Adds(Tail(s)[j], r)
        PROVE  \E d \in j + 1 .. i - 1 : Drops(Tail(s)[d], r)
    <3> DEFINE k == j + 1
    <3>1. k \in 1 .. m - 1 /\ Adds(s[k], r)
      BY <1>1, <2>1, <2>5
    <3>2. PICK d \in k + 1 .. m - 1 : Drops(s[d], r)
      BY <2>2, <3>1
    <3>3. d \in 2 .. m - 1 /\ d - 1 \in j + 1 .. i - 1
      BY <1>1, <2>1, <3>2
    <3>4. QED  BY <2>3, <3>2, <3>3
  <2>6. QED  BY <2>2, <2>4, <2>5
<1>3. QED  BY <1>2 DEF RefTodo

LEMMA LoopRefsKept ==
  ASSUME NEW s \in Seq(Steps), NEW p, RefTodo(s, p), s # <<>>, s[1].do = "loop",
         NEW body \in Seq(Steps), BodyInv(body, s[1].what),
         NEW next \in Steps, next.do = "loop", next.what = s[1].what,
         NEW t, t = body \o (<<next>> \o Tail(s))
  PROVE  RefTodo(t, p)
<1> DEFINE n == Len(body)
<1>1. /\ Len(t) = n + Len(s) /\ n \in Nat /\ Len(s) \in Nat \ {0}
      /\ \A i \in 1 .. n : t[i] = body[i]
      /\ t[n + 1] = next
      /\ \A k \in 2 .. Len(s) : t[n + k] = s[k]
  BY LoopTodo
<1>2. \A k \in 1 .. Len(s), r \in Refs :
        /\ Adds(t[n + k], r) <=> Adds(s[k], r)
        /\ Assigns(t[n + k], r) <=> Assigns(s[k], r)
        /\ Drops(t[n + k], r) <=> Drops(s[k], r)
  <2> TAKE k \in 1 .. Len(s), r \in Refs
  <2>1. CASE k = 1
    BY <1>1, <2>1 DEF Adds, Assigns, Drops
  <2>2. CASE k # 1
    <3> HIDE DEF n
    <3>1. k \in 2 .. Len(s)
      BY <1>1, <2>2
    <3>2. t[n + k] = s[k]
      BY <1>1, <3>1
    <3>3. QED  BY <3>2
  <2>3. QED  BY <2>1, <2>2
<1>3. \A r \in Refs : r \in LoopRefs(s[1].what) => r \notin Reserved /\ r \notin p
  <2>1. 1 \in 1 .. Len(s)
    BY <1>1
  <2>2. \A r \in Refs : r \in LoopRefs(s[1].what) => Assigns(s[1], r)
    BY DEF Adds, Assigns
  <2>3. QED  BY <2>1, <2>2 DEF RefTodo
<1>4. ASSUME NEW i \in 1 .. n, NEW r \in Refs, Assigns(t[i], r)
      PROVE  /\ r \notin Reserved /\ r \notin p
             /\ \A j \in 1 .. i - 1 : Adds(t[j], r)
                  => \E d \in j + 1 .. i - 1 : Drops(t[d], r)
  <2>1. i \in 1 .. Len(body) /\ Assigns(body[i], r)
    BY <1>1, <1>4
  <2>2. r \in LoopRefs(s[1].what)
    BY <2>1 DEF BodyInv
  <2>3. ASSUME NEW j \in 1 .. i - 1, Adds(t[j], r)
        PROVE  \E d \in j + 1 .. i - 1 : Drops(t[d], r)
    <3>1. j \in 1 .. n /\ Adds(body[j], r)
      BY <1>1, <2>3
    <3>2. PICK d \in j + 1 .. i - 1 : Drops(body[d], r)
      BY <2>1, <3>1 DEF BodyInv, RefTodo
    <3>3. d \in 1 .. n
      BY <1>1, <3>1, <3>2
    <3>4. QED  BY <1>1, <3>2, <3>3
  <2>4. QED  BY <1>3, <2>2, <2>3
<1>5. ASSUME NEW k \in 1 .. Len(s), NEW i \in Int, i = n + k,
             NEW r \in Refs, Assigns(t[i], r)
      PROVE  /\ r \notin Reserved
             /\ r \in p => \E d \in 1 .. i - 1 : Drops(t[d], r)
             /\ \A j \in 1 .. i - 1 : Adds(t[j], r)
                  => \E d \in j + 1 .. i - 1 : Drops(t[d], r)
  <2>1. /\ r \notin Reserved
        /\ r \in p => \E d \in 1 .. k - 1 : Drops(s[d], r)
        /\ \A j \in 1 .. k - 1 :
             Adds(s[j], r) => \E d \in j + 1 .. k - 1 : Drops(s[d], r)
    BY <1>2, <1>5 DEF RefTodo
  <2>2. ASSUME r \in p PROVE \E d \in 1 .. i - 1 : Drops(t[d], r)
    <3>1. PICK d \in 1 .. k - 1 : Drops(s[d], r)
      BY <2>1, <2>2
    <3>2. d \in 1 .. Len(s) /\ n + d \in 1 .. i - 1
      BY <1>1, <1>5, <3>1
    <3>3. QED  BY <1>2, <3>1, <3>2
  <2>3. ASSUME NEW l \in 1 .. k - 1, NEW j \in Int, j = n + l, Adds(s[l], r)
        PROVE  \E d \in j + 1 .. i - 1 : Drops(t[d], r)
    <3>1. PICK d \in l + 1 .. k - 1 : Drops(s[d], r)
      BY <2>1, <2>3
    <3>2. d \in 1 .. Len(s) /\ n + d \in j + 1 .. i - 1
      BY <1>1, <1>5, <2>3, <3>1
    <3>3. QED  BY <1>2, <3>1, <3>2
  <2>4. ASSUME NEW j \in 1 .. n, Adds(t[j], r)
        PROVE  \E d \in j + 1 .. i - 1 : Drops(t[d], r)
    <3>1. j \in 1 .. Len(body) /\ Adds(body[j], r)
      BY <1>1, <2>4
    <3>2. PICK d \in j + 1 .. n : Drops(body[d], r)
      BY <3>1 DEF BodyInv, Assigns
    <3>3. d \in 1 .. n /\ d \in j + 1 .. i - 1
      BY <1>1, <1>5, <3>1, <3>2
    <3>4. QED  BY <1>1, <1>5, <3>2, <3>3
  <2>5. ASSUME NEW j \in 1 .. i - 1, Adds(t[j], r)
        PROVE  \E d \in j + 1 .. i - 1 : Drops(t[d], r)
    <3>1. CASE j \in 1 .. n
      BY <2>4, <2>5, <3>1
    <3>2. CASE j > n
      <4> DEFINE l == j - n
      <4>1. /\ l \in 1 .. k - 1 /\ l \in 1 .. Len(s)
            /\ j \in Int /\ j = n + l
        BY <1>1, <1>5, <3>2
      <4>2. Adds(s[l], r)
        BY <1>2, <2>5, <4>1
      <4> HIDE DEF l
      <4>3. QED  BY <2>3, <4>1, <4>2
    <3>3. j \in 1 .. n \/ j > n
      BY <1>1
    <3>4. QED  BY <3>1, <3>2, <3>3
  <2>6. QED  BY <2>1, <2>2, <2>5
<1>6. ASSUME NEW i \in 1 .. Len(t), i > n
      PROVE  i - n \in 1 .. Len(s) /\ i = n + (i - n)
  BY <1>1, <1>6
<1>7. \A i \in 1 .. Len(t) : i \in 1 .. n \/ i > n
  BY <1>1
<1>8. ASSUME NEW i \in 1 .. Len(t), NEW r \in Refs, Assigns(t[i], r)
      PROVE  /\ r \notin Reserved
             /\ r \in p => \E d \in 1 .. i - 1 : Drops(t[d], r)
             /\ \A j \in 1 .. i - 1 : Adds(t[j], r)
                  => \E d \in j + 1 .. i - 1 : Drops(t[d], r)
  <2>1. CASE i \in 1 .. n
    BY <1>4, <1>8, <2>1
  <2>2. CASE i > n
    <3> DEFINE k == i - n
    <3>1. k \in 1 .. Len(s) /\ i \in Int /\ i = n + k
      BY <1>1, <1>6, <2>2
    <3> HIDE DEF k, n
    <3>2. QED  BY <1>5, <1>8, <3>1
  <2>3. QED  BY <1>7, <2>1, <2>2
<1>9. QED  BY <1>8 DEF RefTodo
-----------------------------------------------------------------------------
(* What each step makes and deletes.                                       *)
LEMMA StepRefs ==
  /\ \A w, r : /\ Adds(New(w), r) <=> r = w
               /\ Adds(Create(w), r) <=> r = w
               /\ Adds(Element(w), r) <=> r = w
               /\ ~Adds(NullElement(w), r)
               /\ Drops(Delete(w), w)
  /\ \A w, r : /\ Assigns(New(w), r) <=> r = w
               /\ Assigns(Create(w), r) <=> r = w
               /\ Assigns(Element(w), r) <=> r = w
               /\ Assigns(NullElement(w), r) <=> r = w
               /\ ~Assigns(Get(w), r) /\ ~Assigns(Length(w), r)
               /\ ~Assigns(SetField(w), r) /\ ~Assigns(Core(w), r)
               /\ ~Assigns(Reset(w), r) /\ ~Assigns(Delete(w), r)
  /\ \A r : ~Assigns(SetElement, r) /\ ~Assigns(Store, r)
  /\ \A b, n, r : Assigns(Loop(b, n), r) <=> r \in LoopRefs(b)
  /\ \A step, r : Adds(step, r) => Assigns(step, r)
<1>1. \A d, w : Step(d, w).do = d /\ Step(d, w).what = w
  BY DEF Step
<1>2. \A b, n : Loop(b, n).do = "loop" /\ Loop(b, n).what = b
  BY DEF Loop
<1>3. \A w, r : /\ Adds(New(w), r) <=> r = w
                /\ Adds(Create(w), r) <=> r = w
                /\ Adds(Element(w), r) <=> r = w
                /\ ~Adds(NullElement(w), r)
                /\ Drops(Delete(w), w)
  BY <1>1 DEF Adds, Drops, New, Create, Element, NullElement, Delete
<1>4. \A w, r : /\ Assigns(New(w), r) <=> r = w
                /\ Assigns(Create(w), r) <=> r = w
                /\ Assigns(Element(w), r) <=> r = w
                /\ Assigns(NullElement(w), r) <=> r = w
  BY <1>1 DEF Assigns, Adds, New, Create, Element, NullElement
<1>5. \A w, r : /\ ~Assigns(Get(w), r) /\ ~Assigns(Length(w), r)
                /\ ~Assigns(SetField(w), r) /\ ~Assigns(Core(w), r)
  BY <1>1 DEF Assigns, Adds, Get, Length, SetField, Core
<1>6. \A w, r : ~Assigns(Reset(w), r) /\ ~Assigns(Delete(w), r)
  BY <1>1 DEF Assigns, Adds, Reset, Delete
<1>7. \A r : ~Assigns(SetElement, r) /\ ~Assigns(Store, r)
  BY <1>1 DEF Assigns, Adds, SetElement, Store
<1>8. \A b, n, r : Assigns(Loop(b, n), r) <=> r \in LoopRefs(b)
  BY <1>2 DEF Assigns, Adds
<1>9. \A step, r : Adds(step, r) => Assigns(step, r)
  BY DEF Assigns
<1>10. QED  BY <1>3, <1>4, <1>5, <1>6, <1>7, <1>8, <1>9

(* A variable that gets a value once need not be deleted.                  *)
LEMMA MadeOnce ==
  ASSUME NEW s \in Seq(Steps),
         \A i \in 1 .. Len(s), r \in Refs : Assigns(s[i], r) => r \notin Reserved,
         \A i \in 1 .. Len(s), j \in 1 .. Len(s), r \in Refs :
           Assigns(s[i], r) /\ Assigns(s[j], r) => i = j
  PROVE  RefTodo(s, {})
<1>1. \A i \in 1 .. Len(s) : \A j \in 1 .. i - 1 : j \in 1 .. Len(s) /\ j # i
  OBVIOUS
<1>2. \A step, r : Adds(step, r) => Assigns(step, r)
  BY StepRefs
<1>3. QED  BY <1>1, <1>2 DEF RefTodo

LEMMA SubqueryRefsDeleted == BodyInv(SubqueryBody, "subquery")
<1> DEFINE s == SubqueryBody
<1>1. /\ Len(s) = 14
      /\ s[1] = New("logtypeQuery") /\ s[2] = Core("RuntimeException")
      /\ s[3] = New("dictVarBounds") /\ s[4] = New("encodedVars")
      /\ s[5] = New("placeholders") /\ s[6] = New("varBounds")
      /\ s[7] = Create("subquery") /\ s[8] = SetElement
      /\ s[9] = Delete("logtypeQuery") /\ s[10] = Delete("dictVarBounds")
      /\ s[11] = Delete("encodedVars") /\ s[12] = Delete("placeholders")
      /\ s[13] = Delete("varBounds") /\ s[14] = Delete("subquery")
  BY DEF SubqueryBody
<1>2. s \in Seq(Steps)
  BY SubqueryBodyQuiet, QuietSequence
<1> HIDE DEF s
<1>3. ASSUME NEW i \in 1 .. Len(s), NEW r \in Refs, Assigns(s[i], r)
      PROVE  \/ i = 1 /\ r = "logtypeQuery"
             \/ i = 3 /\ r = "dictVarBounds"
             \/ i = 4 /\ r = "encodedVars"
             \/ i = 5 /\ r = "placeholders"
             \/ i = 6 /\ r = "varBounds"
             \/ i = 7 /\ r = "subquery"
  BY <1>1, <1>3, StepRefs
<1>4. /\ Drops(s[9], "logtypeQuery") /\ Drops(s[10], "dictVarBounds")
      /\ Drops(s[11], "encodedVars") /\ Drops(s[12], "placeholders")
      /\ Drops(s[13], "varBounds") /\ Drops(s[14], "subquery")
  <2>1. \A w : Drops(Delete(w), w)
    BY StepRefs
  <2>2. QED  BY <1>1, <2>1
<1>5. RefTodo(s, {})
  BY <1>2, <1>3, MadeOnce DEF Reserved
<1>6. ASSUME NEW i \in 1 .. Len(s), NEW r \in Refs, Assigns(s[i], r)
      PROVE  r \in LoopRefs("subquery") /\ \E d \in i + 1 .. Len(s) : Drops(s[d], r)
  BY <1>1, <1>3, <1>4, <1>6 DEF LoopRefs, SubqueryRefs
<1>7. QED  BY <1>5, <1>6 DEF BodyInv, s

LEMMA RowRefsDeleted == \A body \in RowBodies : BodyInv(body, "row")
<1>1. BodyInv(<<NullElement("rowVars"), Store>>, "row")
  <2> DEFINE s == <<NullElement("rowVars"), Store>>
  <2>1. ASSUME NEW i \in 1 .. Len(s), NEW r \in Refs, Assigns(s[i], r)
        PROVE  i = 1 /\ r = "rowVars" /\ ~Adds(s[i], r)
    BY <2>1, StepRefs
  <2>2. s \in Seq(Steps)
    <3>1. s \in RowBodies
      BY DEF RowBodies
    <3> HIDE DEF s
    <3>2. QED  BY <3>1, RowBodiesWellFormed DEF WellFormed, TodoInv
  <2> HIDE DEF s
  <2>3. RefTodo(s, {})
    BY <2>1, <2>2, MadeOnce DEF Reserved
  <2>4. QED  BY <2>1, <2>3 DEF BodyInv, LoopRefs, RowArrays, s
<1>2. ASSUME NEW s \in RowBodies, NEW e \in {4, 5}, Len(s) = e + 7,
             s[1] = Element("rowVars"), s[2] = Length("rowVars"),
             s[3] = Get("rowVars"),
             \/ e = 4 /\ s[4] = NullElement("rowLogtype")
             \/ e = 5 /\ s[4] = Element("rowLogtype")
                      /\ s[5] = Length("rowLogtype"),
             s[e + 1] = Get("rowLogtype"), s[e + 2] = Core("IOException"),
             s[e + 3] = Store,
             s[e + 4] = Reset("rowLogtype"), s[e + 5] = Delete("rowLogtype"),
             s[e + 6] = Reset("rowVars"), s[e + 7] = Delete("rowVars")
      PROVE  BodyInv(s, "row")
  <2>1. ASSUME NEW i \in 1 .. Len(s), NEW r \in Refs, Assigns(s[i], r)
        PROVE  \/ i = 1 /\ r = "rowVars"
               \/ i = 4 /\ r = "rowLogtype"
    <3>1. /\ ~Assigns(Store, r)
          /\ \A w : /\ ~Assigns(Get(w), r) /\ ~Assigns(Length(w), r)
                    /\ ~Assigns(Core(w), r)
                    /\ ~Assigns(Reset(w), r) /\ ~Assigns(Delete(w), r)
                    /\ Assigns(Element(w), r) => r = w
                    /\ Assigns(NullElement(w), r) => r = w
      BY StepRefs
    <3>2. CASE i \in 1 .. 3
      BY <1>2, <2>1, <3>1, <3>2
    <3>3. CASE i = 4
      BY <1>2, <2>1, <3>1, <3>3
    <3>4. CASE i = 5 /\ e = 5
      BY <1>2, <2>1, <3>1, <3>4
    <3>5. CASE i \in e + 1 .. e + 7
      <4>1. \/ i = e + 1 \/ i = e + 2 \/ i = e + 3 \/ i = e + 4
            \/ i = e + 5 \/ i = e + 6 \/ i = e + 7
        BY <3>5
      <4>2. ~Assigns(s[i], r)
        BY <1>2, <3>1, <4>1
      <4>3. QED  BY <2>1, <4>2
    <3>6. QED  BY <1>2, <3>2, <3>3, <3>4, <3>5
  <2>2. Drops(s[e + 5], "rowLogtype") /\ Drops(s[e + 7], "rowVars")
    <3>1. \A w : Drops(Delete(w), w)
      BY StepRefs
    <3>2. QED  BY <1>2, <3>1
  <2>3. s \in Seq(Steps)
    BY RowBodiesWellFormed DEF WellFormed, TodoInv
  <2>4. RefTodo(s, {})
    BY <2>1, <2>3, MadeOnce DEF Reserved
  <2>5. ASSUME NEW i \in 1 .. Len(s), NEW r \in Refs, Assigns(s[i], r)
        PROVE  r \in LoopRefs("row") /\ \E d \in i + 1 .. Len(s) : Drops(s[d], r)
    BY <1>2, <2>1, <2>2, <2>5 DEF LoopRefs, RowArrays
  <2> HIDE DEF BodyInv
  <2>6. QED  BY <2>4, <2>5 DEF BodyInv
<1> DEFINE null == <<Element("rowVars"), Length("rowVars"), Get("rowVars"),
                     NullElement("rowLogtype"), Get("rowLogtype"), Core("IOException"), Store,
                     Reset("rowLogtype"), Delete("rowLogtype"),
                     Reset("rowVars"), Delete("rowVars")>>
           both == <<Element("rowVars"), Length("rowVars"), Get("rowVars"),
                     Element("rowLogtype"), Length("rowLogtype"),
                     Get("rowLogtype"), Core("IOException"), Store,
                     Reset("rowLogtype"), Delete("rowLogtype"),
                     Reset("rowVars"), Delete("rowVars")>>
<1>3. RowBodies = {<<NullElement("rowVars"), Store>>, null, both}
  BY DEF RowBodies, RowStart, RowMatch, RowEnd
<1>4. BodyInv(null, "row")
  <2>1. null \in RowBodies
    BY <1>3
  <2>2. QED  BY <1>2, <2>1
<1>5. BodyInv(both, "row")
  <2>1. both \in RowBodies
    BY <1>3
  <2>2. QED  BY <1>2, <2>1
<1>6. QED  BY <1>1, <1>3, <1>4, <1>5

(* No program makes a reference twice, except in its loop.                 *)
LEMMA ProgramRefs == \A s \in Programs : RefTodo(s, {})
<1> SUFFICES ASSUME NEW s \in Programs PROVE RefTodo(s, {})
  OBVIOUS
<1>1. s \in Seq(Steps)
  BY ProgramsInv DEF TodoInv
<1> USE DEF Reserved
<1>2. CASE s \in {validate_variable_handling_rule_versions, createNativeState,
                  jni_wildcard_query_matches_any_encoded_var}
  <2>1. \A i \in 1 .. Len(s), r \in Refs : ~Assigns(s[i], r)
    BY <1>2, StepRefs
       DEF validate_variable_handling_rule_versions, createNativeState,
           jni_wildcard_query_matches_any_encoded_var
  <2>2. QED  BY <1>1, <2>1, MadeOnce
<1>3. CASE s \in {decode_message_native, encode_preamble, encode_log_event}
  <2>1. ASSUME NEW i \in 1 .. Len(s), NEW r \in Refs, Assigns(s[i], r)
        PROVE  i = Len(s) /\ r = "result"
    <3>1. CASE s = decode_message_native
      BY <2>1, <3>1, StepRefs DEF decode_message_native
    <3>2. CASE s = encode_preamble
      BY <2>1, <3>2, StepRefs DEF encode_preamble
    <3>3. CASE s = encode_log_event
      BY <2>1, <3>3, StepRefs DEF encode_log_event
    <3>4. QED  BY <1>3, <3>1, <3>2, <3>3
  <2>2. QED  BY <1>1, <2>1, MadeOnce
<1>4. CASE \E n \in 0 .. MaxIterations : s = encode_native(n)
  <2>1. PICK n \in 0 .. MaxIterations : s = encode_native(n)
    BY <1>4
  <2>2. ASSUME NEW i \in 1 .. Len(s), NEW r \in Refs, Assigns(s[i], r)
        PROVE  \/ i = 2 /\ r = "cleanQuery"
               \/ i = 5 /\ r = "result"
               \/ i = 6 /\ r \in SubqueryRefs
    BY <2>1, <2>2, StepRefs DEF encode_native, LoopRefs
  <2>3. QED  BY <1>1, <2>2, MadeOnce DEF SubqueryRefs
<1>5. CASE \E n \in 0 .. MaxIterations :
             s = batch_encoded_vars_wildcard_match_native(n)
  <2>1. PICK n \in 0 .. MaxIterations :
          s = batch_encoded_vars_wildcard_match_native(n)
    BY <1>5
  <2>2. ASSUME NEW i \in 1 .. Len(s), NEW r \in Refs, Assigns(s[i], r)
        PROVE  i = 5 /\ r \in RowArrays
    BY <2>1, <2>2, StepRefs DEF batch_encoded_vars_wildcard_match_native, LoopRefs
  <2>3. QED  BY <1>1, <2>2, MadeOnce DEF RowArrays
<1>6. CASE \E d \in BOOLEAN, e \in BOOLEAN : s = encode_message_native(d, e)
  <2>1. PICK d \in BOOLEAN, e \in BOOLEAN : s = encode_message_native(d, e)
    BY <1>6
  <2>2. ASSUME NEW i \in 1 .. Len(s), NEW r \in Refs, Assigns(s[i], r)
        PROVE  \/ i = 4 /\ r = "logtype"
               \/ i = 6 /\ d /\ r = "dictVarBounds"
               \/ i = (IF d THEN 8 ELSE 6) /\ r = "encodedVars"
    <3> DEFINE start == <<Get("message"), Length("message"),
                          Core("IOException"), New("logtype"),
                          SetField("logtype")>>
               bounds == <<New("dictVarBounds"), SetField("dictVarBounds")>>
               encoded == <<New("encodedVars"), SetField("encodedVars")>>
    <3>1. s = start \o (IF d THEN bounds ELSE <<>>) \o (IF e THEN encoded ELSE <<>>)
      BY <2>1 DEF encode_message_native
    <3>2. \A m \in 1 .. 5, x \in Refs :
            Assigns(start[m], x) => m = 4 /\ x = "logtype"
      BY StepRefs
    <3>3. \A m \in 1 .. 2, x \in Refs :
            /\ Assigns(bounds[m], x) => m = 1 /\ x = "dictVarBounds"
            /\ Assigns(encoded[m], x) => m = 1 /\ x = "encodedVars"
      BY StepRefs
    <3>4. CASE ~d /\ ~e
      <4>1. s = start \o <<>> \o <<>>
        BY <3>1, <3>4
      <4>2. Len(s) = 5 /\ \A m \in 1 .. 5 : s[m] = start[m]
        BY <4>1
      <4> HIDE DEF start
      <4>3. QED  BY <2>2, <3>2, <4>2
    <3>5. CASE d /\ ~e
      <4>1. s = start \o bounds \o <<>>
        BY <3>1, <3>5
      <4>2. Len(s) = 7 /\ (\A m \in 1 .. 5 : s[m] = start[m])
            /\ s[6] = bounds[1] /\ s[7] = bounds[2]
        BY <4>1
      <4> HIDE DEF start, bounds
      <4>3. QED  BY <2>2, <3>2, <3>3, <3>5, <4>2
    <3>6. CASE ~d /\ e
      <4>1. s = start \o <<>> \o encoded
        BY <3>1, <3>6
      <4>2. Len(s) = 7 /\ (\A m \in 1 .. 5 : s[m] = start[m])
            /\ s[6] = encoded[1] /\ s[7] = encoded[2]
        BY <4>1
      <4> HIDE DEF start, encoded
      <4>3. QED  BY <2>2, <3>2, <3>3, <3>6, <4>2
    <3>7. CASE d /\ e
      <4>1. s = start \o bounds \o encoded
        BY <3>1, <3>7
      <4>2. Len(s) = 9 /\ (\A m \in 1 .. 5 : s[m] = start[m])
            /\ s[6] = bounds[1] /\ s[7] = bounds[2]
            /\ s[8] = encoded[1] /\ s[9] = encoded[2]
        BY <4>1
      <4> HIDE DEF start, bounds, encoded
      <4>3. QED  BY <2>2, <3>2, <3>3, <3>7, <4>2
    <3>8. QED  BY <3>4, <3>5, <3>6, <3>7
  <2>3. QED  BY <1>1, <2>2, MadeOnce
<1>7. QED  BY <1>2, <1>3, <1>4, <1>5, <1>6 DEF Programs

(* What an empty program needs.                                            *)
LEMMA NothingLeft == \A p : RefTodo(<<>>, p)
BY DEF RefTodo

-----------------------------------------------------------------------------
(* The steps.                                                              *)
LEMMA AddedRefs ==
  ASSUME refs \in [Refs -> {0, 1}], NEW rs, AddRefs(rs),
         \A r \in Refs : r \in rs => refs[r] = 0
  PROVE  /\ refs' \in [Refs -> {0, 1}]
         /\ \A r \in Refs : refs'[r] = IF r \in rs THEN 1 ELSE refs[r]
         /\ nulls' = nulls \ rs
BY DEF AddRefs

(* A step that goes on.                                                    *)
LEMMA ProceedRefs ==
  ASSUME RefInv, ProgramInv, phase = "running", todo # <<>>, Proceed,
         refs' \in [Refs -> {0, 1}],
         \A r \in Refs : r \in nulls' => refs'[r] = 0,
         \A r \in Refs : refs'[r] # 0 => \/ refs[r] # 0 /\ ~Drops(todo[1], r)
                                         \/ Adds(todo[1], r)
  PROVE  RefInv'
<1> DEFINE q == {r \in Refs : refs'[r] # 0}
<1>1. todo \in Seq(Steps)
  BY DEF ProgramInv, TodoInv
<1>2. RefTodo(Tail(todo), q)
  BY <1>1, TailRefs DEF RefInv, Present
<1>3. 1 \in 1 .. Len(todo)
  BY <1>1
<1>4. \A r \in Reserved : r \in Refs /\ ~Adds(todo[1], r)
  BY <1>3 DEF RefInv, RefTodo, Assigns, Reserved, Refs
<1>5. refs'["exception"] = 0 /\ refs'["class"] = 0
  BY <1>4 DEF RefInv, Reserved
<1>6. todo' = Tail(todo) /\ phase' = "running"
  BY DEF Proceed
<1>7. RefTodo(todo, Present)'
  <2>1. RefTodo(todo', q)
    BY <1>2, <1>6
  <2>2. Present' = q
    BY DEF Present
  <2>3. RefTodo(todo', Present')
    BY <2>1, <2>2
  <2>4. QED  BY <2>3 DEF RefTodo, Assigns, Adds, Drops
<1>8. QED  BY <1>5, <1>6, <1>7 DEF RefInv

(* A step that throws: ExceptionOccurred's reference is the frame's last.  *)
LEMMA ThrowRefs ==
  ASSUME phase' \in {"unwinding", "findClass"}, todo' = <<>>,
         refs' \in [Refs -> {0, 1}], refs'["class"] = 0,
         \A r \in Refs : r \in nulls' => refs'[r] = 0
  PROVE  RefInv'
<1>1. RefTodo(todo, Present)'
  BY DEF RefTodo, Assigns, Adds, Drops, Present
<1>2. QED  BY <1>1 DEF RefInv

LEMMA ThrowAdding ==
  ASSUME phase' \in {"unwinding", "findClass"}, todo' = <<>>,
         refs \in [Refs -> {0, 1}], refs["class"] = 0,
         \A r \in Refs : r \in nulls => refs[r] = 0,
         NEW rs, AddRefs(rs), "class" \notin rs,
         \A r \in Refs : r \in rs => refs[r] = 0
  PROVE  RefInv'
<1>1. /\ refs' \in [Refs -> {0, 1}]
      /\ \A r \in Refs : refs'[r] = IF r \in rs THEN 1 ELSE refs[r]
      /\ nulls' = nulls \ rs
  BY AddedRefs
<1>2. refs'["class"] = 0 /\ \A r \in Refs : r \in nulls' => refs'[r] = 0
  BY <1>1 DEF Refs
<1>3. QED  BY <1>1, <1>2, ThrowRefs

LEMMA HeadRefs ==
  ASSUME RefInv, ProgramInv, phase = "running", todo # <<>>
  PROVE  /\ Head(todo) = todo[1]
         /\ \A r \in Refs : Assigns(todo[1], r) => refs[r] = 0 /\ r \notin Reserved
         /\ refs["exception"] = 0 /\ refs["class"] = 0
         /\ \A r \in Refs : r \in nulls => refs[r] = 0
         /\ refs \in [Refs -> {0, 1}] /\ Reserved \subseteq Refs
<1>1. 1 \in 1 .. Len(todo)
  BY DEF ProgramInv, TodoInv
<1>2. \A d \in 1 .. 1 - 1 : FALSE
  OBVIOUS
<1>3. ASSUME NEW r \in Refs, Assigns(todo[1], r)
      PROVE  refs[r] = 0 /\ r \notin Reserved
  BY <1>1, <1>2, <1>3 DEF RefInv, RefTodo, Present
<1>4. QED  BY <1>3 DEF RefInv, Reserved, Refs

LEMMA MakingStep ==
  ASSUME RefInv, ProgramInv, NewArray \/ CreateObject \/ GetElement
  PROVE  RefInv'
<1> USE DEF At, What
<1>1. phase = "running" /\ todo # <<>>
  BY DEF NewArray, CreateObject, GetElement
<1>2. /\ Head(todo) = todo[1]
      /\ \A r \in Refs : Assigns(todo[1], r) => refs[r] = 0 /\ r \notin Reserved
      /\ refs["exception"] = 0 /\ refs["class"] = 0
      /\ \A r \in Refs : r \in nulls => refs[r] = 0
      /\ refs \in [Refs -> {0, 1}] /\ Reserved \subseteq Refs
  BY <1>1, HeadRefs
<1>3. \A r \in Refs : ~Drops(todo[1], r)
  BY <1>2 DEF NewArray, CreateObject, GetElement, Drops
<1>4. CASE Proceed
  <2>1. \/ /\ refs' = refs
           /\ nulls' = nulls \cup {todo[1].what} /\ todo[1].do = "nullElement"
        \/ AddRefs({todo[1].what}) /\ todo[1].do \in {"new", "create", "element"}
    BY <1>2, <1>4 DEF NewArray, CreateObject, GetElement, Occurred, JvmThrows,
                      StdThrows, JavaThrows, Proceed, AddRef
  <2>2. CASE /\ refs' = refs
             /\ nulls' = nulls \cup {todo[1].what} /\ todo[1].do = "nullElement"
    <3>1. \A r \in Refs : r = todo[1].what => Assigns(todo[1], r)
      BY <2>2 DEF Assigns
    <3>2. \A r \in Refs : r \in nulls' => refs'[r] = 0
      BY <1>2, <2>2, <3>1
    <3>3. QED  BY <1>1, <1>2, <1>3, <1>4, <2>2, <3>2, ProceedRefs
  <2>3. CASE AddRefs({todo[1].what}) /\ todo[1].do \in {"new", "create", "element"}
    <3>1. \A r \in Refs : r \in {todo[1].what} => Adds(todo[1], r)
      BY <2>3 DEF Adds
    <3>2. \A r \in Refs : r \in {todo[1].what} => refs[r] = 0
      BY <1>2, <3>1 DEF Assigns
    <3>3. /\ refs' \in [Refs -> {0, 1}]
          /\ \A r \in Refs :
               refs'[r] = IF r \in {todo[1].what} THEN 1 ELSE refs[r]
          /\ nulls' = nulls \ {todo[1].what}
      BY <1>2, <2>3, <3>2, AddedRefs
    <3>4. \A r \in Refs : r \in nulls' => refs'[r] = 0
      BY <1>2, <3>3
    <3>5. QED  BY <1>1, <1>3, <1>4, <3>1, <3>3, <3>4, ProceedRefs
  <2>4. QED  BY <2>1, <2>2, <2>3
<1>5. CASE ~Proceed
  <2>1. /\ phase' \in {"unwinding", "findClass"} /\ todo' = <<>>
        /\ \/ refs' = refs /\ nulls' = nulls
           \/ AddRefs({"exception"})
           \/ AddRefs({todo[1].what, "exception"}) /\ todo[1].do = "new"
    BY <1>2, <1>5 DEF NewArray, CreateObject, GetElement, Occurred, JvmThrows,
                      StdThrows, JavaThrows, AddRef
  <2>2. CASE refs' = refs /\ nulls' = nulls
    BY <1>2, <2>1, <2>2, ThrowRefs
  <2>3. CASE AddRefs({"exception"})
    BY <1>2, <2>1, <2>3, ThrowAdding
  <2>4. CASE AddRefs({todo[1].what, "exception"}) /\ todo[1].do = "new"
    <3>1. \A r \in Refs : r = todo[1].what => Assigns(todo[1], r)
      BY <2>4 DEF Adds, Assigns
    <3>2. /\ \A r \in Refs : r \in {todo[1].what, "exception"} => refs[r] = 0
          /\ "class" \notin {todo[1].what, "exception"}
      BY <1>2, <3>1 DEF Reserved
    <3>3. QED  BY <1>2, <2>1, <2>4, <3>2, ThrowAdding
  <2>5. QED  BY <2>1, <2>2, <2>3, <2>4
<1>6. QED  BY <1>4, <1>5

LEMMA OtherStep ==
  ASSUME RefInv, ProgramInv,
         \/ GetNull \/ GetElements \/ SetArrayElement \/ PlainCall \/ CallCore
         \/ StoreResult \/ ResetArray
  PROVE  RefInv'
<1> USE DEF At, What, GetNull, GetElements, SetArrayElement, PlainCall, CallCore,
            StoreResult, ResetArray
<1>1. phase = "running" /\ todo # <<>>
  OBVIOUS
<1>2. /\ Head(todo) = todo[1]
      /\ refs["exception"] = 0 /\ refs["class"] = 0
      /\ \A r \in Refs : r \in nulls => refs[r] = 0
      /\ refs \in [Refs -> {0, 1}] /\ Reserved \subseteq Refs
  BY <1>1, HeadRefs
<1>3. \A r \in Refs : ~Drops(todo[1], r)
  BY <1>2 DEF Drops
<1>4. CASE Proceed
  <2>1. refs' = refs /\ nulls' = nulls
    BY <1>4, <1>1 DEF Proceed, Occurred, JvmThrows, StdThrows, JavaThrows
  <2>2. QED  BY <1>1, <1>2, <1>3, <1>4, <2>1, ProceedRefs
<1>5. CASE ~Proceed
  <2>1. /\ phase' \in {"unwinding", "findClass"} /\ todo' = <<>>
        /\ (refs' = refs /\ nulls' = nulls) \/ AddRefs({"exception"})
    BY <1>5 DEF Occurred, JvmThrows, StdThrows, JavaThrows, AddRef
  <2>2. CASE refs' = refs /\ nulls' = nulls
    BY <1>2, <2>1, <2>2, ThrowRefs
  <2>3. CASE AddRefs({"exception"})
    BY <1>2, <2>1, <2>3, ThrowAdding
  <2>4. QED  BY <2>1, <2>2, <2>3
<1>6. QED  BY <1>4, <1>5

(* The reference that is deleted is there, or null: UseInv says so.        *)
LEMMA DroppingStep ==
  ASSUME RefInv, ProgramInv, UseInv, DeleteLocalRef
  PROVE  RefInv'
<1> USE DEF At, What, DeleteLocalRef
<1>1. phase = "running" /\ todo # <<>> /\ Proceed
  OBVIOUS
<1>2. /\ Head(todo) = todo[1] /\ refs \in [Refs -> {0, 1}]
      /\ \A r \in Refs : r \in nulls => refs[r] = 0
  BY <1>1, HeadRefs
<1>3. todo[1].do = "delete" /\ nulls' = nulls
  BY <1>2
<1> DEFINE w == todo[1].what
<1>4. w \in Refs => refs[w] > 0 \/ w \in nulls
  BY <1>1, <1>3, HeadUses DEF Passes
<1> HIDE DEF w
<1>5. CASE w \in nulls
  <2>1. refs' = refs
    BY <1>2, <1>5 DEF w
  <2>2. \A r \in Refs : refs'[r] # 0 => refs[r] # 0 /\ ~Drops(todo[1], r)
    BY <1>2, <1>5, <2>1 DEF Drops, w
  <2>3. QED  BY <1>1, <1>2, <1>3, <2>1, <2>2, ProceedRefs
<1>6. CASE w \notin nulls
  <2>1. refs' = [refs EXCEPT ![w] = @ - 1]
    BY <1>2, <1>6 DEF w
  <2>2. w \in Refs => refs[w] = 1
    BY <1>2, <1>4, <1>6
  <2>3. /\ refs' \in [Refs -> {0, 1}]
        /\ \A r \in Refs : refs'[r] = IF r = w THEN 0 ELSE refs[r]
    <3>1. CASE w \in Refs
      <4>1. refs[w] - 1 = 0
        BY <2>2, <3>1
      <4>2. \A r \in Refs : refs'[r] = IF r = w THEN 0 ELSE refs[r]
        BY <1>2, <2>1, <3>1, <4>1
      <4>3. refs' \in [Refs -> {0, 1}]
        BY <1>2, <2>1, <3>1, <4>1
      <4>4. QED  BY <4>2, <4>3
    <3>2. CASE w \notin Refs
      BY <1>2, <2>1, <3>2
    <3>3. QED  BY <3>1, <3>2
  <2>4. \A r \in Refs : refs'[r] # 0 => refs[r] # 0 /\ ~Drops(todo[1], r)
    BY <2>3 DEF Drops, w
  <2>5. \A r \in Refs : r \in nulls' => refs'[r] = 0
    BY <1>2, <1>3, <2>3
  <2>6. QED  BY <1>1, <2>3, <2>4, <2>5, ProceedRefs
<1>7. QED  BY <1>5, <1>6

LEMMA LoopStep ==
  ASSUME RefInv, ProgramInv, Iterate
  PROVE  RefInv'
<1> USE DEF At, What
<1>1. /\ phase = "running" /\ todo # <<>> /\ Head(todo) = todo[1]
      /\ todo[1].do = "loop" /\ phase' = phase /\ refs' = refs /\ nulls' = {}
      /\ UNCHANGED <<exception, toThrow, pending>>
  BY HeadRefs DEF Iterate
<1>2. /\ refs \in [Refs -> {0, 1}]
      /\ refs["exception"] = 0 /\ refs["class"] = 0
  BY <1>1, HeadRefs
<1>3. /\ todo \in Seq(Steps) /\ Tail(todo) \in Seq(Steps)
      /\ todo[1].what \in Operands /\ todo[1].left \in Nat
  <2>1. todo \in Seq(Steps)
    BY DEF ProgramInv, TodoInv
  <2>2. todo[1] \in Steps /\ Tail(todo) \in Seq(Steps)
    BY <1>1, <2>1
  <2>3. \A x \in Steps : x.left \in Nat /\ x.what \in Operands
    BY DEF Steps
  <2>4. QED  BY <2>1, <2>2, <2>3
<1>4. CASE todo' = Tail(todo)
  <2>1. \A r \in Refs : ~Drops(todo[1], r)
    BY <1>1 DEF Drops
  <2>2. QED  BY <1>1, <1>2, <1>4, <2>1, ProceedRefs DEF Proceed
<1>5. CASE todo[1].left # 0
  <2> DEFINE next == Loop(todo[1].what, todo[1].left - 1)
  <2>1. PICK body \in Bodies(todo[1].what) : todo' = body \o <<next>> \o Tail(todo)
    BY <1>1, <1>5 DEF Iterate
  <2>2. todo[1].left - 1 \in Nat
    BY <1>3, <1>5
  <2>3. next \in Steps /\ next.do = "loop" /\ next.what = todo[1].what
    BY <1>3, <2>2 DEF Loop, Steps, Calls
  <2>4. body \in Seq(Steps)
    BY RowBodiesWellFormed, SubqueryBodyQuiet, QuietSequence
       DEF Bodies, WellFormed, TodoInv
  <2>5. BodyInv(body, todo[1].what)
    <3>1. CASE todo[1].what = "row"
      BY <3>1, RowRefsDeleted DEF Bodies
    <3>2. CASE todo[1].what # "row"
      BY <3>2, SubqueryRefsDeleted DEF Bodies, BodyInv, LoopRefs
    <3>3. QED  BY <3>1, <3>2
  <2> HIDE DEF next
  <2>6. todo' = body \o (<<next>> \o Tail(todo))
    <3>1. <<next>> \in Seq(Steps)
      BY <2>3
    <3>2. QED  BY <1>3, <2>1, <2>4, <3>1, ConcatAssociative
  <2>7. RefTodo(todo', Present)
    BY <1>1, <1>3, <2>3, <2>4, <2>5, <2>6, LoopRefsKept DEF RefInv
  <2>8. RefTodo(todo, Present)'
    <3>1. Present' = Present
      BY <1>1 DEF Present
    <3>2. RefTodo(todo', Present')
      BY <2>7, <3>1
    <3>3. QED  BY <3>2 DEF RefTodo, Assigns, Adds, Drops
  <2>9. QED  BY <1>1, <1>2, <2>8 DEF RefInv
<1>6. QED  BY <1>1, <1>4, <1>5 DEF Iterate

(* Every step keeps it: a call starts with no references and ends with none*)
(* left, since they go with its frame.                                     *)
LEMMA StepRefInv ==
  ASSUME RefInv, ProgramInv, UseInv, [Next]_vars
  PROVE  RefInv'
<1>1. CASE UNCHANGED vars
  BY <1>1 DEF vars, RefInv, RefTodo, Assigns, Adds, Drops, Present
<1>2. CASE RunStep
  BY <1>2, MakingStep, OtherStep, DroppingStep, LoopStep DEF RunStep
<1>3. NoRefs \in [Refs -> {0, 1}] /\ \A r \in Refs : NoRefs[r] = 0
  BY DEF NoRefs
<1>4. CASE CallNative
  <2>1. /\ refs' = NoRefs /\ nulls' = nulls
        /\ phase' = "running" /\ todo' \in Programs
    BY <1>4 DEF CallNative, RefInv
  <2>2. Present' = {}
    BY <1>3, <2>1 DEF Present
  <2>3. RefTodo(todo', Present')
    BY <2>1, <2>2, ProgramRefs
  <2>4. RefTodo(todo, Present)'
    BY <2>3 DEF RefTodo, Assigns, Adds, Drops
  <2>5. QED  BY <1>3, <2>1, <2>4 DEF RefInv, Refs
<1>5. CASE Unwind \/ CatchAll \/ FindClass \/ ThrowNew \/ DeleteClassRef
  <2>1. todo = <<>> /\ todo' = <<>>
    BY <1>5 DEF Unwind, CatchAll, FrameEnds, FindClass, ThrowNew, DeleteClassRef,
                ProgramInv
  <2>2. RefTodo(todo, Present)'
    BY <2>1 DEF RefTodo, Assigns, Adds, Drops, Present
  <2>3. /\ refs' \in [Refs -> {0, 1}]
        /\ \A r \in Refs : r \in nulls' => refs'[r] = 0
        /\ phase' # "running"
        /\ phase' = "java" => refs' = NoRefs
        /\ phase' \in {"unwinding", "findClass"} => refs'["class"] = 0
        /\ phase' \in {"throwNew", "deleteClass"} => refs'["class"] = 1
    <3> USE DEF RefInv
    <3>1. "class" \in Refs
      BY DEF Refs
    <3>2. CASE Unwind
      BY <3>2 DEF Unwind, FrameEnds
    <3>3. CASE CatchAll
      BY <1>3, <3>3 DEF CatchAll, FrameEnds, Return
    <3>4. CASE FindClass
      <4>1. CASE phase' = "throwNew" /\ AddRefs({"class"})
        BY <3>1, <3>4, <4>1, AddedRefs DEF FindClass
      <4>2. CASE Thrown
        BY <1>3, <3>4, <4>2 DEF FindClass, Thrown, Return
      <4>3. QED  BY <3>4, <4>1, <4>2 DEF FindClass, AddRef
    <3>5. CASE ThrowNew
      BY <3>5 DEF ThrowNew
    <3>6. CASE DeleteClassRef
      BY <1>3, <3>1, <3>6 DEF DeleteClassRef, Return
    <3>7. QED  BY <1>5, <3>2, <3>3, <3>4, <3>5, <3>6
  <2>4. QED  BY <2>2, <2>3 DEF RefInv
<1>6. QED  BY <1>1, <1>2, <1>4, <1>5 DEF Next

LEMMA InitRefInv == Init => RefInv
BY NothingLeft DEF Init, RefInv, NoRefs, Refs, RefTodo

(* However many rows or subqueries there are, and whatever fails, no C++   *)
(* variable's local reference is overwritten before it is deleted.         *)
THEOREM OneReferenceEach == Spec => []OneRefPerVariable
<1>1. RefInv /\ ProgramInv /\ UseInv /\ [Next]_vars => RefInv'
  BY StepRefInv
<1>2. RefInv => OneRefPerVariable
  BY DEF RefInv, OneRefPerVariable
<1>3. QED  BY <1>1, <1>2, InitRefInv, ProgramHolds, PTL DEF Spec

-----------------------------------------------------------------------------
(* The types of the rest.                                                   *)
LEMMA LostIsBoolean == Spec => [](throwLost \in BOOLEAN)
<1>1. Init => throwLost \in BOOLEAN
  BY DEF Init
<1>2. throwLost \in BOOLEAN /\ [Next]_vars => (throwLost \in BOOLEAN)'
  <2> SUFFICES ASSUME throwLost \in BOOLEAN, [Next]_vars
               PROVE  throwLost' \in BOOLEAN
    OBVIOUS
  <2>1. RunStep => throwLost' = throwLost
    BY DEF RunStep, GetNull, GetElements, NewArray, CreateObject, GetElement,
           SetArrayElement, PlainCall, CallCore, StoreResult, Iterate,
           DeleteLocalRef, ResetArray
  <2>2. Unwind \/ CatchAll \/ FindClass \/ DeleteClassRef => throwLost' = throwLost
    BY DEF Unwind, CatchAll, FindClass, DeleteClassRef
  <2>3. CallNative \/ ThrowNew => throwLost' \in {throwLost, TRUE, FALSE}
    BY DEF CallNative, ThrowNew
  <2>4. UNCHANGED vars => throwLost' = throwLost
    BY DEF vars
  <2>5. QED  BY <2>1, <2>2, <2>3, <2>4 DEF Next
<1>3. QED  BY <1>1, <1>2, PTL DEF Spec

(* Every variable keeps its type: in particular no reference is deleted    *)
(* twice, since what is deleted is there or is the null reference.         *)
THEOREM TypeCorrect == Spec => []TypeOK
<1>1. TypeInv /\ UseInv /\ throwLost \in BOOLEAN => TypeOK
  <2> SUFFICES ASSUME TypeInv, UseInv, throwLost \in BOOLEAN PROVE TypeOK
    OBVIOUS
  <2>1. \A x \in TypedSteps : x \in Steps
    BY DEF TypedSteps
  <2>2. todo \in Seq(Steps)
    BY <2>1 DEF TypeInv
  <2>3. refs \in [Refs -> Nat]
    BY DEF UseInv
  <2>4. QED  BY <2>2, <2>3 DEF TypeInv, TypeOK
<1>2. QED
  BY <1>1, TypesHold, LostIsBoolean, ProgramHolds, PTL
=============================================================================
