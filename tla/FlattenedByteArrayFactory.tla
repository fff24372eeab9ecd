---------------------- MODULE FlattenedByteArrayFactory ----------------------
(***************************************************************************)
(* FlattenedByteArrayFactory: threads that build FlattenedByteArrays with  *)
(* fromByteArrays, which adds up int lengths that may overflow, and with   *)
(* fromStrings, which reuses one ByteArrayOutputStream per thread, also    *)
(* after a call that threw half-way.                                       *)
(*                                                                         *)
(* A byte array may be null, and so may a string, which is modelled by its *)
(* UTF-8 bytes.                                                            *)
(***************************************************************************)
EXTENDS FlattenedByteArray, FiniteSets

CONSTANTS
  Threads,
  Inputs,  \* what the threads pass: sequences of byte arrays
  Null,
  Half     \* 2^31 in Java: an int is in -Half .. Half - 1

ASSUME FactoryAssumption ==
  /\ Null \notin Seq(Nat)
  /\ Inputs \subseteq Seq(Seq(Nat) \cup {Null})
  /\ Half \in Nat \ {0}
  /\ \A x \in Inputs : \A k \in DOMAIN x : x[k] # Null => Len(x[k]) < Half

VARIABLES
  pc,             \* where each thread is
  input,          \* the argument of its call
  i,              \* its loop index, from 0
  outputStream,   \* its reusableByteArrayOutputStream
  elemEndOffsets,
  flattenedElemsLength,
  flattenedElems,
  result          \* what its last call returned; Null if it threw

vars == <<pc, input, i, outputStream, elemEndOffsets, flattenedElemsLength,
          flattenedElems, result>>

Int32 == -Half .. Half - 1

(* Fault injection: the length is added up in a long.                      *)
WrapNever(x) == x

Wrap(x) == IF x >= Half THEN x - 2 * Half ELSE x

PcValues == {"idle", "write", "measure", "copy"}

(* The types of the variables; a returned array's offsets are never        *)
(* negative, though the length they come from may wrap around.             *)
TypeOK ==
  /\ pc \in [Threads -> PcValues]
  /\ input \in [Threads -> Inputs \cup {<<>>}]
  /\ i \in [Threads -> Nat]
  /\ outputStream \in [Threads -> Seq(Nat)]
  /\ elemEndOffsets \in [Threads -> Seq(Int32)]
  /\ flattenedElemsLength \in [Threads -> Int32]
  /\ flattenedElems \in [Threads -> Seq(Nat)]
  /\ \A t \in Threads :
       \/ result[t] = Null
       \/ /\ result[t].flattenedElems \in Seq(Nat)
          /\ result[t].elemEndOffsets \in Seq(0 .. Half - 1)

Init ==
  /\ pc = [t \in Threads |-> "idle"]
  /\ input = [t \in Threads |-> <<>>]
  /\ i = [t \in Threads |-> 0]
  /\ outputStream = [t \in Threads |-> <<>>]
  /\ elemEndOffsets = [t \in Threads |-> <<>>]
  /\ flattenedElemsLength = [t \in Threads |-> 0]
  /\ flattenedElems = [t \in Threads |-> <<>>]
  /\ result = [t \in Threads |-> Null]

Set(f, t, value) == [f EXCEPT ![t] = value]
Goto(t, step) == pc' = Set(pc, t, step)
Advance(t) == i' = Set(i, t, i[t] + 1) /\ UNCHANGED pc
Current(t) == input[t][i[t] + 1]

Return(t, value) ==
  /\ Goto(t, "idle")
  /\ result' = Set(result, t, value)

Throw(t) == Return(t, Null)

-----------------------------------------------------------------------------
(* fromStrings.                                                            *)

(* Fault injection: the reused stream is not reset.                        *)
CallFromStringsNoReset(t, strings) ==
  /\ pc[t] = "idle"
  /\ input' = Set(input, t, strings)
  /\ i' = Set(i, t, 0)
  /\ elemEndOffsets' = Set(elemEndOffsets, t, <<>>)
  /\ \/ /\ strings = <<>>
        /\ Return(t, EMPTY_FLATTENED_BYTE_ARRAY)
     \/ /\ strings # <<>>
        /\ Goto(t, "write")
        /\ result' = Set(result, t, Null)
  /\ UNCHANGED <<outputStream, flattenedElemsLength, flattenedElems>>

CallFromStrings(t, strings) ==
  /\ pc[t] = "idle"
  /\ input' = Set(input, t, strings)
  /\ i' = Set(i, t, 0)
  /\ elemEndOffsets' = Set(elemEndOffsets, t, <<>>)
  /\ \/ /\ strings = <<>>
        /\ Return(t, EMPTY_FLATTENED_BYTE_ARRAY)
        /\ UNCHANGED outputStream
     \/ /\ strings # <<>>
        /\ Goto(t, "write")
        /\ outputStream' = Set(outputStream, t, <<>>)
        /\ result' = Set(result, t, Null)
  /\ UNCHANGED <<flattenedElemsLength, flattenedElems>>

(* Fault injection: one stream for all threads.                            *)
WriteElemShared(t) ==
  /\ pc[t] = "write" /\ i[t] < Len(input[t])
  /\ \/ /\ Current(t) # Null
        /\ LET written == outputStream[t] \o Current(t)
           IN  /\ Len(written) < Half
               /\ outputStream' = [u \in Threads |-> written]
               /\ elemEndOffsets' = Set(elemEndOffsets, t,
                                        Append(elemEndOffsets[t], Len(written)))
        /\ Advance(t)
        /\ UNCHANGED result
     \/ /\ Current(t) # Null => Len(outputStream[t] \o Current(t)) >= Half
        /\ Throw(t)
        /\ UNCHANGED <<i, outputStream, elemEndOffsets>>
  /\ UNCHANGED <<input, flattenedElemsLength, flattenedElems>>

(* One string: a null one throws, and so does a stream (an array) that     *)
(* would grow past what an int counts.                                     *)
WriteElem(t) ==
  /\ pc[t] = "write" /\ i[t] < Len(input[t])
  /\ \/ /\ Current(t) # Null
        /\ LET written == outputStream[t] \o Current(t)
           IN  /\ Len(written) < Half
               /\ outputStream' = Set(outputStream, t, written)
               /\ elemEndOffsets' = Set(elemEndOffsets, t,
                                        Append(elemEndOffsets[t], Len(written)))
        /\ Advance(t)
        /\ UNCHANGED result
     \/ /\ Current(t) # Null => Len(outputStream[t] \o Current(t)) >= Half
        /\ Throw(t)
        /\ UNCHANGED <<i, outputStream, elemEndOffsets>>
  /\ UNCHANGED <<input, flattenedElemsLength, flattenedElems>>

ReturnStrings(t) ==
  /\ pc[t] = "write" /\ i[t] = Len(input[t])
  /\ Return(t, Flattened(outputStream[t], elemEndOffsets[t]))
  /\ UNCHANGED <<input, i, outputStream, elemEndOffsets, flattenedElemsLength,
                 flattenedElems>>

-----------------------------------------------------------------------------
(* fromByteArrays.                                                         *)

CallFromByteArrays(t, byteArrays) ==
  /\ pc[t] = "idle"
  /\ input' = Set(input, t, byteArrays)
  /\ i' = Set(i, t, 0)
  /\ flattenedElemsLength' = Set(flattenedElemsLength, t, 0)
  /\ elemEndOffsets' = Set(elemEndOffsets, t, <<>>)
  /\ \/ /\ byteArrays = <<>>
        /\ Return(t, EMPTY_FLATTENED_BYTE_ARRAY)
     \/ /\ byteArrays # <<>>
        /\ Goto(t, "measure")
        /\ result' = Set(result, t, Null)
  /\ flattenedElems' = Set(flattenedElems, t, <<>>)
  /\ UNCHANGED outputStream

(* The first loop, over the lengths; the sum is an int.                    *)
Measure(t) ==
  /\ pc[t] = "measure" /\ i[t] < Len(input[t])
  /\ \/ /\ Current(t) # Null
        /\ LET length == Wrap(flattenedElemsLength[t] + Len(Current(t)))
           IN  /\ flattenedElemsLength' = Set(flattenedElemsLength, t, length)
               /\ elemEndOffsets' = Set(elemEndOffsets, t,
                                        Append(elemEndOffsets[t], length))
        /\ Advance(t)
        /\ UNCHANGED result
     \/ /\ Current(t) = Null
        /\ Throw(t)
        /\ UNCHANGED <<i, elemEndOffsets, flattenedElemsLength>>
  /\ UNCHANGED <<input, outputStream, flattenedElems>>

(* new byte[flattenedElemsLength] throws NegativeArraySizeException.       *)
Allocate(t) ==
  /\ pc[t] = "measure" /\ i[t] = Len(input[t])
  /\ \/ /\ flattenedElemsLength[t] >= 0
        /\ Goto(t, "copy")
        /\ i' = Set(i, t, 0)
        /\ UNCHANGED result
     \/ /\ flattenedElemsLength[t] < 0
        /\ Throw(t)
        /\ UNCHANGED i
  /\ UNCHANGED <<input, outputStream, elemEndOffsets, flattenedElemsLength,
                 flattenedElems>>

(* The second loop, with System.arraycopy, which throws rather than write  *)
(* past the end; flattenedElems holds the bytes up to flattenedElemsOffset.*)
Copy(t) ==
  /\ pc[t] = "copy" /\ i[t] < Len(input[t])
  /\ LET copied == flattenedElems[t] \o Current(t)
     IN  \/ /\ Len(copied) <= flattenedElemsLength[t]
            /\ flattenedElems' = Set(flattenedElems, t, copied)
            /\ Advance(t)
            /\ UNCHANGED result
         \/ /\ Len(copied) > flattenedElemsLength[t]
            /\ Throw(t)
            /\ UNCHANGED <<i, flattenedElems>>
  /\ UNCHANGED <<input, outputStream, elemEndOffsets, flattenedElemsLength>>

ReturnByteArrays(t) ==
  /\ pc[t] = "copy" /\ i[t] = Len(input[t])
  /\ Return(t, Flattened(flattenedElems[t], elemEndOffsets[t]))
  /\ UNCHANGED <<input, i, outputStream, elemEndOffsets, flattenedElemsLength,
                 flattenedElems>>

-----------------------------------------------------------------------------
Next ==
  \E t \in Threads :
    \/ \E x \in Inputs : CallFromStrings(t, x) \/ CallFromByteArrays(t, x)
    \/ WriteElem(t) \/ ReturnStrings(t)
    \/ Measure(t) \/ Allocate(t) \/ Copy(t) \/ ReturnByteArrays(t)

Spec == Init /\ [][Next]_vars

-----------------------------------------------------------------------------
(* Properties.                                                             *)

(* What a call returns iterates as what it was given, whatever the other   *)
(* threads flatten meanwhile, however earlier calls of the same thread     *)
(* ended, and however far the sum of the lengths overflowed: a call that   *)
(* cannot return that throws.                                              *)
ReturnedReadsBack ==
  \A t \in Threads :
    result[t] # Null => Elements(result[t]) = input[t]
=============================================================================
