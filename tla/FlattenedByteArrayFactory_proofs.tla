------------------- MODULE FlattenedByteArrayFactory_proofs -------------------
(***************************************************************************)
(* Theorems about FlattenedByteArrayFactory: for any number of threads, any*)
(* inputs and any width of int, what a call returns iterates as what it    *)
(* was given.                                                              *)
(***************************************************************************)
EXTENDS FlattenedByteArrayFactory, TLAPS

Start(ends, k) == IF k = 1 THEN 0 ELSE ends[k - 1]

(* The first n byte arrays of in are in bytes, each ending at its offset.  *)
Holds(bytes, ends, in, n) ==
  /\ bytes \in Seq(Nat)
  /\ n \in Nat /\ n <= Len(ends) /\ n <= Len(in)
  /\ Len(bytes) = Start(ends, n + 1)
  /\ Len(bytes) < Half
  /\ \A k \in 1 .. n :
       /\ in[k] \in Seq(Nat)
       /\ ends[k] \in 0 .. Len(bytes)
       /\ Start(ends, k) \in 0 .. Len(bytes)
       /\ SubSeq(bytes, Start(ends, k) + 1, ends[k]) = in[k]

(* The first n end offsets are the sums of the lengths, as ints.           *)
Sums(ends, in, n) ==
  /\ n \in Nat /\ n <= Len(ends) /\ n <= Len(in)
  /\ \A k \in 1 .. n :
       /\ in[k] \in Seq(Nat)
       /\ ends[k] = Wrap(Start(ends, k) + Len(in[k]))

Writing(t) ==
  pc[t] = "write" =>
    /\ Len(elemEndOffsets[t]) = i[t]
    /\ Holds(outputStream[t], elemEndOffsets[t], input[t], i[t])

Measuring(t) ==
  pc[t] = "measure" =>
    /\ Len(elemEndOffsets[t]) = i[t]
    /\ flattenedElemsLength[t] = Start(elemEndOffsets[t], i[t] + 1)
    /\ Sums(elemEndOffsets[t], input[t], i[t])
    /\ flattenedElems[t] = <<>>

Copying(t) ==
  pc[t] = "copy" =>
    /\ Len(elemEndOffsets[t]) = Len(input[t])
    /\ Sums(elemEndOffsets[t], input[t], Len(input[t]))
    /\ Holds(flattenedElems[t], elemEndOffsets[t], input[t], i[t])

Returned(t) ==
  result[t] # Null =>
    /\ pc[t] = "idle"
    /\ result[t].flattenedElems \in Seq(Nat)
    /\ result[t].elemEndOffsets \in Seq(0 .. Half - 1)
    /\ Elements(result[t]) = input[t]

Types ==
  /\ pc \in [Threads -> PcValues]
  /\ input \in [Threads -> Inputs \cup {<<>>}]
  /\ i \in [Threads -> Nat]
  /\ outputStream \in [Threads -> Seq(Nat)]
  /\ elemEndOffsets \in [Threads -> Seq(Int32)]
  /\ flattenedElemsLength \in [Threads -> Int32]
  /\ flattenedElems \in [Threads -> Seq(Nat)]
  /\ result = [t \in Threads |-> result[t]]

Inv(t) == Writing(t) /\ Measuring(t) /\ Copying(t) /\ Returned(t)

(* Each loop of a call keeps readable what it has copied so far.           *)
IInv == Types /\ \A t \in Threads : Inv(t)

-----------------------------------------------------------------------------
(* Bytes that are appended leave earlier slices alone, and are a slice.    *)
LEMMA SliceOfPrefix ==
  ASSUME NEW s \in Seq(Nat), NEW u \in Seq(Nat),
         NEW a \in Nat \ {0}, NEW b \in 0 .. Len(s)
  PROVE  SubSeq(s \o u, a, b) = SubSeq(s, a, b)
OBVIOUS

LEMMA SliceOfSuffix ==
  ASSUME NEW s \in Seq(Nat), NEW u \in Seq(Nat)
  PROVE  SubSeq(s \o u, Len(s) + 1, Len(s) + Len(u)) = u
OBVIOUS

(* One more byte array, u, is appended and its end is recorded.            *)
Grown(bytes, ends, in, n, u, ends2) ==
  /\ Holds(bytes, ends, in, n)
  /\ u \in Seq(Nat)
  /\ Len(ends2) \in Nat /\ n + 1 <= Len(ends2)
  /\ Len(in) \in Nat /\ n + 1 <= Len(in)
  /\ in[n + 1] = u
  /\ \A k \in 1 .. n : ends2[k] = ends[k]
  /\ ends2[n + 1] = Len(bytes \o u)
  /\ Len(bytes \o u) < Half

(* What is held stays held, and the new byte array is held too.            *)
LEMMA HoldsGrows ==
  ASSUME NEW bytes, NEW ends, NEW in, NEW n, NEW u, NEW ends2,
         Grown(bytes, ends, in, n, u, ends2)
  PROVE  Holds(bytes \o u, ends2, in, n + 1)
<1>1. PICK all : all = bytes \o u
  OBVIOUS
<1>2. bytes \in Seq(Nat) /\ u \in Seq(Nat) /\ all \in Seq(Nat)
  <2>1. bytes \in Seq(Nat) /\ u \in Seq(Nat)
    BY Zenon DEF Holds, Grown
  <2>2. QED  BY <1>1, <2>1
<1>3. /\ n \in Nat /\ Len(bytes) \in Nat /\ Len(u) \in Nat /\ Len(all) \in Nat
      /\ Len(all) = Len(bytes) + Len(u)
      /\ Len(bytes) = Start(ends, n + 1)
  <2>1. n \in Nat /\ Len(bytes) = Start(ends, n + 1)
    BY Zenon DEF Holds, Grown
  <2>2. Len(bytes) \in Nat /\ Len(u) \in Nat /\ Len(all) \in Nat
    BY <1>2
  <2>3. Len(all) = Len(bytes) + Len(u)
    BY <1>1, <1>2
  <2>4. QED  BY <2>1, <2>2, <2>3
<1>4. \A k \in 1 .. n :
        /\ in[k] \in Seq(Nat)
        /\ ends2[k] \in 0 .. Len(all)
        /\ Start(ends2, k) \in 0 .. Len(all)
        /\ SubSeq(all, Start(ends2, k) + 1, ends2[k]) = in[k]
  <2> TAKE k \in 1 .. n
  <2>1. Start(ends2, k) = Start(ends, k) /\ ends2[k] = ends[k]
    BY <1>3 DEF Start, Grown
  <2>2. PICK b, e : b = Start(ends, k) /\ e = ends[k]
    OBVIOUS
  <2>3. b \in 0 .. Len(bytes) /\ e \in 0 .. Len(bytes)
    BY <2>2 DEF Holds, Grown
  <2>4. in[k] \in Seq(Nat) /\ SubSeq(bytes, b + 1, e) = in[k]
    BY <2>2 DEF Holds, Grown
  <2>5. b + 1 \in Nat \ {0} /\ b \in 0 .. Len(all) /\ e \in 0 .. Len(all)
    BY <1>3, <2>3
  <2>6. SubSeq(all, b + 1, e) = SubSeq(bytes, b + 1, e)
    BY <1>1, <1>2, <2>3, <2>5, SliceOfPrefix
  <2>7. QED  BY <2>1, <2>2, <2>4, <2>5, <2>6, Zenon
<1>5. /\ in[n + 1] \in Seq(Nat)
      /\ ends2[n + 1] \in 0 .. Len(all)
      /\ Start(ends2, n + 1) \in 0 .. Len(all)
      /\ SubSeq(all, Start(ends2, n + 1) + 1, ends2[n + 1]) = in[n + 1]
  <2>1. Start(ends2, n + 1) = Len(bytes)
    BY <1>3 DEF Start, Grown
  <2>2. SubSeq(all, Len(bytes) + 1, Len(bytes) + Len(u)) = u
    BY <1>1, <1>2, SliceOfSuffix
  <2>3. in[n + 1] = u /\ ends2[n + 1] = Len(all)
    BY <1>1 DEF Grown
  <2>4. Len(bytes) \in 0 .. Len(all) /\ Len(all) \in 0 .. Len(all)
    BY <1>3
  <2>5. QED  BY <1>2, <1>3, <2>1, <2>2, <2>3, <2>4, Zenon
<1>6. Start(ends2, n + 1 + 1) = Len(all)
  BY <1>1, <1>3 DEF Start, Grown
<1>7. \A k \in 1 .. n + 1 :
        /\ in[k] \in Seq(Nat)
        /\ ends2[k] \in 0 .. Len(all)
        /\ Start(ends2, k) \in 0 .. Len(all)
        /\ SubSeq(all, Start(ends2, k) + 1, ends2[k]) = in[k]
  <2>1. \A k \in 1 .. n + 1 : k \in 1 .. n \/ k = n + 1
    BY <1>3
  <2>2. QED  BY <1>4, <1>5, <2>1, Zenon
<1>8. n + 1 \in Nat /\ n + 1 <= Len(ends2) /\ n + 1 <= Len(in) /\ Len(all) < Half
  BY <1>1, <1>3 DEF Grown
<1>9. QED
  BY <1>1, <1>2, <1>6, <1>7, <1>8, Zenon DEF Holds

(* Within the array, copyOfRange is a slice.                               *)
LEMMA CopyIsSlice ==
  ASSUME NEW bytes \in Seq(Nat),
         NEW begin \in 0 .. Len(bytes), NEW end \in 0 .. Len(bytes)
  PROVE  CopyOfRange(bytes, begin, end) = SubSeq(bytes, begin + 1, end)
<1>1. SubSeq(bytes, begin + 1, end)
        = [k \in 1 .. end - begin |-> bytes[begin + k]]
  OBVIOUS
<1>2. \A k \in 1 .. end - begin : begin + k \in DOMAIN bytes
  OBVIOUS
<1>3. QED
  BY <1>1, <1>2 DEF CopyOfRange

(* Bytes that hold all of in, with an end for each, iterate as in.         *)
LEMMA HoldsAll ==
  ASSUME NEW bytes, NEW ends \in Seq(Int32), NEW in \in Seq(Seq(Nat) \cup {Null}),
         Holds(bytes, ends, in, Len(in)), Len(ends) = Len(in)
  PROVE  /\ Flattened(bytes, ends).flattenedElems \in Seq(Nat)
         /\ Flattened(bytes, ends).elemEndOffsets \in Seq(0 .. Half - 1)
         /\ Elements(Flattened(bytes, ends)) = in
<1>1. /\ Flattened(bytes, ends).flattenedElems = bytes
      /\ Flattened(bytes, ends).elemEndOffsets = ends
  BY DEF Flattened
<1>2. \A k \in 1 .. Len(ends) : ends[k] \in 0 .. Half - 1
  BY FactoryAssumption DEF Holds
<1>3. Len(ends) \in Nat /\ ends = [k \in 1 .. Len(ends) |-> ends[k]]
  OBVIOUS
<1>4. ends \in Seq(0 .. Half - 1)
  <2>1. [k \in 1 .. Len(ends) |-> ends[k]] \in Seq(0 .. Half - 1)
    BY <1>2, <1>3
  <2>2. QED  BY <1>3, <2>1, Zenon
<1>5. \A k \in 1 .. Len(in) : Element(Flattened(bytes, ends), k) = in[k]
  <2> TAKE k \in 1 .. Len(in)
  <2>1. Element(Flattened(bytes, ends), k)
          = CopyOfRange(bytes, Start(ends, k), ends[k])
    BY <1>1 DEF Element, Start
  <2>2. /\ bytes \in Seq(Nat)
        /\ ends[k] \in 0 .. Len(bytes) /\ Start(ends, k) \in 0 .. Len(bytes)
        /\ SubSeq(bytes, Start(ends, k) + 1, ends[k]) = in[k]
    BY DEF Holds
  <2>3. CopyOfRange(bytes, Start(ends, k), ends[k]) = in[k]
    BY <2>2, CopyIsSlice
  <2>4. QED  BY <2>1, <2>3
<1>6. Elements(Flattened(bytes, ends)) = [k \in 1 .. Len(in) |-> in[k]]
  BY <1>1, <1>5 DEF Elements
<1>7. in = [k \in 1 .. Len(in) |-> in[k]]
  OBVIOUS
<1>8. QED
  BY <1>1, <1>4, <1>6, <1>7 DEF Holds

-----------------------------------------------------------------------------
(* What a thread's step leaves of the other threads is all of it.          *)
Others(t) ==
  \A u \in Threads \ {t} :
    /\ pc'[u] = pc[u] /\ input'[u] = input[u] /\ i'[u] = i[u]
    /\ outputStream'[u] = outputStream[u]
    /\ elemEndOffsets'[u] = elemEndOffsets[u]
    /\ flattenedElemsLength'[u] = flattenedElemsLength[u]
    /\ flattenedElems'[u] = flattenedElems[u]
    /\ result'[u] = result[u]

(* A step of another thread keeps what holds of a thread.                  *)
LEMMA OthersKeep ==
  ASSUME NEW t \in Threads, NEW u \in Threads \ {t}, Others(t), Inv(u)
  PROVE  Inv(u)'
<1>1. /\ pc'[u] = pc[u] /\ input'[u] = input[u] /\ i'[u] = i[u]
      /\ outputStream'[u] = outputStream[u]
      /\ elemEndOffsets'[u] = elemEndOffsets[u]
      /\ flattenedElemsLength'[u] = flattenedElemsLength[u]
      /\ flattenedElems'[u] = flattenedElems[u]
      /\ result'[u] = result[u]
  BY DEF Others
<1>2. QED
  BY <1>1, Zenon DEF Inv, Writing, Measuring, Copying, Returned

LEMMA EmptySequence ==
  ASSUME NEW S
  PROVE  <<>> \in Seq(S) /\ Len(<<>>) = 0
OBVIOUS

(* Every input is a sequence of byte arrays, short enough for an int.      *)
LEMMA InputTyped ==
  ASSUME Types, NEW t \in Threads
  PROVE  /\ input[t] \in Seq(Seq(Nat) \cup {Null})
         /\ \A k \in 1 .. Len(input[t]) :
              input[t][k] # Null =>
                input[t][k] \in Seq(Nat) /\ Len(input[t][k]) < Half
<1>1. input[t] \in Inputs \/ input[t] = <<>>
  BY DEF Types
<1>2. input[t] \in Seq(Seq(Nat) \cup {Null})
  <2>1. \A x \in Inputs : x \in Seq(Seq(Nat) \cup {Null})
    BY FactoryAssumption
  <2>2. QED  BY <1>1, <2>1, EmptySequence, Zenon
<1>3. \A k \in 1 .. Len(input[t]) : input[t][k] \in Seq(Nat) \cup {Null}
  BY <1>2
<1>4. \A k \in 1 .. Len(input[t]) : input[t][k] # Null => Len(input[t][k]) < Half
  BY <1>1, <1>2, FactoryAssumption
<1>5. QED
  BY <1>2, <1>3, <1>4

LEMMA NothingHeld ==
  ASSUME NEW ends \in Seq(Int32), NEW in \in Seq(Seq(Nat) \cup {Null})
  PROVE  Holds(<<>>, ends, in, 0)
BY FactoryAssumption DEF Holds, Start

LEMMA InitInv == Init => IInv
<1> SUFFICES ASSUME Init PROVE IInv
  OBVIOUS
<1>1. Types
  BY FactoryAssumption DEF Init, Types, PcValues, Int32
<1>2. ASSUME NEW t \in Threads PROVE Inv(t)
  BY DEF Init, Inv, Writing, Measuring, Copying, Returned
<1>3. QED
  BY <1>1, <1>2 DEF IInv

(* What each phase of a call has to show of its own thread.                *)
LEMMA ThrowInv ==
  ASSUME NEW t \in Threads, pc'[t] = "idle", result'[t] = Null
  PROVE  Inv(t)'
BY DEF Inv, Writing, Measuring, Copying, Returned

LEMMA WriteInv ==
  ASSUME NEW t \in Threads, pc'[t] = "write", result'[t] = Null, Writing(t)'
  PROVE  Inv(t)'
BY DEF Inv, Measuring, Copying, Returned

LEMMA MeasureInv ==
  ASSUME NEW t \in Threads, pc'[t] = "measure", result'[t] = Null, Measuring(t)'
  PROVE  Inv(t)'
BY DEF Inv, Writing, Copying, Returned

LEMMA CopyInv ==
  ASSUME NEW t \in Threads, pc'[t] = "copy", result'[t] = Null, Copying(t)'
  PROVE  Inv(t)'
BY DEF Inv, Writing, Measuring, Returned

LEMMA ReturnInv ==
  ASSUME NEW t \in Threads, NEW bytes, NEW ends \in Seq(Int32),
         NEW in \in Seq(Seq(Nat) \cup {Null}),
         Holds(bytes, ends, in, Len(in)), Len(ends) = Len(in),
         pc'[t] = "idle", input'[t] = in, result'[t] = Flattened(bytes, ends)
  PROVE  Inv(t)'
<1>1. /\ result'[t].flattenedElems \in Seq(Nat)
      /\ result'[t].elemEndOffsets \in Seq(0 .. Half - 1)
      /\ Elements(result'[t]) = in
  BY HoldsAll, Zenon
<1>2. QED
  BY <1>1, Zenon DEF Inv, Writing, Measuring, Copying, Returned

LEMMA ReturnEmpty ==
  ASSUME NEW t \in Threads, pc'[t] = "idle", input'[t] = <<>>,
         result'[t] = EMPTY_FLATTENED_BYTE_ARRAY
  PROVE  Inv(t)'
<1>1. Holds(<<>>, <<>>, <<>>, Len(<<>>)) /\ Len(<<>>) = Len(<<>>)
  BY NothingHeld, EmptySequence, Zenon
<1>2. result'[t] = Flattened(<<>>, <<>>)
  BY Zenon DEF EMPTY_FLATTENED_BYTE_ARRAY
<1>3. QED
  BY <1>1, <1>2, EmptySequence, ReturnInv, Zenon

-----------------------------------------------------------------------------
(* A call of fromStrings.                                                  *)
LEMMA CallFromStringsStep ==
  ASSUME Types, NEW t \in Threads, NEW x \in Inputs, CallFromStrings(t, x)
  PROVE  Types' /\ Others(t) /\ Inv(t)'
<1>1. Others(t)
  BY DEF CallFromStrings, Types, Others, Set, Goto, Return
<1>2. Types'
  <2>1. /\ i' \in [Threads -> Nat] /\ input' \in [Threads -> Inputs \cup {<<>>}]
        /\ elemEndOffsets' \in [Threads -> Seq(Int32)]
        /\ flattenedElemsLength' \in [Threads -> Int32]
        /\ flattenedElems' \in [Threads -> Seq(Nat)]
    BY EmptySequence DEF CallFromStrings, Types, Set
  <2>2. outputStream' \in [Threads -> Seq(Nat)]
    <3>1. \/ outputStream' = outputStream
          \/ outputStream' = [outputStream EXCEPT ![t] = <<>>]
      BY Zenon DEF CallFromStrings, Set
    <3>2. outputStream \in [Threads -> Seq(Nat)] /\ <<>> \in Seq(Nat)
      BY EmptySequence DEF Types
    <3>3. QED  BY <3>1, <3>2
  <2>3. /\ pc' \in [Threads -> PcValues]
        /\ result' = [u \in Threads |-> result'[u]]
    BY DEF CallFromStrings, Types, Set, Goto, Return, PcValues
  <2>4. QED  BY <2>1, <2>2, <2>3 DEF Types
<1>3. input'[t] = x /\ i'[t] = 0 /\ elemEndOffsets'[t] = <<>>
  BY DEF CallFromStrings, Types, Set
<1>4. CASE x = <<>>
  <2>1. pc'[t] = "idle" /\ result'[t] = EMPTY_FLATTENED_BYTE_ARRAY
    BY <1>4 DEF CallFromStrings, Types, Set, Goto, Return
  <2>2. QED  BY <1>1, <1>2, <1>3, <1>4, <2>1, ReturnEmpty, Zenon
<1>5. CASE x # <<>>
  <2>1. pc'[t] = "write" /\ outputStream'[t] = <<>> /\ result'[t] = Null
    BY <1>5 DEF CallFromStrings, Types, Set, Goto
  <2>2. Holds(<<>>, <<>>, x, 0)
    <3>1. x \in Seq(Seq(Nat) \cup {Null})
      BY FactoryAssumption
    <3>2. QED  BY <3>1, NothingHeld, EmptySequence, Zenon
  <2>3. Writing(t)'
    BY <1>3, <2>1, <2>2, EmptySequence, Zenon DEF Writing
  <2>4. QED  BY <1>1, <1>2, <2>1, <2>3, WriteInv, Zenon
<1>6. QED
  BY <1>4, <1>5

(* A call of fromByteArrays.                                               *)
LEMMA CallFromByteArraysStep ==
  ASSUME Types, NEW t \in Threads, NEW x \in Inputs, CallFromByteArrays(t, x)
  PROVE  Types' /\ Others(t) /\ Inv(t)'
<1>1. Others(t)
  BY DEF CallFromByteArrays, Types, Others, Set, Goto, Return
<1>2. Types'
  <2>1. /\ i' \in [Threads -> Nat] /\ input' \in [Threads -> Inputs \cup {<<>>}]
        /\ elemEndOffsets' \in [Threads -> Seq(Int32)]
        /\ outputStream' \in [Threads -> Seq(Nat)]
        /\ flattenedElems' \in [Threads -> Seq(Nat)]
    BY EmptySequence DEF CallFromByteArrays, Types, Set
  <2>2. flattenedElemsLength' \in [Threads -> Int32]
    BY FactoryAssumption DEF CallFromByteArrays, Types, Set, Int32
  <2>3. /\ pc' \in [Threads -> PcValues]
        /\ result' = [u \in Threads |-> result'[u]]
    BY DEF CallFromByteArrays, Types, Set, Goto, Return, PcValues
  <2>4. QED  BY <2>1, <2>2, <2>3 DEF Types
<1>3. /\ input'[t] = x /\ i'[t] = 0 /\ elemEndOffsets'[t] = <<>>
      /\ flattenedElemsLength'[t] = 0 /\ flattenedElems'[t] = <<>>
  BY DEF CallFromByteArrays, Types, Set
<1>4. CASE x = <<>>
  <2>1. pc'[t] = "idle" /\ result'[t] = EMPTY_FLATTENED_BYTE_ARRAY
    BY <1>4 DEF CallFromByteArrays, Types, Set, Goto, Return
  <2>2. QED  BY <1>1, <1>2, <1>3, <1>4, <2>1, ReturnEmpty, Zenon
<1>5. CASE x # <<>>
  <2>1. pc'[t] = "measure" /\ result'[t] = Null
    BY <1>5 DEF CallFromByteArrays, Types, Set, Goto
  <2>2. Start(<<>>, 0 + 1) = 0 /\ Sums(<<>>, x, 0)
    <3>1. x \in Seq(Seq(Nat) \cup {Null})
      BY FactoryAssumption
    <3>2. QED  BY <3>1 DEF Start, Sums
  <2>3. Measuring(t)'
    BY <1>3, <2>1, <2>2, EmptySequence, Zenon DEF Measuring
  <2>4. QED  BY <1>1, <1>2, <2>1, <2>3, MeasureInv, Zenon
<1>6. QED
  BY <1>4, <1>5

(* A step of fromStrings' loop.                                            *)
LEMMA WriteElemStep ==
  ASSUME Types, NEW t \in Threads, Inv(t), WriteElem(t)
  PROVE  Types' /\ Others(t) /\ Inv(t)'
<1> DEFINE u == Current(t)
           written == outputStream[t] \o u
           ends2 == Append(elemEndOffsets[t], Len(written))
<1>1. Others(t)
  BY DEF WriteElem, Types, Others, Set, Goto, Throw, Return, Advance
<1>2. /\ pc[t] = "write" /\ i[t] \in Nat /\ i[t] + 1 \in 1 .. Len(input[t])
      /\ result[t] = Null
      /\ Len(elemEndOffsets[t]) = i[t]
      /\ Holds(outputStream[t], elemEndOffsets[t], input[t], i[t])
      /\ outputStream[t] \in Seq(Nat) /\ elemEndOffsets[t] \in Seq(Int32)
      /\ input[t] \in Seq(Seq(Nat) \cup {Null})
  <2>1. i[t] \in Nat /\ outputStream[t] \in Seq(Nat) /\ elemEndOffsets[t] \in Seq(Int32)
    BY DEF Types
  <2>2. /\ pc[t] = "write" /\ result[t] = Null /\ Len(elemEndOffsets[t]) = i[t]
        /\ Holds(outputStream[t], elemEndOffsets[t], input[t], i[t])
        /\ i[t] < Len(input[t])
    BY DEF WriteElem, Inv, Writing, Returned
  <2>3. input[t] \in Seq(Seq(Nat) \cup {Null})
    BY InputTyped
  <2>4. i[t] + 1 \in 1 .. Len(input[t])
    BY <2>1, <2>2, <2>3
  <2>5. QED  BY <2>1, <2>2, <2>3, <2>4
<1>3. CASE /\ u # Null /\ Len(written) < Half
           /\ outputStream' = Set(outputStream, t, written)
           /\ elemEndOffsets' = Set(elemEndOffsets, t, ends2)
           /\ Advance(t) /\ UNCHANGED result
           /\ UNCHANGED <<input, flattenedElemsLength, flattenedElems>>
  <2>1. u \in Seq(Nat)
    BY <1>2, <1>3, InputTyped DEF Current
  <2>2. written \in Seq(Nat) /\ Len(written) \in Int32
    BY <1>2, <1>3, <2>1, FactoryAssumption DEF Int32
  <2>3. /\ ends2 \in Seq(Int32) /\ Len(ends2) = i[t] + 1
        /\ ends2[i[t] + 1] = Len(written)
        /\ \A k \in 1 .. i[t] : ends2[k] = elemEndOffsets[t][k]
    BY <1>2, <2>2
  <2>4. /\ pc'[t] = "write" /\ i'[t] = i[t] + 1 /\ input'[t] = input[t]
        /\ outputStream'[t] = written /\ elemEndOffsets'[t] = ends2
        /\ result'[t] = Null
    BY <1>2, <1>3 DEF Types, Set, Advance
  <2>5. Types'
    BY <1>2, <1>3, <2>2, <2>3 DEF Types, Set, Advance
  <2>6. Grown(outputStream[t], elemEndOffsets[t], input[t], i[t], u, ends2)
    <3>1. /\ Len(ends2) \in Nat /\ i[t] + 1 <= Len(ends2)
          /\ Len(input[t]) \in Nat /\ i[t] + 1 <= Len(input[t])
      BY <1>2, <2>3
    <3>2. QED  BY <1>2, <1>3, <2>1, <2>3, <3>1, Zenon DEF Grown, Current
  <2>7. Holds(written, ends2, input[t], i[t] + 1)
    BY <2>6, HoldsGrows, Zenon
  <2>8. Writing(t)'
    BY <2>3, <2>4, <2>7, Zenon DEF Writing
  <2>9. QED  BY <1>1, <2>4, <2>5, <2>8, WriteInv, Zenon
<1>4. CASE /\ Throw(t) /\ UNCHANGED <<i, outputStream, elemEndOffsets>>
           /\ UNCHANGED <<input, flattenedElemsLength, flattenedElems>>
  <2>1. pc'[t] = "idle" /\ result'[t] = Null
    BY <1>4 DEF Types, Throw, Return, Goto, Set
  <2>2. Types'
    BY <1>4 DEF Types, Throw, Return, Goto, Set, PcValues
  <2>3. QED  BY <1>1, <2>1, <2>2, ThrowInv, Zenon
<1>5. QED
  BY <1>3, <1>4, Zenon DEF WriteElem

(* The end of fromStrings.                                                 *)
LEMMA ReturnStringsStep ==
  ASSUME Types, NEW t \in Threads, Inv(t), ReturnStrings(t)
  PROVE  Types' /\ Others(t) /\ Inv(t)'
<1>1. Others(t)
  BY DEF ReturnStrings, Types, Others, Set, Goto, Return
<1>2. Types'
  BY DEF ReturnStrings, Types, Set, Goto, Return, PcValues
<1>3. /\ pc'[t] = "idle" /\ input'[t] = input[t]
      /\ result'[t] = Flattened(outputStream[t], elemEndOffsets[t])
  BY DEF ReturnStrings, Types, Set, Goto, Return
<1>4. /\ Holds(outputStream[t], elemEndOffsets[t], input[t], Len(input[t]))
      /\ Len(elemEndOffsets[t]) = Len(input[t])
  BY DEF ReturnStrings, Inv, Writing
<1>5. elemEndOffsets[t] \in Seq(Int32) /\ input[t] \in Seq(Seq(Nat) \cup {Null})
  BY InputTyped DEF Types
<1>6. QED
  BY <1>1, <1>2, <1>3, <1>4, <1>5, ReturnInv, Zenon

(* One more length is added to the sum, and the sum recorded.              *)
Summed(ends, in, n, u, ends2) ==
  /\ Sums(ends, in, n)
  /\ u \in Seq(Nat)
  /\ Len(ends2) \in Nat /\ n + 1 <= Len(ends2)
  /\ Len(in) \in Nat /\ n + 1 <= Len(in)
  /\ in[n + 1] = u
  /\ \A k \in 1 .. n : ends2[k] = ends[k]
  /\ ends2[n + 1] = Wrap(Start(ends, n + 1) + Len(u))

(* The end offsets stay sums, and the last is where the next begins.       *)
LEMMA SumsGrow ==
  ASSUME NEW ends, NEW in, NEW n, NEW u, NEW ends2,
         Summed(ends, in, n, u, ends2)
  PROVE  /\ Sums(ends2, in, n + 1)
         /\ Start(ends2, n + 1 + 1) = ends2[n + 1]
<1>1. n \in Nat
  BY DEF Summed, Sums
<1>2. \A k \in 1 .. n + 1 : Start(ends2, k) = Start(ends, k)
  BY <1>1 DEF Summed, Start
<1>3. \A k \in 1 .. n : /\ in[k] \in Seq(Nat)
                        /\ ends2[k] = Wrap(Start(ends2, k) + Len(in[k]))
  <2> TAKE k \in 1 .. n
  <2>1. /\ in[k] \in Seq(Nat)
        /\ ends[k] = Wrap(Start(ends, k) + Len(in[k]))
        /\ ends2[k] = ends[k]
    BY Zenon DEF Summed, Sums
  <2>2. Start(ends2, k) = Start(ends, k)
    BY <1>1, <1>2
  <2>3. QED  BY <2>1, <2>2, Zenon
<1>4. /\ in[n + 1] \in Seq(Nat)
      /\ ends2[n + 1] = Wrap(Start(ends2, n + 1) + Len(in[n + 1]))
  <2>1. Start(ends2, n + 1) = Start(ends, n + 1)
    BY <1>1, <1>2
  <2>2. QED  BY <2>1, Zenon DEF Summed
<1>5. /\ \A k \in 1 .. n + 1 : k \in 1 .. n \/ k = n + 1
      /\ n + 1 \in Nat
  BY <1>1
<1>6. Sums(ends2, in, n + 1)
  BY <1>3, <1>4, <1>5, Zenon DEF Sums, Summed
<1>7. Start(ends2, n + 1 + 1) = ends2[n + 1]
  BY <1>1 DEF Start
<1>8. QED
  BY <1>6, <1>7

(* A step of fromByteArrays' first loop.                                   *)
LEMMA MeasureStep ==
  ASSUME Types, NEW t \in Threads, Inv(t), Measure(t)
  PROVE  Types' /\ Others(t) /\ Inv(t)'
<1> DEFINE u == Current(t)
           length == Wrap(flattenedElemsLength[t] + Len(u))
           ends2 == Append(elemEndOffsets[t], length)
<1>1. Others(t)
  BY DEF Measure, Types, Others, Set, Goto, Throw, Return, Advance
<1>2. /\ i[t] \in Nat /\ i[t] + 1 \in 1 .. Len(input[t])
      /\ elemEndOffsets[t] \in Seq(Int32) /\ flattenedElemsLength[t] \in Int32
      /\ input[t] \in Seq(Seq(Nat) \cup {Null})
  <2>1. /\ i[t] \in Nat
        /\ elemEndOffsets[t] \in Seq(Int32) /\ flattenedElemsLength[t] \in Int32
    BY DEF Types
  <2>2. i[t] < Len(input[t])
    BY DEF Measure
  <2>3. input[t] \in Seq(Seq(Nat) \cup {Null})
    BY InputTyped
  <2>4. i[t] + 1 \in 1 .. Len(input[t])
    BY <2>1, <2>2, <2>3
  <2>5. QED  BY <2>1, <2>3, <2>4
<1>3. /\ pc[t] = "measure" /\ result[t] = Null
      /\ Len(elemEndOffsets[t]) = i[t]
      /\ flattenedElemsLength[t] = Start(elemEndOffsets[t], i[t] + 1)
      /\ Sums(elemEndOffsets[t], input[t], i[t])
      /\ flattenedElems[t] = <<>>
  BY DEF Measure, Inv, Measuring, Returned
<1>4. CASE /\ u # Null
           /\ flattenedElemsLength' = Set(flattenedElemsLength, t, length)
           /\ elemEndOffsets' = Set(elemEndOffsets, t, ends2)
           /\ Advance(t) /\ UNCHANGED result
           /\ UNCHANGED <<input, outputStream, flattenedElems>>
  <2>1. u \in Seq(Nat) /\ Len(u) \in Nat /\ Len(u) < Half
    BY <1>2, <1>4, InputTyped DEF Current
  <2>2. length \in Int32
    <3> DEFINE x == flattenedElemsLength[t]
               y == Len(u)
    <3>1. x \in Int32 /\ y \in Nat /\ y < Half /\ Half \in Nat
      BY <1>2, <2>1, FactoryAssumption
    <3> HIDE DEF x, y
    <3>2. Wrap(x + y) \in Int32
      BY <3>1 DEF Int32, Wrap
    <3>3. QED  BY <3>2 DEF x, y
  <2>3. /\ ends2 \in Seq(Int32) /\ Len(ends2) = i[t] + 1
        /\ ends2[i[t] + 1] = length
        /\ \A k \in 1 .. i[t] : ends2[k] = elemEndOffsets[t][k]
    BY <1>2, <1>3, <2>2
  <2>4. /\ pc'[t] = "measure" /\ i'[t] = i[t] + 1 /\ input'[t] = input[t]
        /\ flattenedElemsLength'[t] = length /\ elemEndOffsets'[t] = ends2
        /\ result'[t] = Null /\ flattenedElems'[t] = <<>>
    BY <1>3, <1>4 DEF Types, Set, Advance
  <2>5. Types'
    BY <1>2, <1>4, <2>2, <2>3 DEF Types, Set, Advance
  <2>6. Sums(ends2, input[t], i[t] + 1) /\ Start(ends2, i[t] + 1 + 1) = length
    <3>1. /\ Len(ends2) \in Nat /\ i[t] + 1 <= Len(ends2)
          /\ Len(input[t]) \in Nat /\ i[t] + 1 <= Len(input[t])
      BY <1>2, <2>3
    <3>2. Summed(elemEndOffsets[t], input[t], i[t], u, ends2)
      BY <1>3, <2>1, <2>3, <3>1, Zenon DEF Summed, Current
    <3>3. /\ Sums(ends2, input[t], i[t] + 1)
          /\ Start(ends2, i[t] + 1 + 1) = ends2[i[t] + 1]
      BY <3>2, SumsGrow, Zenon
    <3>4. ends2[i[t] + 1] = length
      BY <2>3
    <3>5. QED  BY <3>3, <3>4
  <2>7. Measuring(t)'
    BY <2>3, <2>4, <2>6, Zenon DEF Measuring
  <2>8. QED  BY <1>1, <2>4, <2>5, <2>7, MeasureInv, Zenon
<1>5. CASE /\ Throw(t)
           /\ UNCHANGED <<i, elemEndOffsets, flattenedElemsLength>>
           /\ UNCHANGED <<input, outputStream, flattenedElems>>
  <2>1. pc'[t] = "idle" /\ result'[t] = Null
    BY <1>5 DEF Types, Throw, Return, Goto, Set
  <2>2. Types'
    BY <1>5 DEF Types, Throw, Return, Goto, Set, PcValues
  <2>3. QED  BY <1>1, <2>1, <2>2, ThrowInv, Zenon
<1>6. QED
  BY <1>4, <1>5, Zenon DEF Measure

(* Between the loops the array is allocated, empty.                        *)
LEMMA AllocateStep ==
  ASSUME Types, NEW t \in Threads, Inv(t), Allocate(t)
  PROVE  Types' /\ Others(t) /\ Inv(t)'
<1>1. Others(t)
  BY DEF Allocate, Types, Others, Set, Goto, Throw, Return
<1>2. Types'
  <2>1. /\ pc' \in [Threads -> PcValues] /\ i' \in [Threads -> Nat]
        /\ result' = [u \in Threads |-> result'[u]]
    <3>1. CASE Goto(t, "copy") /\ i' = Set(i, t, 0) /\ UNCHANGED result
      BY <3>1 DEF Types, Set, Goto, PcValues
    <3>2. CASE Throw(t) /\ UNCHANGED i
      BY <3>2 DEF Types, Set, Goto, Throw, Return, PcValues
    <3>3. QED  BY <3>1, <3>2, Zenon DEF Allocate
  <2>2. QED  BY <2>1, Zenon DEF Types, Allocate
<1>3. CASE flattenedElemsLength[t] >= 0
  <2>1. /\ pc'[t] = "copy" /\ i'[t] = 0 /\ input'[t] = input[t]
        /\ elemEndOffsets'[t] = elemEndOffsets[t]
        /\ flattenedElems'[t] = flattenedElems[t] /\ result'[t] = result[t]
    BY <1>3 DEF Allocate, Types, Set, Goto, Int32
  <2>2. /\ Len(elemEndOffsets[t]) = Len(input[t])
        /\ Sums(elemEndOffsets[t], input[t], Len(input[t]))
        /\ flattenedElems[t] = <<>> /\ result[t] = Null
    BY DEF Allocate, Inv, Measuring, Returned
  <2>3. elemEndOffsets[t] \in Seq(Int32) /\ input[t] \in Seq(Seq(Nat) \cup {Null})
    BY InputTyped DEF Types
  <2>4. Holds(<<>>, elemEndOffsets[t], input[t], 0)
    BY <2>3, NothingHeld
  <2>5. Copying(t)'
    BY <2>1, <2>2, <2>4, Zenon DEF Copying
  <2>6. QED  BY <1>1, <1>2, <2>1, <2>2, <2>5, CopyInv, Zenon
<1>4. CASE flattenedElemsLength[t] < 0
  <2>1. pc'[t] = "idle" /\ result'[t] = Null
    BY <1>4 DEF Allocate, Types, Throw, Return, Goto, Set, Int32
  <2>2. QED  BY <1>1, <1>2, <2>1, ThrowInv, Zenon
<1>5. QED
  BY <1>3, <1>4 DEF Allocate

(* A step of fromByteArrays' second loop: arraycopy's bounds check is what *)
(* makes the end offset, which may have wrapped around, the real end.      *)
LEMMA CopyStep ==
  ASSUME Types, NEW t \in Threads, Inv(t), Copy(t)
  PROVE  Types' /\ Others(t) /\ Inv(t)'
<1> DEFINE u == Current(t)
           copied == flattenedElems[t] \o u
<1>1. Others(t)
  BY DEF Copy, Types, Others, Set, Goto, Throw, Return, Advance
<1>2. /\ i[t] \in Nat /\ i[t] + 1 \in 1 .. Len(input[t])
      /\ elemEndOffsets[t] \in Seq(Int32) /\ flattenedElemsLength[t] \in Int32
      /\ input[t] \in Seq(Seq(Nat) \cup {Null}) /\ flattenedElems[t] \in Seq(Nat)
  <2>1. /\ i[t] \in Nat /\ flattenedElems[t] \in Seq(Nat)
        /\ elemEndOffsets[t] \in Seq(Int32) /\ flattenedElemsLength[t] \in Int32
    BY DEF Types
  <2>2. i[t] < Len(input[t])
    BY DEF Copy
  <2>3. input[t] \in Seq(Seq(Nat) \cup {Null})
    BY InputTyped
  <2>4. i[t] + 1 \in 1 .. Len(input[t])
    BY <2>1, <2>2, <2>3
  <2>5. QED  BY <2>1, <2>3, <2>4
<1>3. /\ pc[t] = "copy" /\ result[t] = Null
      /\ Len(elemEndOffsets[t]) = Len(input[t])
      /\ Sums(elemEndOffsets[t], input[t], Len(input[t]))
      /\ Holds(flattenedElems[t], elemEndOffsets[t], input[t], i[t])
  BY DEF Copy, Inv, Copying, Returned
<1>4. CASE /\ Len(copied) <= flattenedElemsLength[t]
           /\ flattenedElems' = Set(flattenedElems, t, copied)
           /\ Advance(t) /\ UNCHANGED result
           /\ UNCHANGED <<input, outputStream, elemEndOffsets,
                          flattenedElemsLength>>
  <2>1. u \in Seq(Nat)
    BY <1>2, <1>3 DEF Sums, Current
  <2>2. /\ copied \in Seq(Nat) /\ Len(copied) = Len(flattenedElems[t]) + Len(u)
        /\ Len(copied) \in Nat
    BY <1>2, <2>1
  <2>3. Len(copied) < Half
    BY <1>2, <1>4, <2>2, FactoryAssumption DEF Int32
  <2>4. elemEndOffsets[t][i[t] + 1] = Len(copied)
    <3>1. Start(elemEndOffsets[t], i[t] + 1) = Len(flattenedElems[t])
      BY <1>3 DEF Holds
    <3>2. elemEndOffsets[t][i[t] + 1]
            = Wrap(Start(elemEndOffsets[t], i[t] + 1) + Len(u))
      BY <1>2, <1>3, Zenon DEF Sums, Current
    <3>3. Wrap(Len(copied)) = Len(copied)
      <4>1. \A x \in Nat : x < Half => Wrap(x) = x
        BY FactoryAssumption DEF Wrap
      <4>2. QED  BY <2>2, <2>3, <4>1, Zenon
    <3>4. QED  BY <2>2, <3>1, <3>2, <3>3, Zenon
  <2>5. /\ pc'[t] = "copy" /\ i'[t] = i[t] + 1 /\ input'[t] = input[t]
        /\ flattenedElems'[t] = copied /\ elemEndOffsets'[t] = elemEndOffsets[t]
        /\ result'[t] = Null
    BY <1>3, <1>4 DEF Types, Set, Advance
  <2>6. Types'
    BY <1>2, <1>4, <2>2 DEF Types, Set, Advance
  <2>7. Grown(flattenedElems[t], elemEndOffsets[t], input[t], i[t], u,
              elemEndOffsets[t])
    <3>1. /\ Len(input[t]) \in Nat /\ i[t] + 1 <= Len(input[t])
      BY <1>2
    <3>2. QED  BY <1>3, <2>1, <2>3, <2>4, <3>1, Zenon DEF Grown, Current
  <2>8. Holds(copied, elemEndOffsets[t], input[t], i[t] + 1)
    BY <2>7, HoldsGrows, Zenon
  <2>9. Copying(t)'
    BY <1>3, <2>5, <2>8, Zenon DEF Copying
  <2>10. QED  BY <1>1, <2>5, <2>6, <2>9, CopyInv, Zenon
<1>5. CASE /\ Throw(t) /\ UNCHANGED <<i, flattenedElems>>
           /\ UNCHANGED <<input, outputStream, elemEndOffsets,
                          flattenedElemsLength>>
  <2>1. pc'[t] = "idle" /\ result'[t] = Null
    BY <1>5 DEF Types, Throw, Return, Goto, Set
  <2>2. Types'
    BY <1>5 DEF Types, Throw, Return, Goto, Set, PcValues
  <2>3. QED  BY <1>1, <2>1, <2>2, ThrowInv, Zenon
<1>6. QED
  BY <1>4, <1>5, Zenon DEF Copy

(* The end of fromByteArrays.                                              *)
LEMMA ReturnByteArraysStep ==
  ASSUME Types, NEW t \in Threads, Inv(t), ReturnByteArrays(t)
  PROVE  Types' /\ Others(t) /\ Inv(t)'
<1>1. Others(t)
  BY DEF ReturnByteArrays, Types, Others, Set, Goto, Return
<1>2. Types'
  BY DEF ReturnByteArrays, Types, Set, Goto, Return, PcValues
<1>3. /\ pc'[t] = "idle" /\ input'[t] = input[t]
      /\ result'[t] = Flattened(flattenedElems[t], elemEndOffsets[t])
  BY DEF ReturnByteArrays, Types, Set, Goto, Return
<1>4. /\ Holds(flattenedElems[t], elemEndOffsets[t], input[t], Len(input[t]))
      /\ Len(elemEndOffsets[t]) = Len(input[t])
  BY DEF ReturnByteArrays, Inv, Copying
<1>5. elemEndOffsets[t] \in Seq(Int32) /\ input[t] \in Seq(Seq(Nat) \cup {Null})
  BY InputTyped DEF Types
<1>6. QED
  BY <1>1, <1>2, <1>3, <1>4, <1>5, ReturnInv, Zenon

-----------------------------------------------------------------------------
(* Every step of a thread keeps the invariant of all of them.              *)
LEMMA NextInv == IInv /\ [Next]_vars => IInv'
<1> SUFFICES ASSUME IInv, [Next]_vars PROVE IInv'
  OBVIOUS
<1>1. Types /\ \A u \in Threads : Inv(u)
  BY DEF IInv
<1>2. ASSUME NEW t \in Threads,
             \/ \E x \in Inputs : CallFromStrings(t, x) \/ CallFromByteArrays(t, x)
             \/ WriteElem(t) \/ ReturnStrings(t)
             \/ Measure(t) \/ Allocate(t) \/ Copy(t) \/ ReturnByteArrays(t)
      PROVE  IInv'
  <2>1. Types' /\ Others(t) /\ Inv(t)'
    BY <1>1, <1>2, CallFromStringsStep, CallFromByteArraysStep, WriteElemStep,
       ReturnStringsStep, MeasureStep, AllocateStep, CopyStep,
       ReturnByteArraysStep, Zenon
  <2>2. \A u \in Threads \ {t} : Inv(u)'
    BY <1>1, <2>1, OthersKeep, Zenon
  <2>3. \A u \in Threads : Inv(u)'
    BY <2>1, <2>2, Zenon
  <2>4. QED  BY <2>1, <2>3, Zenon DEF IInv
<1>3. CASE UNCHANGED vars
  BY <1>1, <1>3
  DEF vars, IInv, Types, Inv, Writing, Measuring, Copying, Returned
<1>4. QED
  BY <1>2, <1>3, Zenon DEF Next

(* The variables keep their types, and a returned array's offsets are the  *)
(* non-negative ints they have to be, whatever wrapped around.             *)
THEOREM TypeCorrect == Spec => []TypeOK
<1>1. IInv => TypeOK
  BY DEF IInv, Types, Inv, Returned, TypeOK
<1>2. QED
  BY <1>1, InitInv, NextInv, PTL DEF Spec

(* What fromStrings and fromByteArrays return iterates as what they were   *)
(* given, for any number of threads, any inputs and any width of int.      *)
THEOREM FlattenedReadsBack == Spec => []ReturnedReadsBack
<1>1. IInv => ReturnedReadsBack
  BY DEF IInv, Inv, Returned, ReturnedReadsBack
<1>2. QED
  BY <1>1, InitInv, NextInv, PTL DEF Spec
=============================================================================
