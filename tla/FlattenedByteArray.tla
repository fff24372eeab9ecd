-------------------------- MODULE FlattenedByteArray --------------------------
(***************************************************************************)
(* FlattenedByteArray: byte arrays concatenated into one, and the offset   *)
(* in it where each ends.  Java's offsets count from 0, so the bytes from  *)
(* offset b up to offset e are those at b + 1 .. e of the sequence.        *)
(***************************************************************************)
EXTENDS Integers, Sequences

Flattened(flattenedElems, elemEndOffsets) ==
  [flattenedElems |-> flattenedElems, elemEndOffsets |-> elemEndOffsets]

EMPTY_FLATTENED_BYTE_ARRAY == Flattened(<<>>, <<>>)

(* Arrays.copyOfRange, which fills up with zeros what is past the end, and *)
(* new String(bytes, offset, count).                                       *)
CopyOfRange(bytes, begin, end) ==
  [k \in 1 .. end - begin |->
     IF begin + k \in DOMAIN bytes THEN bytes[begin + k] ELSE 0]

(* What the i-th call of ByteArrayIterator.next() returns.                 *)
Element(flat, i) ==
  LET ends == flat.elemEndOffsets
  IN  CopyOfRange(flat.flattenedElems, IF i = 1 THEN 0 ELSE ends[i - 1],
                  ends[i])

(* The elements an iteration returns.                                      *)
Elements(flat) == [i \in DOMAIN flat.elemEndOffsets |-> Element(flat, i)]
=============================================================================
