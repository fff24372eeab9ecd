------------------------------ MODULE MCFactory ------------------------------
(***************************************************************************)
(* Values of the constants of FlattenedByteArrayFactory for TLC.           *)
(***************************************************************************)
EXTENDS FlattenedByteArrayFactory

(* Ints of three bits: two arrays of three bytes overflow to a negative    *)
(* length, three of them to a length of one.  The empty input, a null      *)
(* element, an element that is empty, inputs that fit and that overflow.   *)
SomeInputs ==
  {<<>>, <<<<1>>, Null>>, <<<<1>>, <<>>, <<2, 3>>>>,
   <<<<2, 3, 2>>, <<2, 3, 2>>>>, <<<<2, 3, 2>>, <<2, 3, 2>>, <<2, 3, 2>>>>,
   <<<<2, 3, 2>>, <<2, 3, 2>>, Null>>, <<<<>>, <<2, 3, 2>>>>}
=============================================================================
