---------------------------- MODULE SequenceIndices ----------------------------
(***************************************************************************)
(* Which elements of a sequence are of a kind: variables of a subquery and *)
(* tokens of a message, in order.                                          *)
(***************************************************************************)
EXTENDS Integers, SequencesExt

(* Where in s the elements of S are, in order.                             *)
Indices(s, S) == FlattenSeq([k \in DOMAIN s |-> IF s[k] \in S THEN <<k>> ELSE <<>>])
=============================================================================
