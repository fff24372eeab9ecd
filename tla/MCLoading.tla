------------------------------ MODULE MCLoading ------------------------------
(***************************************************************************)
(* Values of the constants of LibraryLoading for TLC.                      *)
(***************************************************************************)
EXTENDS LibraryLoading

TwoLoadingClasses == {"MessageEncoder", "MessageDecoder"}
=============================================================================
