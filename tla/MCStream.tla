------------------------------ MODULE MCStream ------------------------------
(***************************************************************************)
(* Values of the constants of ClpIrOutputStream for TLC.                   *)
(***************************************************************************)
EXTENDS StreamImplementsIrLog

CONSTANTS f, e   \* a four-byte and an eight-byte stream

AllFaults == {"refused", "torn"} \X Kinds \X {f, e}
RefusedOnly == {"refused"} \X Kinds \X {f, e}
AllButLostEvents == AllFaults \ {<<"refused", "event", f>>}
=============================================================================
