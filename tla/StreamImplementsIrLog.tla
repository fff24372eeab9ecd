------------------------ MODULE StreamImplementsIrLog ------------------------
(***************************************************************************)
(* ClpIrOutputStream implements IrLog: the refinement mapping reads the    *)
(* sink the way a decoder of the IR stream does.                           *)
(***************************************************************************)
EXTENDS ClpIrOutputStream

(* The records a reader gets past: those before the first EOF or torn one. *)
Stops(records) == {k \in DOMAIN records : records[k].kind \in {"eof", "torn"}}

Readable(records) ==
  IF Stops(records) = {} THEN records
  ELSE SubSeq(records, 1, (CHOOSE k \in Stops(records) :
                             \A j \in Stops(records) : k <= j) - 1)

(* The reader's clock after each record: the preamble's reference time, then*)
(* the timestamps of the events.                                           *)
Clock(s, records) ==
  LET ts[k \in 1 .. Len(records)] ==
        IF s \notin FourByteStreams \/ k = 1 THEN records[k].value
        ELSE Wrap(ts[k - 1] + records[k].value)
  IN  ts

(* What the reader makes of the records: an event per record after the     *)
(* preamble.                                                               *)
DecodedTimestamps(s, records) ==
  LET clock == Clock(s, records)
  IN  IF records = <<>> \/ records[1].kind # "preamble" THEN <<>>
      ELSE [k \in 1 .. Len(records) - 1 |-> clock[k + 1]]

ReaderLog(s) == DecodedTimestamps(s, Readable(sink[s]))

(* The event whose call is in progress.                                    *)
Pending(s) ==
  IF pc[s] \in {"preamble", "event"} /\ op[s] = "writeLogEvent"
  THEN {arg[s]} ELSE {}

Ended(s) == Stops(sink[s]) # {}

Log == INSTANCE IrLog WITH
  Timestamps <- Long,
  pending <- [s \in Streams |-> Pending(s)],
  log <- [s \in Streams |-> ReaderLog(s)],
  committed <- [s \in Streams |-> Len(accepted[s])],
  ended <- [s \in Streams |-> Ended(s)]

(* Whatever the sink does (torn and refused writes, a close() that throws, *)
(* events written after an EOF), its reader sees an append-only log: each  *)
(* event is there at most once, with the timestamp it was submitted with,  *)
(* from a moment within its call; and every event whose call returned      *)
(* normally is there unless the log had ended.                             *)
ImplementsIrLog == Log!Spec
=============================================================================
