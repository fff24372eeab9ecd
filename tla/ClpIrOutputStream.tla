-------------------------- MODULE ClpIrOutputStream --------------------------
(***************************************************************************)
(* The CLP IR output streams of com.yscope.clp.irstream: the base class    *)
(* AbstractClpIrOutputStream, its four-byte and eight-byte subclasses, and *)
(* the native state (ClpIrOutputStreamState) each object owns by address.  *)
(*                                                                         *)
(* A stream encodes a preamble and then log events into a java.io          *)
(* OutputStream, the sink.  The four-byte encoding writes each event's     *)
(* timestamp as the 64-bit difference to previousMessageTimestamp; the     *)
(* eight-byte encoding writes the timestamp itself.                        *)
(*                                                                         *)
(* Each stream has one caller at a time (the class has no lock), and a     *)
(* call is a chain of steps, one per point where it can throw: native      *)
(* encoding, OutputStream.write, OutputStream.close.  pc[s] is the step    *)
(* the call in progress on s takes next.                                   *)
(***************************************************************************)
EXTENDS Integers, Sequences, FiniteSets

CONSTANTS
  Streams,          \* identities of the stream objects
  FourByteStreams,  \* those that are FourByteClpIrOutputStreams
  LenientStreams,   \* those whose sink accepts bytes after close(), as a
                    \* ByteArrayOutputStream does
  Addresses,        \* addresses the native heap may hand out
  Half,             \* 2^63 in Java: a long is in -Half .. Half - 1
  WriteFaults,      \* <<fault, kind, stream>>: how a write of a record of
                    \* that kind to that stream's sink may fail
  CloseMayFail,     \* whether OutputStream.close() may throw
  MaxConstructed,   \* bound: on the streams that are ever constructed
  MaxRecords        \* bound: an open stream's writeLogEvent is called on
                    \* shorter sinks only, which hold two records more at most

Kinds == {"preamble", "event", "eof"}

ASSUME ConstantsAssumption ==
  /\ FourByteStreams \subseteq Streams
  /\ LenientStreams \subseteq Streams
  /\ 0 \notin Addresses
  /\ Half \in Nat \ {0}
  /\ WriteFaults \subseteq {"refused", "torn"} \X Kinds \X Streams
  /\ CloseMayFail \in BOOLEAN
  /\ MaxConstructed \in Nat
  /\ MaxRecords \in Nat

VARIABLES
  pc,                        \* next step of the call in progress
  op,                        \* the method that was called last
  arg,                       \* its timestamp (0 for close())
  nativeStateAddress,        \* 0 once the stream is closed
  liveStates,                \* native heap: states new-ed and not deleted
  timestampPattern,          \* non-null; timeZoneId is null exactly with it
  previousMessageTimestamp,  \* FourByteClpIrOutputStream only
  sinkOpen,                  \* the OutputStream has not been closed
  sink,                      \* the records written to the OutputStream
  accepted,                  \* history: events of the writeLogEvent calls
                             \* that returned normally
  faults                     \* history: how the sink has failed

vars == <<pc, op, arg, nativeStateAddress, liveStates, timestampPattern,
          previousMessageTimestamp, sinkOpen, sink, accepted, faults>>

-----------------------------------------------------------------------------
(* Java's 64-bit longs.  The sum or difference of two longs is less than   *)
(* one period outside the range.                                           *)
Long == -Half .. Half - 1

Wrap(x) == IF x >= Half THEN x - 2 * Half
           ELSE IF x < -Half THEN x + 2 * Half
           ELSE x

Record(kind, value) == [kind |-> kind, value |-> value]
Records == [kind : Kinds \cup {"torn"}, value : Long]

PcValues == {"unborn", "idle", "preamble", "event", "eof", "sinkClose",
             "destroy"}
Ops == {"none", "writeLogEvent", "close"}
FaultNames == {"torn", "lostEvent", "sinkClose"}

(* The types of the variables; what the streams write and remember are     *)
(* longs, also when a timestamp difference overflows 64 bits.              *)
TypeOK ==
  /\ pc \in [Streams -> PcValues]
  /\ op \in [Streams -> Ops]
  /\ arg \in [Streams -> Long]
  /\ nativeStateAddress \in [Streams -> Addresses \cup {0}]
  /\ liveStates \subseteq Addresses
  /\ timestampPattern \in [Streams -> BOOLEAN]
  /\ previousMessageTimestamp \in [Streams -> Long]
  /\ sinkOpen \in [Streams -> BOOLEAN]
  /\ sink \in [Streams -> Seq(Records)]
  /\ accepted \in [Streams -> Seq(Long)]
  /\ faults \in [Streams -> SUBSET FaultNames]

Init ==
  /\ pc = [s \in Streams |-> "unborn"]
  /\ op = [s \in Streams |-> "none"]
  /\ arg = [s \in Streams |-> 0]
  /\ nativeStateAddress = [s \in Streams |-> 0]
  /\ liveStates = {}
  /\ timestampPattern = [s \in Streams |-> TRUE]
  /\ previousMessageTimestamp = [s \in Streams |-> 0]
  /\ sinkOpen = [s \in Streams |-> TRUE]
  /\ sink = [s \in Streams |-> <<>>]
  /\ accepted = [s \in Streams |-> <<>>]
  /\ faults = [s \in Streams |-> {}]

Goto(s, step) == pc' = [pc EXCEPT ![s] = step]

(* The call on s throws or returns: the caller may make another.           *)
Leave(s) == Goto(s, "idle")

-----------------------------------------------------------------------------
(* The sink.  A full one refuses everything; MaxRecords + 2 leaves room    *)
(* for the preamble and the EOF.                                           *)
SinkAccepts(s) ==
  /\ sinkOpen[s] \/ s \in LenientStreams
  /\ Len(sink[s]) < MaxRecords + 2

(* outputStream.write(bytes) returns.                                      *)
Written(s, record) ==
  /\ SinkAccepts(s)
  /\ sink' = [sink EXCEPT ![s] = Append(@, record)]
  /\ UNCHANGED faults

(* outputStream.write(bytes) throws having written nothing.  An event that *)
(* was encoded but not written is lost.                                    *)
Refused(s, kind) ==
  /\ ~SinkAccepts(s) \/ <<"refused", kind, s>> \in WriteFaults
  /\ faults' = [faults EXCEPT ![s] =
                  IF kind = "event" THEN @ \cup {"lostEvent"} ELSE @]
  /\ UNCHANGED sink

(* outputStream.write(bytes) throws having written part of the bytes: no   *)
(* reader gets past them.                                                  *)
Torn(s, kind) ==
  /\ SinkAccepts(s)
  /\ <<"torn", kind, s>> \in WriteFaults
  /\ sink' = [sink EXCEPT ![s] = Append(@, Record("torn", 0))]
  /\ faults' = [faults EXCEPT ![s] = @ \cup {"torn"}]

WriteThrows(s, kind) == Refused(s, kind) \/ Torn(s, kind)

-----------------------------------------------------------------------------
(* The constructors: createNativeState() allocates the native state.  (If  *)
(* it cannot, the constructor throws and there is no object.)              *)
Construct(s) ==
  /\ pc[s] = "unborn"
  /\ Cardinality({t \in Streams : pc[t] # "unborn"}) < MaxConstructed
  /\ \E a \in Addresses \ liveStates :
       /\ liveStates' = liveStates \cup {a}
       /\ nativeStateAddress' = [nativeStateAddress EXCEPT ![s] = a]
  /\ timestampPattern' = [timestampPattern EXCEPT ![s] = TRUE]
  /\ previousMessageTimestamp' = [previousMessageTimestamp EXCEPT ![s] = 0]
  /\ Goto(s, "idle")
  /\ UNCHANGED <<op, arg, sinkOpen, sink, accepted, faults>>

(* The bound on what writeLogEvent may grow; on a closed stream it does not*)
(* write, and may always be called.                                        *)
Room(s) == nativeStateAddress[s] = 0 \/ Len(sink[s]) < MaxRecords

(* Fault injection: writeLogEvent without its "Stream closed." check.      *)
CallWriteLogEventUnguarded(s, ts) ==
  /\ pc[s] = "idle"
  /\ Room(s)
  /\ op' = [op EXCEPT ![s] = "writeLogEvent"]
  /\ arg' = [arg EXCEPT ![s] = ts]
  /\ Goto(s, IF timestampPattern[s] THEN "preamble" ELSE "event")
  /\ UNCHANGED <<nativeStateAddress, liveStates, timestampPattern,
                 previousMessageTimestamp, sinkOpen, sink, accepted, faults>>

(* writeLogEvent(ts, message) up to the preamble or the event.             *)
CallWriteLogEvent(s, ts) ==
  /\ pc[s] = "idle"
  /\ Room(s)
  /\ op' = [op EXCEPT ![s] = "writeLogEvent"]
  /\ arg' = [arg EXCEPT ![s] = ts]
  /\ \/ nativeStateAddress[s] = 0 /\ Leave(s)    \* "Stream closed."
     \/ nativeStateAddress[s] # 0 /\ timestampPattern[s] /\ Goto(s, "preamble")
     \/ nativeStateAddress[s] # 0 /\ ~timestampPattern[s] /\ Goto(s, "event")
  /\ UNCHANGED <<nativeStateAddress, liveStates, timestampPattern,
                 previousMessageTimestamp, sinkOpen, sink, accepted, faults>>

(* Fault injection: close() is marked done before it has done its work.    *)
CallCloseOnce(s) ==
  /\ pc[s] = "idle"
  /\ op' = [op EXCEPT ![s] = "close"]
  /\ arg' = [arg EXCEPT ![s] = 0]
  /\ IF op[s] = "close" THEN Leave(s)
     ELSE Goto(s, IF timestampPattern[s] THEN "preamble" ELSE "eof")
  /\ UNCHANGED <<nativeStateAddress, liveStates, timestampPattern,
                 previousMessageTimestamp, sinkOpen, sink, accepted, faults>>

(* close() up to the preamble or the EOF byte; nothing checks              *)
(* nativeStateAddress.                                                     *)
CallClose(s) ==
  /\ pc[s] = "idle"
  /\ op' = [op EXCEPT ![s] = "close"]
  /\ arg' = [arg EXCEPT ![s] = 0]
  /\ Goto(s, IF timestampPattern[s] THEN "preamble" ELSE "eof")
  /\ UNCHANGED <<nativeStateAddress, liveStates, timestampPattern,
                 previousMessageTimestamp, sinkOpen, sink, accepted, faults>>

(* writePreamble(arg): encodePreamble() may throw; in a four-byte stream   *)
(* it stores the reference timestamp before the bytes are written.  Only   *)
(* after the write are timestampPattern and timeZoneId cleared.            *)
PreambleEncodingFails(s) ==
  /\ pc[s] = "preamble"
  /\ Leave(s)
  /\ UNCHANGED <<op, arg, nativeStateAddress, liveStates, timestampPattern,
                 previousMessageTimestamp, sinkOpen, sink, accepted, faults>>

(* Fault injection: the reference timestamp is not remembered.             *)
EncodePreambleForgetful(s) == UNCHANGED previousMessageTimestamp

EncodePreamble(s) ==
  previousMessageTimestamp' =
    IF s \in FourByteStreams
    THEN [previousMessageTimestamp EXCEPT ![s] = arg[s]]
    ELSE previousMessageTimestamp

PreambleRecord(s) ==
  Record("preamble", IF s \in FourByteStreams THEN arg[s] ELSE 0)

(* Fault injection: the pattern is cleared although the write threw.       *)
WritePreambleClearsFirst(s) ==
  /\ pc[s] = "preamble"
  /\ EncodePreamble(s)
  /\ timestampPattern' = [timestampPattern EXCEPT ![s] = FALSE]
  /\ \/ /\ Written(s, PreambleRecord(s))
        /\ Goto(s, IF op[s] = "close" THEN "eof" ELSE "event")
     \/ WriteThrows(s, "preamble") /\ Leave(s)
  /\ UNCHANGED <<op, arg, nativeStateAddress, liveStates, sinkOpen, accepted>>

WritePreamble(s) ==
  /\ pc[s] = "preamble"
  /\ EncodePreamble(s)
  /\ \/ /\ Written(s, PreambleRecord(s))
        /\ timestampPattern' = [timestampPattern EXCEPT ![s] = FALSE]
        /\ Goto(s, IF op[s] = "close" THEN "eof" ELSE "event")
     \/ /\ WriteThrows(s, "preamble")
        /\ Leave(s)
        /\ UNCHANGED timestampPattern
  /\ UNCHANGED <<op, arg, nativeStateAddress, liveStates, sinkOpen, accepted>>

(* The rest of writeLogEvent: encodeLogEvent() may throw; in a four-byte   *)
(* stream it advances previousMessageTimestamp before the bytes are        *)
(* written.                                                                *)
EventEncodingFails(s) ==
  /\ pc[s] = "event"
  /\ Leave(s)
  /\ UNCHANGED <<op, arg, nativeStateAddress, liveStates, timestampPattern,
                 previousMessageTimestamp, sinkOpen, sink, accepted, faults>>

(* Fault injection: previousMessageTimestamp is not advanced.              *)
EncodeLogEventForgetful(s) == UNCHANGED previousMessageTimestamp

EncodeLogEvent(s) ==
  previousMessageTimestamp' =
    IF s \in FourByteStreams
    THEN [previousMessageTimestamp EXCEPT ![s] = arg[s]]
    ELSE previousMessageTimestamp

(* Fault injection: native code takes the jlong it is passed as unsigned.  *)
EventRecordUnsigned(s) ==
  Record("event", IF s \in FourByteStreams
                  THEN (arg[s] - previousMessageTimestamp[s]) % (2 * Half)
                  ELSE arg[s])

EventRecord(s) ==
  Record("event", IF s \in FourByteStreams
                  THEN Wrap(arg[s] - previousMessageTimestamp[s])
                  ELSE arg[s])

WriteLogEvent(s) ==
  /\ pc[s] = "event"
  /\ EncodeLogEvent(s)
  /\ \/ /\ Written(s, EventRecord(s))
        /\ accepted' = [accepted EXCEPT ![s] = Append(@, arg[s])]
     \/ WriteThrows(s, "event") /\ UNCHANGED accepted
  /\ Leave(s)
  /\ UNCHANGED <<op, arg, nativeStateAddress, liveStates, timestampPattern,
                 sinkOpen>>

(* The rest of close(): EOF byte, OutputStream.close(), native state.      *)
WriteEof(s) ==
  /\ pc[s] = "eof"
  /\ \/ Written(s, Record("eof", 0)) /\ Goto(s, "sinkClose")
     \/ WriteThrows(s, "eof") /\ Leave(s)
  /\ UNCHANGED <<op, arg, nativeStateAddress, liveStates, timestampPattern,
                 previousMessageTimestamp, sinkOpen, accepted>>

(* A sink whose close() throws may have closed itself or not.              *)
CloseSink(s) ==
  /\ pc[s] = "sinkClose"
  /\ \/ /\ sinkOpen' = [sinkOpen EXCEPT ![s] = FALSE]
        /\ Goto(s, "destroy")
        /\ UNCHANGED faults
     \/ /\ CloseMayFail
        /\ \E open \in {sinkOpen[s], FALSE} :
             sinkOpen' = [sinkOpen EXCEPT ![s] = open]
        /\ faults' = [faults EXCEPT ![s] = @ \cup {"sinkClose"}]
        /\ Leave(s)
  /\ UNCHANGED <<op, arg, nativeStateAddress, liveStates, timestampPattern,
                 previousMessageTimestamp, sink, accepted>>

(* Fault injection: nativeStateAddress is not reset.                       *)
DestroyNativeStateDangling(s) ==
  /\ pc[s] = "destroy"
  /\ liveStates' = liveStates \ {nativeStateAddress[s]}
  /\ Leave(s)
  /\ UNCHANGED <<op, arg, nativeStateAddress, timestampPattern,
                 previousMessageTimestamp, sinkOpen, sink, accepted, faults>>

(* destroyNativeState(): delete of address 0 does nothing.                 *)
DestroyNativeState(s) ==
  /\ pc[s] = "destroy"
  /\ liveStates' = liveStates \ {nativeStateAddress[s]}
  /\ nativeStateAddress' = [nativeStateAddress EXCEPT ![s] = 0]
  /\ Leave(s)
  /\ UNCHANGED <<op, arg, timestampPattern, previousMessageTimestamp,
                 sinkOpen, sink, accepted, faults>>

-----------------------------------------------------------------------------
(* What the method in progress does next.                                  *)
Continue(s) ==
  \/ PreambleEncodingFails(s) \/ WritePreamble(s)
  \/ EventEncodingFails(s) \/ WriteLogEvent(s)
  \/ WriteEof(s) \/ CloseSink(s) \/ DestroyNativeState(s)

Next ==
  \E s \in Streams :
    \/ Construct(s)
    \/ \E ts \in Long : CallWriteLogEvent(s, ts)
    \/ CallClose(s)
    \/ Continue(s)

Spec == Init /\ [][Next]_vars

-----------------------------------------------------------------------------
(* Properties.                                                             *)

(* The native heap holds exactly the states of the streams that are        *)
(* constructed and not closed, one each: createNativeState() and           *)
(* destroyNativeState() neither leak a state, nor free one twice or one    *)
(* that another stream has since been given.                               *)
HeapExact ==
  /\ liveStates = {nativeStateAddress[s] : s \in Streams} \ {0}
  /\ \A s, t \in Streams :
       s # t /\ nativeStateAddress[s] # 0
         => nativeStateAddress[s] # nativeStateAddress[t]

(* encodePreambleNative() and encodeLogEventNative() dereference           *)
(* nativeStateAddress unchecked: whatever calls came before, also close()  *)
(* on a closed stream or after a failed close(), it addresses a live state.*)
NativeStateLive ==
  \A s \in Streams :
    pc[s] \in {"preamble", "event"} => nativeStateAddress[s] \in liveStates

(* What a reader adds to a record's value to have its timestamp.           *)
Base(s, records, log, k) ==
  IF s \notin FourByteStreams THEN 0
  ELSE IF k = 1 THEN records[1].value ELSE log[k - 1]

(* A reader of records sees a preamble and the events of log, then EOF.    *)
Decodes(s, records, log) ==
  IF records = <<>> THEN log = <<>>
  ELSE /\ Len(log) < Len(records)
       /\ records[1].kind = "preamble"
       /\ \A k \in 1 .. Len(log) :
            /\ records[k + 1].kind = "event"
            /\ log[k] = Wrap(records[k + 1].value + Base(s, records, log, k))
       /\ \A k \in Len(log) + 2 .. Len(records) : records[k].kind = "eof"

Damaged(s) == faults[s] \cap {"torn", "sinkClose"} # {}
Undamaged(s) ==
  ~Damaged(s) /\ (s \in FourByteStreams => "lostEvent" \notin faults[s])

(* Unless a write was torn, the sink's close() threw, or (four-byte) an    *)
(* encoded event was refused, the sink always reads back as exactly the    *)
(* events whose writeLogEvent returned normally, with their timestamps:    *)
(* through refused preambles and EOFs, encoding failures, retries, repeated*)
(* closes and differences that wrap around.                                *)
AcceptedDecodable ==
  \A s \in Streams : Undamaged(s) => Decodes(s, sink[s], accepted[s])

(* The documentation of encodeLogEventNative() says timestampDelta is the  *)
(* "Milliseconds since the previous message's timestamp", which is how a   *)
(* reader takes it.  So it should hold after a refused event too.          *)
DeltaSincePreviousMessage ==
  \A s \in FourByteStreams : ~Damaged(s) => Decodes(s, sink[s], accepted[s])

(* Once close() has returned normally a stream has no native state, and no *)
(* later call, whatever the sink does, makes it write anything but an EOF  *)
(* byte or gives it a native state again.                                  *)
ClosedStreamInert ==
  [][\A s \in Streams :
       pc[s] # "unborn" /\ nativeStateAddress[s] = 0 =>
         /\ nativeStateAddress'[s] = 0
         /\ accepted'[s] = accepted[s]
         /\ \/ sink'[s] = sink[s]
            \/ sink'[s] = Append(sink[s], Record("eof", 0))
            \/ sink'[s] = Append(sink[s], Record("torn", 0))]_vars

(* Fairness: a call goes on until it leaves; a caller closes its stream,   *)
(* and again when that throws; and a sink that is tried again and again    *)
(* accepts the preamble and the EOF in the end.                            *)
Fairness ==
  \A s \in Streams :
    /\ WF_vars(Continue(s))
    /\ SF_vars(CallClose(s))
    /\ SF_vars(WritePreamble(s) /\ Written(s, PreambleRecord(s)))
    /\ SF_vars(WriteEof(s) /\ Written(s, Record("eof", 0)))

FairSpec == Spec /\ Fairness

(* A close() that threw can be retried: under Fairness every stream ends   *)
(* up without its native state, also when encoding or writing the preamble *)
(* or writing the EOF byte failed at first, between whatever other calls.  *)
RetriedCloseReleases ==
  \A s \in Streams : pc[s] # "unborn" ~> nativeStateAddress[s] = 0
=============================================================================
