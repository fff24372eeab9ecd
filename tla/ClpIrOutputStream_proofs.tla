----------------------- MODULE ClpIrOutputStream_proofs -----------------------
(***************************************************************************)
(* Theorems about ClpIrOutputStream, for all streams, addresses, widths of *)
(* a long, sinks and ways the sinks fail; the last, that it implements     *)
(* IrLog, as long as no four-byte event that has been encoded is refused.  *)
(***************************************************************************)
EXTENDS StreamImplementsIrLog, SequenceLemmas

(* The part of the inductive invariant about the native state: a stream    *)
(* without one is unborn or closed, and a closed stream has written its    *)
(* preamble, so close() on it goes straight to the EOF byte.               *)
Lifecycle(s) ==
  /\ pc[s] = "unborn" => nativeStateAddress[s] = 0
  /\ pc[s] \in {"unborn", "preamble"} => timestampPattern[s]
  /\ pc[s] \in {"preamble", "event"} => nativeStateAddress[s] # 0
  /\ pc[s] \in {"event", "eof", "sinkClose", "destroy"} => ~timestampPattern[s]
  /\ pc[s] # "unborn" /\ nativeStateAddress[s] = 0 => ~timestampPattern[s]

LifecycleInv == \A s \in Streams : Lifecycle(s)

(* The same heap as HeapExact, element by element.                         *)
HeapInv ==
  /\ \A s \in Streams :
       nativeStateAddress[s] # 0 => nativeStateAddress[s] \in liveStates
  /\ \A a \in liveStates : \E s \in Streams : nativeStateAddress[s] = a
  /\ \A s, t \in Streams :
       s # t /\ nativeStateAddress[s] # 0
         => nativeStateAddress[s] # nativeStateAddress[t]

(* The part about what is in the sink of an undamaged stream: it is empty  *)
(* until the preamble is written, EOFs are in it only once close() is past *)
(* writing one, and previousMessageTimestamp is what the reader arrives at.*)
SinkInv(s) ==
  /\ Decodes(s, sink[s], accepted[s])
  /\ timestampPattern[s] <=> sink[s] = <<>>
  /\ Len(sink[s]) > Len(accepted[s]) + 1
       => pc[s] \in {"sinkClose", "destroy"} \/ nativeStateAddress[s] = 0
  /\ s \in FourByteStreams /\ sink[s] # <<>>
       => previousMessageTimestamp[s] =
            IF accepted[s] = <<>> THEN sink[s][1].value
            ELSE accepted[s][Len(accepted[s])]

IInv ==
  /\ TypeOK
  /\ HeapInv
  /\ LifecycleInv
  /\ \A s \in Streams : Undamaged(s) => SinkInv(s)

-----------------------------------------------------------------------------
(* A timestamp difference that wrapped around is undone by the reader's    *)
(* wrapped sum.                                                            *)
LEMMA WrapDifference ==
  ASSUME NEW x \in Long, NEW y \in Long
  PROVE  /\ Wrap(x - y) \in Long
         /\ Wrap(Wrap(x - y) + y) = x
         /\ Wrap(x) = x
BY ConstantsAssumption DEF Long, Wrap, ConstantsAssumption

LEMMA ZeroIsLong == 0 \in Long
BY ConstantsAssumption DEF Long, ConstantsAssumption

(* What the outcomes of a write do to sink and faults.                     *)
LEMMA WriteTypes ==
  ASSUME TypeOK, NEW s \in Streams, NEW record \in Records,
         NEW kind \in Kinds, Written(s, record) \/ WriteThrows(s, kind)
  PROVE  /\ sink' \in [Streams -> Seq(Records)]
         /\ faults' \in [Streams -> SUBSET FaultNames]
<1>1. Record("torn", 0) \in Records
  BY ZeroIsLong DEF Record, Records
<1>2. CASE Written(s, record)
  BY <1>2 DEF Written, TypeOK
<1>3. CASE Refused(s, kind)
  BY <1>3 DEF Refused, TypeOK, FaultNames
<1>4. CASE Torn(s, kind)
  BY <1>1, <1>4 DEF Torn, TypeOK, FaultNames
<1>5. QED  BY <1>2, <1>3, <1>4 DEF WriteThrows

(* The records a stream writes are records.                                *)
LEMMA RecordTypes ==
  ASSUME TypeOK, NEW s \in Streams
  PROVE  /\ PreambleRecord(s) \in Records
         /\ EventRecord(s) \in Records
         /\ Record("eof", 0) \in Records
BY ZeroIsLong, WrapDifference
DEF TypeOK, PreambleRecord, EventRecord, Record, Records, Kinds

LEMMA InitTypeOK == Init => TypeOK
BY ZeroIsLong DEF Init, TypeOK, PcValues, Ops

LEMMA StepTypeOK == TypeOK /\ [Next]_vars => TypeOK'
<1> SUFFICES ASSUME TypeOK, [Next]_vars PROVE TypeOK'
  OBVIOUS
<1> USE ZeroIsLong
<1>1. CASE UNCHANGED vars
  BY <1>1 DEF vars, TypeOK
<1>2. ASSUME NEW s \in Streams, Construct(s) PROVE TypeOK'
  BY <1>2 DEF Construct, Goto, TypeOK, PcValues
<1>3. ASSUME NEW s \in Streams, NEW ts \in Long, CallWriteLogEvent(s, ts)
      PROVE  TypeOK'
  BY <1>3 DEF CallWriteLogEvent, Goto, Leave, TypeOK, PcValues, Ops
<1>4. ASSUME NEW s \in Streams, CallClose(s) PROVE TypeOK'
  BY <1>4 DEF CallClose, Goto, TypeOK, PcValues, Ops
<1>5. ASSUME NEW s \in Streams, PreambleEncodingFails(s) PROVE TypeOK'
  BY <1>5 DEF PreambleEncodingFails, Goto, Leave, TypeOK, PcValues
<1>6. ASSUME NEW s \in Streams, WritePreamble(s) PROVE TypeOK'
  <2>1. /\ sink' \in [Streams -> Seq(Records)]
        /\ faults' \in [Streams -> SUBSET FaultNames]
    BY <1>6, WriteTypes, RecordTypes DEF WritePreamble, Kinds
  <2>2. QED  BY <1>6, <2>1 DEF WritePreamble, EncodePreamble, Goto, Leave,
                              TypeOK, PcValues
<1>7. ASSUME NEW s \in Streams, EventEncodingFails(s) PROVE TypeOK'
  BY <1>7 DEF EventEncodingFails, Goto, Leave, TypeOK, PcValues
<1>8. ASSUME NEW s \in Streams, WriteLogEvent(s) PROVE TypeOK'
  <2>1. /\ sink' \in [Streams -> Seq(Records)]
        /\ faults' \in [Streams -> SUBSET FaultNames]
    BY <1>8, WriteTypes, RecordTypes DEF WriteLogEvent, Kinds
  <2>2. accepted' \in [Streams -> Seq(Long)]
    <3>1. CASE accepted' = [accepted EXCEPT ![s] = Append(@, arg[s])]
      BY <3>1 DEF TypeOK
    <3>2. CASE UNCHANGED accepted
      BY <3>2 DEF TypeOK
    <3>3. QED  BY <1>8, <3>1, <3>2 DEF WriteLogEvent
  <2>3. previousMessageTimestamp' \in [Streams -> Long]
    BY <1>8 DEF WriteLogEvent, EncodeLogEvent, TypeOK
  <2>4. pc' \in [Streams -> PcValues]
    BY <1>8 DEF WriteLogEvent, Goto, Leave, TypeOK, PcValues
  <2>5. QED  BY <1>8, <2>1, <2>2, <2>3, <2>4 DEF WriteLogEvent, TypeOK
<1>9. ASSUME NEW s \in Streams, WriteEof(s) PROVE TypeOK'
  <2>1. /\ sink' \in [Streams -> Seq(Records)]
        /\ faults' \in [Streams -> SUBSET FaultNames]
    BY <1>9, WriteTypes, RecordTypes DEF WriteEof, Kinds
  <2>2. QED  BY <1>9, <2>1 DEF WriteEof, Goto, Leave, TypeOK, PcValues
<1>10. ASSUME NEW s \in Streams, CloseSink(s) PROVE TypeOK'
  <2>1. sinkOpen' \in [Streams -> BOOLEAN]
    <3>1. PICK open \in BOOLEAN : sinkOpen' = [sinkOpen EXCEPT ![s] = open]
      BY <1>10 DEF CloseSink, TypeOK
    <3>2. QED  BY <3>1 DEF TypeOK
  <2>2. faults' \in [Streams -> SUBSET FaultNames]
    <3>1. \/ UNCHANGED faults
          \/ faults' = [faults EXCEPT ![s] = @ \cup {"sinkClose"}]
      BY <1>10 DEF CloseSink
    <3>2. faults[s] \cup {"sinkClose"} \in SUBSET FaultNames
      BY DEF TypeOK, FaultNames
    <3>3. QED  BY <3>1, <3>2 DEF TypeOK
  <2>3. pc' \in [Streams -> PcValues]
    <3>1. pc' = [pc EXCEPT ![s] = "idle"] \/ pc' = [pc EXCEPT ![s] = "destroy"]
      BY <1>10 DEF CloseSink, Goto, Leave
    <3>2. QED  BY <3>1 DEF TypeOK, PcValues
  <2>4. QED  BY <1>10, <2>1, <2>2, <2>3 DEF CloseSink, TypeOK
<1>11. ASSUME NEW s \in Streams, DestroyNativeState(s) PROVE TypeOK'
  BY <1>11 DEF DestroyNativeState, Goto, Leave, TypeOK, PcValues
<1>12. QED
  BY <1>1, <1>2, <1>3, <1>4, <1>5, <1>6, <1>7, <1>8, <1>9, <1>10, <1>11
     DEF Next, Continue

(* Every variable keeps its type.                                          *)
THEOREM TypeCorrect == Spec => []TypeOK
BY InitTypeOK, StepTypeOK, PTL DEF Spec

-----------------------------------------------------------------------------
(* The heap.                                                               *)

LEMMA HeapInvIsHeapExact == TypeOK /\ HeapInv => HeapExact
<1> SUFFICES ASSUME TypeOK, HeapInv PROVE HeapExact
  OBVIOUS
<1>1. 0 \notin liveStates
  BY ConstantsAssumption DEF TypeOK, ConstantsAssumption
<1>2. QED  BY <1>1 DEF HeapInv, HeapExact

(* Every step keeps the heap exact and every stream within its lifecycle.  *)
LEMMA StepHeap ==
  ASSUME TypeOK, HeapInv, LifecycleInv, [Next]_vars
  PROVE  HeapInv' /\ LifecycleInv'
<1> USE DEF Lifecycle, LifecycleInv
<1>1. ASSUME UNCHANGED <<nativeStateAddress, liveStates>> PROVE HeapInv'
  BY <1>1 DEF HeapInv
<1>2. CASE UNCHANGED vars
  BY <1>1, <1>2 DEF vars
<1>3. ASSUME NEW s \in Streams, Construct(s) PROVE HeapInv' /\ LifecycleInv'
  <2>1. PICK a \in Addresses \ liveStates :
          /\ liveStates' = liveStates \cup {a}
          /\ nativeStateAddress' = [nativeStateAddress EXCEPT ![s] = a]
    BY <1>3 DEF Construct
  <2>2. nativeStateAddress[s] = 0 /\ a # 0
    BY <1>3, ConstantsAssumption DEF Construct, ConstantsAssumption
  <2>3. /\ nativeStateAddress'[s] = a
        /\ \A t \in Streams \ {s} :
             nativeStateAddress'[t] = nativeStateAddress[t]
    BY <2>1 DEF TypeOK
  <2>4. HeapInv'
    <3>1. (\A t \in Streams :
             nativeStateAddress[t] # 0 => nativeStateAddress[t] \in liveStates)'
      BY <2>1, <2>3 DEF HeapInv
    <3>2. (\A b \in liveStates : \E t \in Streams : nativeStateAddress[t] = b)'
      BY <2>1, <2>2, <2>3, ConstantsAssumption
         DEF HeapInv, ConstantsAssumption, TypeOK
    <3>3. (\A t, u \in Streams :
             t # u /\ nativeStateAddress[t] # 0
               => nativeStateAddress[t] # nativeStateAddress[u])'
      BY <2>1, <2>2, <2>3 DEF HeapInv
    <3>4. QED  BY <3>1, <3>2, <3>3 DEF HeapInv
  <2>5. LifecycleInv'
    BY <1>3, <2>1, <2>2 DEF Construct, Goto, TypeOK
  <2>6. QED  BY <2>4, <2>5
<1>4. ASSUME NEW s \in Streams, NEW ts \in Long, CallWriteLogEvent(s, ts)
      PROVE  HeapInv' /\ LifecycleInv'
  BY <1>1, <1>4 DEF CallWriteLogEvent, Goto, Leave, TypeOK
<1>5. ASSUME NEW s \in Streams, CallClose(s) PROVE HeapInv' /\ LifecycleInv'
  BY <1>1, <1>5 DEF CallClose, Goto, TypeOK
<1>6. ASSUME NEW s \in Streams, PreambleEncodingFails(s)
      PROVE  HeapInv' /\ LifecycleInv'
  BY <1>1, <1>6 DEF PreambleEncodingFails, Goto, Leave, TypeOK
<1>7. ASSUME NEW s \in Streams, WritePreamble(s)
      PROVE  HeapInv' /\ LifecycleInv'
  BY <1>1, <1>7 DEF WritePreamble, Goto, Leave, TypeOK
<1>8. ASSUME NEW s \in Streams, EventEncodingFails(s)
      PROVE  HeapInv' /\ LifecycleInv'
  BY <1>1, <1>8 DEF EventEncodingFails, Goto, Leave, TypeOK
<1>9. ASSUME NEW s \in Streams, WriteLogEvent(s)
      PROVE  HeapInv' /\ LifecycleInv'
  BY <1>1, <1>9 DEF WriteLogEvent, Goto, Leave, TypeOK
<1>10. ASSUME NEW s \in Streams, WriteEof(s) PROVE HeapInv' /\ LifecycleInv'
  BY <1>1, <1>10 DEF WriteEof, Goto, Leave, TypeOK
<1>11. ASSUME NEW s \in Streams, CloseSink(s) PROVE HeapInv' /\ LifecycleInv'
  BY <1>1, <1>11 DEF CloseSink, Goto, Leave, TypeOK
<1>12. ASSUME NEW s \in Streams, DestroyNativeState(s)
       PROVE  HeapInv' /\ LifecycleInv'
  <2>1. HeapInv'
    BY <1>12 DEF DestroyNativeState, HeapInv, TypeOK
  <2>2. LifecycleInv'
    BY <1>12 DEF DestroyNativeState, Goto, Leave, TypeOK
  <2>3. QED  BY <2>1, <2>2
<1>13. QED
  BY <1>2, <1>3, <1>4, <1>5, <1>6, <1>7, <1>8, <1>9, <1>10, <1>11, <1>12
     DEF Next, Continue

LEMMA HeapInvariant == Spec => [](TypeOK /\ HeapInv /\ LifecycleInv)
<1>1. Init => TypeOK /\ HeapInv /\ LifecycleInv
  BY InitTypeOK DEF Init, HeapInv, Lifecycle, LifecycleInv
<1>2. TypeOK /\ HeapInv /\ LifecycleInv /\ [Next]_vars
        => (TypeOK /\ HeapInv /\ LifecycleInv)'
  BY StepTypeOK, StepHeap
<1>3. QED  BY <1>1, <1>2, PTL DEF Spec

(* createNativeState() and destroyNativeState() are paired: the live       *)
(* native states are those of the open streams, one each.                  *)
THEOREM NoLeakNoDoubleFree == Spec => []HeapExact
BY HeapInvariant, HeapInvIsHeapExact, PTL

(* No native encoding call dereferences a null or freed state.             *)
THEOREM NativeStateIsLive == Spec => []NativeStateLive
<1>1. HeapInv /\ LifecycleInv => NativeStateLive
  BY DEF HeapInv, LifecycleInv, Lifecycle, NativeStateLive
<1>2. QED  BY <1>1, HeapInvariant, PTL

-----------------------------------------------------------------------------
(* The sink.                                                               *)

(* A call on one stream leaves the others alone.                           *)
LEMMA OthersUntouched ==
  ASSUME TypeOK, NEW s \in Streams, NEW t \in Streams, s # t,
         \/ Construct(t) \/ CallClose(t) \/ Continue(t)
         \/ \E ts \in Long : CallWriteLogEvent(t, ts)
  PROVE  /\ pc'[s] = pc[s] /\ op'[s] = op[s] /\ arg'[s] = arg[s]
         /\ nativeStateAddress'[s] = nativeStateAddress[s]
         /\ timestampPattern'[s] = timestampPattern[s]
         /\ previousMessageTimestamp'[s] = previousMessageTimestamp[s]
         /\ sinkOpen'[s] = sinkOpen[s]
         /\ sink'[s] = sink[s]
         /\ accepted'[s] = accepted[s]
         /\ faults'[s] = faults[s]
<1> USE DEF TypeOK, Goto, Leave, Written, WriteThrows, Refused, Torn
<1>1. CASE Construct(t)
  BY <1>1 DEF Construct
<1>2. CASE CallClose(t)
  BY <1>2 DEF CallClose
<1>3. CASE \E ts \in Long : CallWriteLogEvent(t, ts)
  BY <1>3 DEF CallWriteLogEvent
<1>4. CASE PreambleEncodingFails(t) \/ EventEncodingFails(t)
  BY <1>4 DEF PreambleEncodingFails, EventEncodingFails
<1>5. CASE WritePreamble(t)
  BY <1>5 DEF WritePreamble, EncodePreamble
<1>6. CASE WriteLogEvent(t)
  BY <1>6 DEF WriteLogEvent, EncodeLogEvent
<1>7. CASE WriteEof(t)
  BY <1>7 DEF WriteEof
<1>8. CASE CloseSink(t) \/ DestroyNativeState(t)
  BY <1>8 DEF CloseSink, DestroyNativeState
<1>9. QED
  BY <1>1, <1>2, <1>3, <1>4, <1>5, <1>6, <1>7, <1>8 DEF Continue

(* A step that writes nothing preserves SinkInv(s), unless close() leaves  *)
(* an open stream with an EOF in it.                                       *)
LEMMA SinkInvFrame ==
  ASSUME NEW s \in Streams, SinkInv(s),
         timestampPattern'[s] = timestampPattern[s],
         previousMessageTimestamp'[s] = previousMessageTimestamp[s],
         sink'[s] = sink[s], accepted'[s] = accepted[s],
         pc[s] \in {"sinkClose", "destroy"} \/ nativeStateAddress[s] = 0
           => pc'[s] \in {"sinkClose", "destroy"} \/ nativeStateAddress'[s] = 0
  PROVE  SinkInv(s)'
BY DEF SinkInv, Decodes, Base

(* The preamble goes into an empty sink.                                   *)
LEMMA PreambleWritten ==
  ASSUME TypeOK, NEW s \in Streams, SinkInv(s), Lifecycle(s),
         WritePreamble(s), Written(s, PreambleRecord(s)),
         timestampPattern' = [timestampPattern EXCEPT ![s] = FALSE]
  PROVE  SinkInv(s)'
<1>1. sink[s] = <<>> /\ accepted[s] = <<>>
  BY DEF WritePreamble, Lifecycle, SinkInv, Decodes
<1>2. sink'[s] = <<PreambleRecord(s)>>
  BY <1>1 DEF Written, TypeOK
<1>3. accepted'[s] = <<>> /\ ~timestampPattern'[s]
  BY <1>1 DEF WritePreamble, TypeOK
<1>4. s \in FourByteStreams
        => previousMessageTimestamp'[s] = PreambleRecord(s).value
  BY DEF WritePreamble, EncodePreamble, PreambleRecord, Record, TypeOK
<1>5. PreambleRecord(s).kind = "preamble"
  BY DEF PreambleRecord, Record
<1>6. QED  BY <1>2, <1>3, <1>4, <1>5 DEF SinkInv, Decodes

(* An event follows the preamble and the events before it, and the reader  *)
(* computes its timestamp from theirs.                                     *)
LEMMA EventWritten ==
  ASSUME TypeOK, NEW s \in Streams, SinkInv(s), Lifecycle(s),
         WriteLogEvent(s), Written(s, EventRecord(s)),
         accepted' = [accepted EXCEPT ![s] = Append(@, arg[s])]
  PROVE  SinkInv(s)'
<1> DEFINE n == Len(accepted[s])
<1>0. /\ sink[s] \in Seq(Records) /\ accepted[s] \in Seq(Long)
      /\ arg[s] \in Long /\ previousMessageTimestamp[s] \in Long
      /\ n \in Nat
  BY DEF TypeOK
<1>1. sink[s] # <<>> /\ Len(sink[s]) = n + 1
  BY <1>0 DEF WriteLogEvent, Lifecycle, SinkInv, Decodes
<1>2. /\ sink'[s] = Append(sink[s], EventRecord(s))
      /\ accepted'[s] = Append(accepted[s], arg[s])
      /\ timestampPattern'[s] = timestampPattern[s]
  BY DEF Written, WriteLogEvent, TypeOK
<1>3. /\ Len(sink'[s]) = n + 2 /\ Len(accepted'[s]) = n + 1
      /\ \A k \in 1 .. n + 1 : sink'[s][k] = sink[s][k]
      /\ \A k \in 1 .. n : accepted'[s][k] = accepted[s][k]
      /\ sink'[s][n + 2] = EventRecord(s) /\ accepted'[s][n + 1] = arg[s]
      /\ sink'[s] # <<>> /\ accepted'[s] # <<>>
  BY <1>0, <1>1, <1>2, RecordTypes
<1>4. EventRecord(s).kind = "event"
  BY DEF EventRecord, Record
<1>5. arg[s] = Wrap(EventRecord(s).value
                      + Base(s, sink'[s], accepted'[s], n + 1))
  <2>1. CASE s \notin FourByteStreams
    <3>1. EventRecord(s).value = arg[s]
      BY <2>1 DEF EventRecord, Record
    <3>2. Base(s, sink'[s], accepted'[s], n + 1) = 0
      BY <2>1 DEF Base
    <3>3. arg[s] + 0 = arg[s]
      BY <1>0 DEF Long
    <3>4. QED  BY <3>1, <3>2, <3>3, <1>0, WrapDifference
  <2>2. CASE s \in FourByteStreams
    <3>1. Base(s, sink'[s], accepted'[s], n + 1) = previousMessageTimestamp[s]
      BY <2>2, <1>0, <1>1, <1>3 DEF Base, SinkInv
    <3>2. QED  BY <2>2, <3>1, <1>0, WrapDifference DEF EventRecord, Record
  <2>3. QED  BY <2>1, <2>2
<1>6. \A k \in 1 .. n :
        Base(s, sink'[s], accepted'[s], k) = Base(s, sink[s], accepted[s], k)
  <2> TAKE k \in 1 .. n
  <2>1. k # 1 => accepted'[s][k - 1] = accepted[s][k - 1]
    BY <1>0, <1>3
  <2>2. sink'[s][1] = sink[s][1]
    BY <1>0, <1>3
  <2>3. QED  BY <2>1, <2>2 DEF Base
<1>7. Decodes(s, sink[s], accepted[s])'
  <2>1. sink'[s][1].kind = "preamble"
    BY <1>0, <1>1, <1>3 DEF SinkInv, Decodes
  <2>2. ASSUME NEW k \in 1 .. n + 1
        PROVE  /\ sink'[s][k + 1].kind = "event"
               /\ accepted'[s][k] = Wrap(sink'[s][k + 1].value
                                     + Base(s, sink'[s], accepted'[s], k))
    <3>1. CASE k = n + 1
      BY <3>1, <1>0, <1>3, <1>4, <1>5
    <3>2. CASE k \in 1 .. n
      <4>1. /\ sink'[s][k + 1] = sink[s][k + 1]
            /\ accepted'[s][k] = accepted[s][k]
        BY <3>2, <1>0, <1>3
      <4>2. QED  BY <3>2, <4>1, <1>1, <1>6 DEF SinkInv, Decodes
    <3>3. QED  BY <3>1, <3>2, <1>0
  <2>3. QED  BY <2>1, <2>2, <1>0, <1>3 DEF Decodes
<1>8. s \in FourByteStreams
        => previousMessageTimestamp'[s] = accepted'[s][Len(accepted'[s])]
  BY <1>0, <1>3 DEF WriteLogEvent, EncodeLogEvent, TypeOK
<1>9. QED  BY <1>0, <1>1, <1>2, <1>3, <1>7, <1>8 DEF SinkInv

(* An EOF follows the preamble, the events and earlier EOFs.               *)
LEMMA EofWritten ==
  ASSUME TypeOK, NEW s \in Streams, SinkInv(s), Lifecycle(s),
         WriteEof(s), Written(s, Record("eof", 0)), Goto(s, "sinkClose")
  PROVE  SinkInv(s)'
<1>0. /\ sink[s] \in Seq(Records) /\ accepted[s] \in Seq(Long)
      /\ Len(accepted[s]) \in Nat
  BY DEF TypeOK
<1>1. sink[s] # <<>> /\ Len(accepted[s]) < Len(sink[s])
  BY DEF WriteEof, Lifecycle, SinkInv, Decodes
<1>2. /\ sink'[s] = Append(sink[s], Record("eof", 0))
      /\ accepted'[s] = accepted[s]
      /\ timestampPattern'[s] = timestampPattern[s]
      /\ previousMessageTimestamp'[s] = previousMessageTimestamp[s]
      /\ pc'[s] = "sinkClose"
  BY DEF Written, WriteEof, Goto, TypeOK
<1>3. /\ Len(sink'[s]) = Len(sink[s]) + 1
      /\ \A k \in 1 .. Len(sink[s]) : sink'[s][k] = sink[s][k]
      /\ sink'[s][Len(sink[s]) + 1].kind = "eof"
      /\ sink'[s] # <<>>
  BY <1>0, <1>2, RecordTypes DEF Record
<1>4. Decodes(s, sink[s], accepted[s])'
  <2> DEFINE n == Len(accepted[s])
             m == Len(sink[s])
  <2>1. n \in Nat /\ m \in Nat /\ n < m /\ m # 0
    BY <1>0, <1>1
  <2>2. sink'[s][1] = sink[s][1]
    BY <1>3, <2>1
  <2>3. ASSUME NEW k \in 1 .. n
        PROVE  /\ sink'[s][k + 1].kind = "event"
               /\ accepted'[s][k] = Wrap(sink'[s][k + 1].value
                                     + Base(s, sink'[s], accepted'[s], k))
    <3>1. sink'[s][k + 1] = sink[s][k + 1]
      <4>1. k + 1 \in 1 .. m
        BY <2>1
      <4>2. QED  BY <1>3, <4>1
    <3>2. Base(s, sink'[s], accepted'[s], k) = Base(s, sink[s], accepted[s], k)
      BY <1>2, <2>2 DEF Base
    <3>3. QED  BY <1>1, <1>2, <3>1, <3>2 DEF SinkInv, Decodes
  <2>4. ASSUME NEW k \in n + 2 .. m + 1
        PROVE  sink'[s][k].kind = "eof"
    <3>1. CASE k \in 1 .. m
      <4>1. sink[s][k].kind = "eof"
        BY <1>1, <2>1, <3>1 DEF SinkInv, Decodes
      <4>2. QED  BY <1>3, <3>1, <4>1
    <3>2. CASE k = m + 1
      BY <1>3, <3>2
    <3>3. QED  BY <2>1, <3>1, <3>2
  <2>5. sink'[s][1].kind = "preamble"
    BY <1>1, <2>2 DEF SinkInv, Decodes
  <2>6. QED  BY <1>2, <1>3, <2>1, <2>3, <2>4, <2>5 DEF Decodes
<1>5. QED  BY <1>0, <1>1, <1>2, <1>3, <1>4 DEF SinkInv

(* Every step keeps an undamaged stream's sink in step with accepted.      *)
LEMMA StepSink ==
  ASSUME IInv, [Next]_vars, NEW s \in Streams, Undamaged(s)'
  PROVE  SinkInv(s)'
<1>1. TypeOK /\ Lifecycle(s)
  BY DEF IInv, LifecycleInv
<1>2. CASE UNCHANGED vars
  BY <1>2 DEF vars, IInv, Undamaged, Damaged, SinkInv
<1>3. ASSUME NEW t \in Streams, s # t,
             \/ Construct(t) \/ CallClose(t) \/ Continue(t)
             \/ \E ts \in Long : CallWriteLogEvent(t, ts)
      PROVE  SinkInv(s)'
  <2>1. Undamaged(s)
    BY <1>1, <1>3, OthersUntouched DEF Undamaged, Damaged
  <2>2. QED  BY <1>1, <1>3, <2>1, OthersUntouched, SinkInvFrame DEF IInv
<1>4. CASE Construct(s)
  <2>1. Undamaged(s)
    BY <1>4 DEF Construct, Undamaged, Damaged
  <2>2. sink[s] = <<>> /\ accepted[s] = <<>> /\ timestampPattern[s]
    BY <1>1, <1>4, <2>1 DEF Construct, Lifecycle, SinkInv, Decodes, IInv
  <2>3. sink'[s] = <<>> /\ accepted'[s] = <<>> /\ timestampPattern'[s]
    BY <1>1, <1>4, <2>2 DEF Construct, TypeOK
  <2>4. QED  BY <2>3 DEF SinkInv, Decodes
<1>5. CASE \/ CallClose(s) \/ \E ts \in Long : CallWriteLogEvent(s, ts)
           \/ PreambleEncodingFails(s) \/ EventEncodingFails(s)
  <2> USE DEF CallClose, CallWriteLogEvent, PreambleEncodingFails,
              EventEncodingFails
  <2>1. Undamaged(s)
    BY <1>5 DEF Undamaged, Damaged
  <2>2. pc[s] \in {"idle", "preamble", "event"}
    BY <1>5
  <2>3. QED  BY <1>5, <2>1, <2>2, SinkInvFrame DEF IInv
<1>6. CASE WritePreamble(s)
  <2>1. CASE Written(s, PreambleRecord(s))
    <3>1. Undamaged(s)
      BY <2>1 DEF Written, Undamaged, Damaged
    <3>2. timestampPattern' = [timestampPattern EXCEPT ![s] = FALSE]
      <4>1. sink'[s] # sink[s]
        BY <1>1, <2>1, RecordTypes DEF Written, TypeOK
      <4>2. ~WriteThrows(s, "preamble")
        <5>1. ~Refused(s, "preamble")
          BY <4>1 DEF Refused
        <5>2. ~Torn(s, "preamble")
          <6>1. DOMAIN faults = Streams /\ "torn" \notin faults'[s]
            BY <1>1 DEF Undamaged, Damaged, TypeOK
          <6>2. QED  BY <6>1 DEF Torn
        <5>3. QED  BY <5>1, <5>2 DEF WriteThrows
      <4>3. QED  BY <1>6, <4>2 DEF WritePreamble
    <3>3. QED  BY <1>1, <1>6, <2>1, <3>1, <3>2, PreambleWritten DEF IInv
  <2>2. CASE WriteThrows(s, "preamble") /\ UNCHANGED timestampPattern
    <3>1. Refused(s, "preamble")
      BY <1>1, <2>2 DEF WriteThrows, Torn, Undamaged, Damaged, TypeOK
    <3>2. Undamaged(s)
      BY <1>1, <3>1 DEF Refused, Undamaged, Damaged, TypeOK
    <3>3. timestampPattern[s] /\ sink[s] = <<>>
      BY <1>1, <1>6, <3>2 DEF WritePreamble, Lifecycle, SinkInv, IInv
    <3>4. sink'[s] = sink[s] /\ accepted'[s] = accepted[s]
      BY <1>6, <3>1 DEF WritePreamble, Refused
    <3>5. QED  BY <2>2, <3>2, <3>3, <3>4 DEF SinkInv, Decodes, IInv
  <2>3. QED  BY <1>6, <2>1, <2>2 DEF WritePreamble
<1>7. CASE WriteLogEvent(s)
  <2>1. CASE /\ Written(s, EventRecord(s))
             /\ accepted' = [accepted EXCEPT ![s] = Append(@, arg[s])]
    <3>1. Undamaged(s)
      BY <2>1 DEF Written, Undamaged, Damaged
    <3>2. QED  BY <1>1, <1>7, <2>1, <3>1, EventWritten DEF IInv
  <2>2. CASE WriteThrows(s, "event") /\ UNCHANGED accepted
    <3>1. Refused(s, "event")
      BY <1>1, <2>2 DEF WriteThrows, Torn, Undamaged, Damaged, TypeOK
    <3>2. Undamaged(s) /\ s \notin FourByteStreams
      BY <1>1, <3>1 DEF Refused, Undamaged, Damaged, TypeOK
    <3>3. pc[s] = "event" /\ previousMessageTimestamp' = previousMessageTimestamp
      BY <1>7, <3>2 DEF WriteLogEvent, EncodeLogEvent
    <3>4. QED
      BY <1>7, <2>2, <3>1, <3>2, <3>3, SinkInvFrame
         DEF WriteLogEvent, Refused, IInv
  <2>3. QED  BY <1>7, <2>1, <2>2 DEF WriteLogEvent
<1>8. CASE WriteEof(s)
  <2>1. CASE Written(s, Record("eof", 0)) /\ Goto(s, "sinkClose")
    <3>1. Undamaged(s)
      BY <2>1 DEF Written, Undamaged, Damaged
    <3>2. QED  BY <1>1, <1>8, <2>1, <3>1, EofWritten DEF IInv
  <2>2. CASE WriteThrows(s, "eof")
    <3>1. Refused(s, "eof")
      BY <1>1, <2>2 DEF WriteThrows, Torn, Undamaged, Damaged, TypeOK
    <3>2. Undamaged(s)
      BY <1>1, <3>1 DEF Refused, Undamaged, Damaged, TypeOK
    <3>3. QED  BY <1>8, <3>1, <3>2, SinkInvFrame DEF WriteEof, Refused, IInv
  <2>3. QED  BY <1>8, <2>1, <2>2 DEF WriteEof
<1>9. CASE CloseSink(s)
  <2>1. UNCHANGED faults /\ Goto(s, "destroy")
    <3>1. faults' # [faults EXCEPT ![s] = @ \cup {"sinkClose"}]
      BY <1>1 DEF Undamaged, Damaged, TypeOK
    <3>2. QED  BY <1>9, <3>1 DEF CloseSink
  <2>2. pc'[s] = "destroy"
    BY <1>1, <2>1 DEF Goto, TypeOK
  <2>3. Undamaged(s)
    BY <2>1 DEF Undamaged, Damaged
  <2>4. QED  BY <1>9, <2>2, <2>3, SinkInvFrame DEF CloseSink, IInv
<1>10. CASE DestroyNativeState(s)
  <2>1. nativeStateAddress'[s] = 0
    BY <1>1, <1>10 DEF DestroyNativeState, TypeOK
  <2>2. Undamaged(s)
    BY <1>10 DEF DestroyNativeState, Undamaged, Damaged
  <2>3. QED  BY <1>10, <2>1, <2>2, SinkInvFrame DEF DestroyNativeState, IInv
<1>11. QED
  BY <1>2, <1>3, <1>4, <1>5, <1>6, <1>7, <1>8, <1>9, <1>10
     DEF Next, Continue

LEMMA Invariant == Spec => []IInv
<1>1. Init => IInv
  BY InitTypeOK DEF Init, IInv, HeapInv, Lifecycle, LifecycleInv, SinkInv,
                    Decodes
<1>2. IInv /\ [Next]_vars => IInv'
  BY StepTypeOK, StepHeap, StepSink DEF IInv
<1>3. QED  BY <1>1, <1>2, PTL DEF Spec

(* The sink of an undamaged stream reads back as the events whose          *)
(* writeLogEvent returned normally, whatever the calls, the timestamps and *)
(* the failures were.                                                      *)
THEOREM UndamagedSinkDecodes == Spec => []AcceptedDecodable
<1>1. IInv => AcceptedDecodable
  BY DEF IInv, SinkInv, AcceptedDecodable
<1>2. QED  BY <1>1, Invariant, PTL

(* Closed streams stay closed and write nothing but EOFs, for good.        *)
THEOREM ClosedStaysInert == Spec => ClosedStreamInert
<1> DEFINE Inert(s) == /\ nativeStateAddress'[s] = 0
                       /\ accepted'[s] = accepted[s]
                       /\ \/ sink'[s] = sink[s]
                          \/ sink'[s] = Append(sink[s], Record("eof", 0))
                          \/ sink'[s] = Append(sink[s], Record("torn", 0))
<1>1. ASSUME TypeOK, LifecycleInv, [Next]_vars, NEW s \in Streams,
             pc[s] # "unborn", nativeStateAddress[s] = 0
      PROVE  Inert(s)
  <2>1. pc[s] \in {"idle", "eof", "sinkClose", "destroy"}
    BY <1>1 DEF LifecycleInv, Lifecycle, TypeOK, PcValues
  <2>2. CASE UNCHANGED vars
    BY <1>1, <2>2 DEF vars
  <2>3. ASSUME NEW t \in Streams, s # t,
               \/ Construct(t) \/ CallClose(t) \/ Continue(t)
               \/ \E ts \in Long : CallWriteLogEvent(t, ts)
        PROVE  Inert(s)
    BY <1>1, <2>3, OthersUntouched
  <2>4. CASE CallClose(s) \/ \E ts \in Long : CallWriteLogEvent(s, ts)
    BY <1>1, <2>4 DEF CallClose, CallWriteLogEvent
  <2>5. CASE WriteEof(s)
    BY <1>1, <2>5 DEF WriteEof, Written, WriteThrows, Refused, Torn, TypeOK
  <2>6. CASE CloseSink(s)
    BY <1>1, <2>6 DEF CloseSink
  <2>7. CASE DestroyNativeState(s)
    BY <1>1, <2>7 DEF DestroyNativeState, TypeOK
  <2>8. QED
    BY <1>1, <2>1, <2>2, <2>3, <2>4, <2>5, <2>6, <2>7
       DEF Next, Continue, Construct, PreambleEncodingFails, WritePreamble,
           EventEncodingFails, WriteLogEvent
<1>2. TypeOK /\ LifecycleInv /\ [Next]_vars
        => [\A s \in Streams :
              pc[s] # "unborn" /\ nativeStateAddress[s] = 0 => Inert(s)]_vars
  BY <1>1
<1>3. QED  BY <1>2, HeapInvariant, PTL DEF Spec, ClosedStreamInert

-----------------------------------------------------------------------------
(* ClpIrOutputStream implements IrLog.                                     *)

(* The assumption: a refused event has advanced previousMessageTimestamp,  *)
(* and the next event a reader sees is off by its difference.              *)
EncodedEventsAccepted ==
  \A s \in FourByteStreams : <<"refused", "event", s>> \notin WriteFaults

-----------------------------------------------------------------------------
(* ts is the reader's clock up to the n-th record.                         *)
IsClock(s, records, n, ts) ==
  ts = [k \in 1 .. n |->
          IF s \notin FourByteStreams \/ k = 1 THEN records[k].value
          ELSE Wrap(ts[k - 1] + records[k].value)]

(* The recursive function Clock is defined by its recursion.               *)
LEMMA ClockExists ==
  ASSUME NEW s, NEW records \in Seq(Records)
  PROVE  IsClock(s, records, Len(records), Clock(s, records))
<1> DEFINE T == {n \in 0 .. Len(records) :
                   ~ \E ts : IsClock(s, records, n, ts)}
<1>1. T = {}
  <2> SUFFICES ASSUME T # {} PROVE FALSE
    OBVIOUS
  <2>1. PICK m \in T : \A n \in T : m <= n
    <3>1. T \in SUBSET Nat
      OBVIOUS
    <3> HIDE DEF T
    <3>2. QED  BY <3>1, Least
  <2>2. m # 0
    <3>1. IsClock(s, records, 0, << >>)
      BY DEF IsClock
    <3>2. QED  BY <3>1
  <2>3. m - 1 \in 0 .. Len(records) /\ m - 1 \notin T
    BY <2>1, <2>2
  <2>4. PICK ts : IsClock(s, records, m - 1, ts)
    BY <2>3
  <2> DEFINE us == [k \in 1 .. m |->
                      IF k # m THEN ts[k]
                      ELSE IF s \notin FourByteStreams \/ k = 1
                           THEN records[k].value
                           ELSE Wrap(ts[k - 1] + records[k].value)]
  <2>5. IsClock(s, records, m, us)
    <3>1. \A k \in 1 .. m - 1 :
            ts[k] = IF s \notin FourByteStreams \/ k = 1 THEN records[k].value
                    ELSE Wrap(ts[k - 1] + records[k].value)
      BY <2>4 DEF IsClock
    <3>2. \A k \in 1 .. m :
            us[k] = IF s \notin FourByteStreams \/ k = 1 THEN records[k].value
                    ELSE Wrap(us[k - 1] + records[k].value)
      <4> TAKE k \in 1 .. m
      <4>1. m \in Nat /\ (k # 1 => k - 1 \in 1 .. m - 1)
        OBVIOUS
      <4>2. k # 1 => us[k - 1] = ts[k - 1]
        BY <4>1
      <4>3. CASE k = m
        BY <4>2, <4>3
      <4>4. CASE k # m
        BY <3>1, <4>1, <4>2, <4>4
      <4>5. QED  BY <4>3, <4>4
    <3> HIDE DEF us
    <3>3. us = [k \in 1 .. m |-> us[k]]
      BY DEF us
    <3>4. QED  BY <3>2, <3>3 DEF IsClock
  <2>6. QED  BY <2>1, <2>5
<1>2. \E ts : IsClock(s, records, Len(records), ts)
  <2>1. Len(records) \in 0 .. Len(records)
    OBVIOUS
  <2>2. QED  BY <1>1, <2>1
<1>3. Clock(s, records) = CHOOSE ts : IsClock(s, records, Len(records), ts)
  BY DEF Clock, IsClock
<1>4. QED  BY <1>2, <1>3

(* What is read first does not depend on what is written later.            *)
LEMMA ClockPrefix ==
  ASSUME NEW s, NEW records \in Seq(Records), NEW x \in Records
  PROVE  \A k \in 1 .. Len(records) :
           Clock(s, Append(records, x))[k] = Clock(s, records)[k]
<1> DEFINE n == Len(records)
           longer == Append(records, x)
           f == Clock(s, records)
           g == Clock(s, longer)
           T == {k \in 1 .. n : g[k] # f[k]}
<1>1. /\ n \in Nat /\ longer \in Seq(Records) /\ Len(longer) = n + 1
      /\ \A k \in 1 .. n : longer[k] = records[k]
  OBVIOUS
<1>2. IsClock(s, records, n, f) /\ IsClock(s, longer, n + 1, g)
  BY <1>1, ClockExists
<1> SUFFICES ASSUME T # {} PROVE FALSE
  OBVIOUS
<1>3. PICK k \in T : \A j \in T : k <= j
  <2>1. T \in SUBSET Nat
    OBVIOUS
  <2> HIDE DEF T
  <2>2. QED  BY <2>1, Least
<1> HIDE DEF n, longer, f, g
<1>4. k \in 1 .. n /\ k \in 1 .. n + 1 /\ longer[k] = records[k]
  BY <1>1
<1>5. k # 1 => g[k - 1] = f[k - 1]
  BY <1>1, <1>3, <1>4
<1>6. f[k] = IF s \notin FourByteStreams \/ k = 1 THEN records[k].value
             ELSE Wrap(f[k - 1] + records[k].value)
  BY <1>2, <1>4 DEF IsClock
<1>7. g[k] = IF s \notin FourByteStreams \/ k = 1 THEN longer[k].value
             ELSE Wrap(g[k - 1] + longer[k].value)
  BY <1>2, <1>4 DEF IsClock
<1>8. QED  BY <1>4, <1>5, <1>6, <1>7

(* A record more moves the clock once.                                     *)
LEMMA ClockAppend ==
  ASSUME NEW s, NEW records \in Seq(Records), NEW x \in Records,
         records # <<>>
  PROVE  Clock(s, Append(records, x))[Len(records) + 1] =
           IF s \notin FourByteStreams THEN x.value
           ELSE Wrap(Clock(s, records)[Len(records)] + x.value)
<1> DEFINE n == Len(records)
           m == n + 1
           longer == Append(records, x)
           g == Clock(s, longer)
<1>1. /\ n \in Nat \ {0} /\ longer \in Seq(Records) /\ Len(longer) = m
      /\ longer[m] = x
  OBVIOUS
<1>2. m \in 1 .. m /\ m # 1 /\ m - 1 = n
  BY <1>1
<1>3. IsClock(s, longer, m, g)
  BY <1>1, ClockExists
<1>4. g[n] = Clock(s, records)[n]
  BY <1>1, ClockPrefix
<1> HIDE DEF n, m, longer, g
<1>5. g[m] = IF s \notin FourByteStreams \/ m = 1 THEN longer[m].value
             ELSE Wrap(g[m - 1] + longer[m].value)
  BY <1>2, <1>3 DEF IsClock
<1>6. g[m] = IF s \notin FourByteStreams THEN x.value
             ELSE Wrap(g[n] + x.value)
  BY <1>1, <1>2, <1>5
<1>7. QED  BY <1>4, <1>6 DEF n, m, longer, g

-----------------------------------------------------------------------------
(* What a record more does to what the reader can read.                    *)
LEMMA ReadableAppend ==
  ASSUME NEW records \in Seq(Records), NEW x \in Records,
         NEW longer, longer = Append(records, x)
  PROVE  /\ Stops(records) # {}
              => Stops(longer) # {} /\ Readable(longer) = Readable(records)
         /\ Stops(records) = {} => Readable(records) = records
         /\ Stops(records) = {} /\ x.kind \in {"eof", "torn"}
              => Stops(longer) # {} /\ Readable(longer) = records
         /\ Stops(records) = {} /\ x.kind \notin {"eof", "torn"}
              => Stops(longer) = {} /\ Readable(longer) = longer
<1> DEFINE n == Len(records)
<1>1. /\ n \in Nat /\ longer \in Seq(Records) /\ Len(longer) = n + 1
      /\ \A k \in 1 .. n : longer[k] = records[k]
      /\ longer[n + 1] = x
      /\ DOMAIN records = 1 .. n /\ DOMAIN longer = 1 .. n + 1
  OBVIOUS
<1> HIDE DEF n
<1>2. /\ x.kind \in {"eof", "torn"} => Stops(longer) = Stops(records) \cup {n + 1}
      /\ x.kind \notin {"eof", "torn"} => Stops(longer) = Stops(records)
      /\ Stops(records) \in SUBSET (1 .. n)
  BY <1>1 DEF Stops
<1>3. ASSUME Stops(records) # {}
      PROVE  Stops(longer) # {} /\ Readable(longer) = Readable(records)
  <2>1. PICK m \in Stops(records) : \A k \in Stops(records) : m <= k
    BY <1>1, <1>2, <1>3, Least
  <2>2. (CHOOSE k \in Stops(records) : \A j \in Stops(records) : k <= j) = m
    BY <1>1, <1>2, <2>1
  <2>3. (CHOOSE k \in Stops(longer) : \A j \in Stops(longer) : k <= j) = m
    <3>1. m \in Stops(longer) /\ \A k \in Stops(longer) : m <= k
      BY <1>1, <1>2, <2>1
    <3>2. \A k \in Stops(longer) : k \in Nat
      BY <1>1, <1>2
    <3>3. QED  BY <3>1, <3>2
  <2>4. SubSeq(longer, 1, m - 1) = SubSeq(records, 1, m - 1)
    BY <1>1, <1>2, <2>1
  <2>5. QED  BY <1>2, <1>3, <2>2, <2>3, <2>4 DEF Readable
<1>4. ASSUME Stops(records) = {}, x.kind \in {"eof", "torn"}
      PROVE  Readable(longer) = records
  <2> DEFINE m == n + 1
  <2>1. Stops(longer) # {}
    BY <1>2, <1>4
  <2>2. (CHOOSE k \in Stops(longer) : \A j \in Stops(longer) : k <= j) = m
    BY <1>1, <1>2, <1>4
  <2>3. SubSeq(longer, 1, m - 1) = records
    BY <1>1 DEF n
  <2> HIDE DEF m
  <2>4. QED  BY <2>1, <2>2, <2>3 DEF Readable
<1>5. QED  BY <1>2, <1>3, <1>4 DEF Readable

(* An event more appends its timestamp.                                    *)
LEMMA DecodedAppend ==
  ASSUME NEW s, NEW records \in Seq(Records), NEW x \in Records,
         records # <<>>, records[1].kind = "preamble", NEW v,
         v = IF s \notin FourByteStreams THEN x.value
             ELSE Wrap(Clock(s, records)[Len(records)] + x.value)
  PROVE  DecodedTimestamps(s, Append(records, x)) = Append(DecodedTimestamps(s, records), v)
<1> DEFINE n == Len(records)
           longer == Append(records, x)
           was == Clock(s, records)
           clock == Clock(s, longer)
<1>1. /\ n \in Nat \ {0} /\ longer \in Seq(Records) /\ Len(longer) = n + 1
      /\ longer # <<>> /\ longer[1].kind = "preamble"
  OBVIOUS
<1>2. /\ \A k \in 1 .. n : clock[k] = was[k]
      /\ clock[n + 1] = v
  BY ClockPrefix, ClockAppend
<1> HIDE DEF n, longer, was, clock
<1>3. /\ DecodedTimestamps(s, records) = [k \in 1 .. n - 1 |-> was[k + 1]]
      /\ DecodedTimestamps(s, longer) = [k \in 1 .. n |-> clock[k + 1]]
  BY <1>1 DEF DecodedTimestamps, n, longer, was, clock
<1>4. \A k \in 1 .. n - 1 : clock[k + 1] = was[k + 1]
  BY <1>1, <1>2
<1> DEFINE V == {was[k + 1] : k \in 1 .. n - 1} \cup {v}
<1>5. [k \in 1 .. n - 1 |-> was[k + 1]] \in Seq(V)
  <2>1. n - 1 \in Nat /\ \A k \in 1 .. n - 1 : was[k + 1] \in V
    BY <1>1
  <2> HIDE DEF V
  <2>2. QED  BY <2>1
<1> HIDE DEF V
<1>6. Append([k \in 1 .. n - 1 |-> was[k + 1]], v) =
        [k \in 1 .. n |-> IF k = n THEN v ELSE was[k + 1]]
  BY <1>1, <1>5
<1>7. QED  BY <1>1, <1>2, <1>3, <1>4, <1>6 DEF longer

-----------------------------------------------------------------------------
(* The invariant: while the reader can get further, the sink is open with  *)
(* room for the event being written, starts with a preamble, and           *)
(* previousMessageTimestamp is where the reader's clock stands.            *)
OpenLog(s) ==
  /\ timestampPattern[s] <=> sink[s] = <<>>
  /\ sinkOpen[s]
  /\ pc[s] = "event" => Len(sink[s]) <= MaxRecords + 1
  /\ sink[s] # <<>> =>
       /\ sink[s][1].kind = "preamble"
       /\ s \in FourByteStreams =>
            previousMessageTimestamp[s] = Clock(s, sink[s])[Len(sink[s])]

LogInv(s) ==
  /\ pc[s] = "preamble" => op[s] \in {"writeLogEvent", "close"}
  /\ pc[s] = "event" => op[s] = "writeLogEvent"
  /\ pc[s] \in {"eof", "sinkClose", "destroy"} => op[s] = "close"
  /\ pc[s] \in {"sinkClose", "destroy"} => Ended(s)
  /\ ~Ended(s) => OpenLog(s)

(* What a record more does to the log.                                     *)
LEMMA LogAppend ==
  ASSUME TypeOK, NEW s \in Streams, NEW x \in Records,
         sink'[s] = Append(sink[s], x)
  PROVE  /\ Ended(s) \/ x.kind \in {"eof", "torn"}
              => Ended(s)' /\ ReaderLog(s)' = ReaderLog(s)
         /\ ~Ended(s) /\ x.kind \notin {"eof", "torn"}
              => /\ ~Ended(s)'
                 /\ ReaderLog(s) = DecodedTimestamps(s, sink[s])
                 /\ ReaderLog(s)' = DecodedTimestamps(s, sink'[s])
<1>1. sink[s] \in Seq(Records)
  BY DEF TypeOK
<1> DEFINE records == sink[s]
           longer == sink'[s]
<1>2. /\ Ended(s) <=> Stops(records) # {}
      /\ Ended(s)' <=> Stops(longer) # {}
      /\ ReaderLog(s) = DecodedTimestamps(s, Readable(records))
      /\ ReaderLog(s)' = DecodedTimestamps(s, Readable(longer))
  BY DEF Ended, ReaderLog
<1>3. records \in Seq(Records) /\ longer = Append(records, x)
  BY <1>1
<1> HIDE DEF records, longer
<1>4. /\ Stops(records) # {}
           => Stops(longer) # {} /\ Readable(longer) = Readable(records)
      /\ Stops(records) = {} => Readable(records) = records
      /\ Stops(records) = {} /\ x.kind \in {"eof", "torn"}
           => Stops(longer) # {} /\ Readable(longer) = records
      /\ Stops(records) = {} /\ x.kind \notin {"eof", "torn"}
           => Stops(longer) = {} /\ Readable(longer) = longer
  BY <1>3, ReadableAppend
<1>5. /\ Ended(s) \/ x.kind \in {"eof", "torn"}
           => Ended(s)' /\ ReaderLog(s)' = ReaderLog(s)
      /\ ~Ended(s) /\ x.kind \notin {"eof", "torn"}
           => /\ ~Ended(s)'
              /\ ReaderLog(s) = DecodedTimestamps(s, records)
              /\ ReaderLog(s)' = DecodedTimestamps(s, longer)
  BY <1>2, <1>4
<1>6. QED  BY <1>5 DEF records, longer

-----------------------------------------------------------------------------
(* One stream's part in a step of IrLog.                                   *)
Same(s) ==
  /\ Pending(s)' = Pending(s)
  /\ ReaderLog(s)' = ReaderLog(s)
  /\ Len(accepted'[s]) = Len(accepted[s])
  /\ Ended(s)' = Ended(s)

Submits(s) ==
  /\ Pending(s) = {}
  /\ \E ts \in Long : Pending(s)' = {ts}
  /\ ReaderLog(s)' = ReaderLog(s)
  /\ Len(accepted'[s]) = Len(accepted[s])
  /\ Ended(s)' = Ended(s)

Commits(s) ==
  \E ts \in Pending(s) :
    /\ ReaderLog(s)' = IF Ended(s) THEN ReaderLog(s)
                       ELSE Append(ReaderLog(s), ts)
    /\ Len(accepted'[s]) = Len(accepted[s]) + 1
    /\ Pending(s)' = {}
    /\ Ended(s)' = Ended(s)

Rejects(s) ==
  /\ Pending(s) # {}
  /\ Pending(s)' = {}
  /\ ReaderLog(s)' = ReaderLog(s)
  /\ Len(accepted'[s]) = Len(accepted[s])
  /\ Ended(s)' = Ended(s) \/ Ended(s)' = TRUE

Ends(s) ==
  /\ Pending(s) = {}
  /\ Pending(s)' = {}
  /\ ReaderLog(s)' = ReaderLog(s)
  /\ Len(accepted'[s]) = Len(accepted[s])
  /\ Ended(s)' = TRUE

LogStep(s) == Same(s) \/ Submits(s) \/ Commits(s) \/ Rejects(s) \/ Ends(s)

(* The streams' parts make a step.                                         *)
LEMMA LogStepSimulates ==
  ASSUME NEW s \in Streams, LogStep(s),
         \A t \in Streams \ {s} : Same(t)
  PROVE  [Log!Next]_Log!vars
<1>1. CASE Same(s)
  <2>1. \A t \in Streams : Same(t)
    BY <1>1
  <2>2. UNCHANGED Log!vars
    BY <2>1 DEF Same, Log!vars
  <2>3. QED  BY <2>2
<1>2. CASE Submits(s)
  <2>1. PICK ts \in Long : Pending(s)' = {ts}
    BY <1>2 DEF Submits
  <2>2. Log!Submit(s, ts)
    BY <1>2, <2>1 DEF Submits, Same, Log!Submit
  <2>3. QED  BY <2>2 DEF Log!Next
<1>3. CASE Commits(s)
  <2>1. Log!Commit(s)
    BY <1>3 DEF Commits, Same, Log!Commit
  <2>2. QED  BY <2>1 DEF Log!Next
<1>4. CASE Rejects(s)
  <2>1. Log!Reject(s)
    BY <1>4 DEF Rejects, Same, Log!Reject
  <2>2. QED  BY <2>1 DEF Log!Next
<1>5. CASE Ends(s)
  <2>1. Log!End(s)
    BY <1>5 DEF Ends, Same, Log!End
  <2>2. QED  BY <2>1 DEF Log!Next
<1>6. QED  BY <1>1, <1>2, <1>3, <1>4, <1>5 DEF LogStep

-----------------------------------------------------------------------------
(* The steps of a stream.                                                  *)

(* A step that writes nothing leaves what a reader sees.                   *)
LEMMA NothingWritten ==
  ASSUME NEW s \in Streams, sink'[s] = sink[s], accepted'[s] = accepted[s]
  PROVE  /\ Ended(s)' = Ended(s) /\ ReaderLog(s)' = ReaderLog(s)
         /\ Len(accepted'[s]) = Len(accepted[s])
BY DEF Ended, ReaderLog

(* A step that neither writes nor moves the reference timestamp of a log   *)
(* that has not ended preserves OpenLog.                                   *)
LEMMA OpenLogFrame ==
  ASSUME NEW s \in Streams, OpenLog(s),
         timestampPattern'[s] = timestampPattern[s],
         sink'[s] = sink[s], sinkOpen'[s] = sinkOpen[s],
         previousMessageTimestamp'[s] = previousMessageTimestamp[s],
         pc'[s] = "event" => pc[s] = "event" \/ Len(sink[s]) <= MaxRecords + 1
  PROVE  OpenLog(s)'
BY DEF OpenLog

LEMMA StepOfOther ==
  ASSUME TypeOK, NEW s \in Streams, NEW t \in Streams, s # t, LogInv(s),
         \/ Construct(t) \/ CallClose(t) \/ Continue(t)
         \/ \E ts \in Long : CallWriteLogEvent(t, ts)
  PROVE  Same(s) /\ LogInv(s)'
<1>1. /\ pc'[s] = pc[s] /\ op'[s] = op[s] /\ arg'[s] = arg[s]
      /\ timestampPattern'[s] = timestampPattern[s]
      /\ previousMessageTimestamp'[s] = previousMessageTimestamp[s]
      /\ sinkOpen'[s] = sinkOpen[s]
      /\ sink'[s] = sink[s]
      /\ accepted'[s] = accepted[s]
  BY OthersUntouched
<1>2. Same(s)
  BY <1>1, NothingWritten DEF Same, Pending
<1>3. ~Ended(s)' => OpenLog(s)'
  BY <1>1, <1>2, OpenLogFrame DEF Same, LogInv
<1>4. QED  BY <1>1, <1>2, <1>3 DEF Same, LogInv

LEMMA StepConstruct ==
  ASSUME TypeOK, NEW s \in Streams, LogInv(s), Lifecycle(s), Construct(s)
  PROVE  LogStep(s) /\ LogInv(s)'
<1>1. /\ pc[s] = "unborn" /\ pc'[s] = "idle"
      /\ timestampPattern[s] /\ timestampPattern'[s]
      /\ sink' = sink /\ sinkOpen' = sinkOpen /\ accepted' = accepted
  BY DEF Construct, Goto, TypeOK, Lifecycle
<1>2. Same(s)
  BY <1>1, NothingWritten DEF Same, Pending
<1>3. ~Ended(s)' => OpenLog(s)'
  BY <1>1, <1>2 DEF Same, LogInv, OpenLog
<1>4. QED  BY <1>1, <1>2, <1>3 DEF LogStep, LogInv

LEMMA StepCall ==
  ASSUME TypeOK, NEW s \in Streams, LogInv(s), Lifecycle(s),
         CallClose(s) \/ \E ts \in Long : CallWriteLogEvent(s, ts)
  PROVE  LogStep(s) /\ LogInv(s)'
<1>1. /\ pc[s] = "idle"
      /\ timestampPattern' = timestampPattern
      /\ previousMessageTimestamp' = previousMessageTimestamp
      /\ sink' = sink /\ sinkOpen' = sinkOpen /\ accepted' = accepted
  BY DEF CallClose, CallWriteLogEvent
<1>2. /\ Ended(s)' = Ended(s) /\ ReaderLog(s)' = ReaderLog(s)
      /\ Len(accepted'[s]) = Len(accepted[s])
  BY <1>1, NothingWritten
<1>3. Pending(s) = {}
  BY <1>1 DEF Pending
<1>4. CASE CallClose(s)
  <2>1. op'[s] = "close" /\ pc'[s] \in {"preamble", "eof"}
    BY <1>4 DEF CallClose, Goto, TypeOK
  <2>2. Pending(s)' = {}
    BY <2>1 DEF Pending
  <2>3. ~Ended(s)' => OpenLog(s)'
    BY <1>1, <1>2, <2>1, OpenLogFrame DEF LogInv
  <2>4. QED  BY <1>2, <1>3, <2>1, <2>2, <2>3 DEF LogStep, Same, LogInv
<1>5. CASE \E ts \in Long : CallWriteLogEvent(s, ts)
  <2>1. PICK ts \in Long : CallWriteLogEvent(s, ts)
    BY <1>5
  <2>2. op'[s] = "writeLogEvent" /\ arg'[s] = ts
    BY <2>1 DEF CallWriteLogEvent, TypeOK
  <2>3. CASE pc'[s] = "idle"
    <3>1. Pending(s)' = {}
      BY <2>3 DEF Pending
    <3>2. ~Ended(s)' => OpenLog(s)'
      BY <1>1, <1>2, <2>3, OpenLogFrame DEF LogInv
    <3>3. QED  BY <1>2, <1>3, <2>3, <3>1, <3>2 DEF LogStep, Same, LogInv
  <2>4. CASE pc'[s] \in {"preamble", "event"}
    <3>1. Pending(s)' = {ts}
      BY <2>2, <2>4 DEF Pending
    <3>2. Len(sink[s]) <= MaxRecords + 1
      <4>1. pc' # [pc EXCEPT ![s] = "idle"]
        BY <2>4 DEF TypeOK
      <4>2. Len(sink[s]) < MaxRecords
        BY <2>1, <4>1 DEF CallWriteLogEvent, Room, Leave, Goto
      <4>3. Len(sink[s]) \in Nat /\ MaxRecords \in Nat
        BY ConstantsAssumption DEF TypeOK, ConstantsAssumption
      <4>4. QED  BY <4>2, <4>3
    <3>3. ~Ended(s)' => OpenLog(s)'
      BY <1>1, <1>2, <3>2, OpenLogFrame DEF LogInv
    <3>4. QED  BY <1>2, <1>3, <2>2, <2>4, <3>1, <3>3
                  DEF LogStep, Submits, LogInv
  <2>5. QED  BY <2>1, <2>3, <2>4 DEF CallWriteLogEvent, Leave, Goto, TypeOK
<1>6. QED  BY <1>4, <1>5

LEMMA StepEncodingFails ==
  ASSUME TypeOK, NEW s \in Streams, LogInv(s),
         PreambleEncodingFails(s) \/ EventEncodingFails(s)
  PROVE  LogStep(s) /\ LogInv(s)'
<1>1. /\ pc'[s] = "idle"
      /\ timestampPattern' = timestampPattern
      /\ previousMessageTimestamp' = previousMessageTimestamp
      /\ sink' = sink /\ sinkOpen' = sinkOpen /\ accepted' = accepted
  BY DEF PreambleEncodingFails, EventEncodingFails, Leave, Goto, TypeOK
<1>2. /\ Ended(s)' = Ended(s) /\ ReaderLog(s)' = ReaderLog(s)
      /\ Len(accepted'[s]) = Len(accepted[s])
  BY <1>1, NothingWritten
<1>3. Pending(s)' = {}
  BY <1>1 DEF Pending
<1>4. ~Ended(s)' => OpenLog(s)'
  BY <1>1, <1>2, OpenLogFrame DEF LogInv
<1>5. Same(s) \/ Rejects(s)
  BY <1>2, <1>3 DEF Same, Rejects
<1>6. QED  BY <1>1, <1>4, <1>5 DEF LogStep, LogInv

(* A torn write ends the log.                                              *)
LEMMA TornEnds ==
  ASSUME TypeOK, NEW s \in Streams, NEW kind, Torn(s, kind)
  PROVE  Ended(s)' /\ ReaderLog(s)' = ReaderLog(s)
<1> DEFINE x == Record("torn", 0)
<1>1. x \in Records /\ x.kind = "torn"
  BY ZeroIsLong DEF Record, Records
<1>2. sink'[s] = Append(sink[s], x)
  BY DEF Torn, TypeOK
<1> HIDE DEF x
<1>3. QED  BY <1>1, <1>2, LogAppend

LEMMA StepWritePreamble ==
  ASSUME TypeOK, NEW s \in Streams, LogInv(s), Lifecycle(s), WritePreamble(s)
  PROVE  LogStep(s) /\ LogInv(s)'
<1>1. /\ pc[s] = "preamble" /\ timestampPattern[s]
      /\ op' = op /\ arg' = arg /\ op[s] \in {"writeLogEvent", "close"}
      /\ sinkOpen' = sinkOpen /\ accepted' = accepted
      /\ Len(accepted'[s]) = Len(accepted[s])
  BY DEF WritePreamble, Lifecycle, LogInv
<1>2. CASE /\ Written(s, PreambleRecord(s))
           /\ timestampPattern' = [timestampPattern EXCEPT ![s] = FALSE]
           /\ Goto(s, IF op[s] = "close" THEN "eof" ELSE "event")
  <2> DEFINE x == PreambleRecord(s)
  <2>1. /\ x \in Records /\ x.kind = "preamble"
        /\ s \in FourByteStreams => x.value = arg[s]
    BY RecordTypes DEF PreambleRecord, Record
  <2>2. sink'[s] = Append(sink[s], x)
    BY <1>2 DEF Written, TypeOK
  <2> HIDE DEF x
  <2>3. /\ ~timestampPattern'[s]
        /\ pc'[s] = IF op[s] = "close" THEN "eof" ELSE "event"
    BY <1>2 DEF Goto, TypeOK
  <2>4. Pending(s)' = Pending(s)
    BY <1>1, <2>3 DEF Pending
  <2>5. CASE Ended(s)
    <3>1. Ended(s)' /\ ReaderLog(s)' = ReaderLog(s)
      BY <2>1, <2>2, <2>5, LogAppend
    <3>2. Same(s)
      BY <1>1, <2>4, <2>5, <3>1 DEF Same, Ended
    <3>3. QED  BY <1>1, <2>3, <3>1, <3>2 DEF LogStep, LogInv
  <2>6. CASE ~Ended(s)
    <3>1. sink[s] = <<>> /\ sinkOpen[s]
      BY <1>1, <2>6 DEF LogInv, OpenLog
    <3>2. /\ ~Ended(s)' /\ ReaderLog(s) = DecodedTimestamps(s, sink[s])
          /\ ReaderLog(s)' = DecodedTimestamps(s, sink'[s])
      BY <2>1, <2>2, <2>6, LogAppend
    <3>3. sink'[s] = <<x>> /\ sink'[s] \in Seq(Records) /\ Len(sink'[s]) = 1
          /\ sink'[s] # <<>> /\ sink'[s][1] = x
      BY <2>1, <2>2, <3>1
    <3>4. ReaderLog(s) = <<>> /\ ReaderLog(s)' = <<>>
      BY <2>1, <3>1, <3>2, <3>3 DEF DecodedTimestamps
    <3>5. Clock(s, sink'[s])[1] = x.value
      <4> DEFINE records == sink'[s]
                 ts == Clock(s, records)
      <4>1. IsClock(s, records, 1, ts) /\ records[1] = x
        BY <3>3, ClockExists
      <4> HIDE DEF records, ts
      <4>2. ts[1] = x.value
        BY <4>1 DEF IsClock
      <4>3. QED  BY <4>2 DEF records, ts
    <3>6. s \in FourByteStreams => previousMessageTimestamp'[s] = arg[s]
      BY DEF WritePreamble, EncodePreamble, TypeOK
    <3>7. 1 <= MaxRecords + 1
      BY ConstantsAssumption DEF ConstantsAssumption
    <3>8. OpenLog(s)'
      BY <1>1, <2>1, <2>3, <3>1, <3>3, <3>5, <3>6, <3>7 DEF OpenLog
    <3>9. Same(s)
      BY <1>1, <2>4, <2>6, <3>2, <3>4 DEF Same, Ended
    <3>10. QED  BY <1>1, <2>3, <3>8, <3>9 DEF LogStep, LogInv
  <2>7. QED  BY <2>5, <2>6
<1>3. CASE /\ WriteThrows(s, "preamble") /\ Leave(s)
           /\ UNCHANGED timestampPattern
  <2>1. pc'[s] = "idle"
    BY <1>3 DEF Leave, Goto, TypeOK
  <2>2. Pending(s)' = {}
    BY <2>1 DEF Pending
  <2>3. CASE Torn(s, "preamble")
    <3>1. Ended(s)' /\ ReaderLog(s)' = ReaderLog(s)
      BY <2>3, TornEnds
    <3>2. Rejects(s) \/ Ends(s)
      BY <1>1, <2>2, <3>1 DEF Rejects, Ends, Ended
    <3>3. QED  BY <2>1, <3>1, <3>2 DEF LogStep, LogInv
  <2>4. CASE Refused(s, "preamble")
    <3>1. sink' = sink
      BY <2>4 DEF Refused
    <3>2. /\ Ended(s)' = Ended(s) /\ ReaderLog(s)' = ReaderLog(s)
      BY <1>1, <3>1, NothingWritten
    <3>3. Same(s) \/ Rejects(s)
      BY <1>1, <2>2, <3>2 DEF Same, Rejects
    <3>4. ~Ended(s)' => OpenLog(s)'
      BY <1>1, <1>3, <2>1, <3>1, <3>2 DEF LogInv, OpenLog
    <3>5. QED  BY <2>1, <3>3, <3>4 DEF LogStep, LogInv
  <2>5. QED  BY <1>3, <2>3, <2>4 DEF WriteThrows
<1>4. QED  BY <1>2, <1>3 DEF WritePreamble

LEMMA StepWriteLogEvent ==
  ASSUME EncodedEventsAccepted, TypeOK, NEW s \in Streams,
         LogInv(s), Lifecycle(s), WriteLogEvent(s)
  PROVE  LogStep(s) /\ LogInv(s)'
<1>1. /\ pc[s] = "event" /\ op[s] = "writeLogEvent" /\ ~timestampPattern[s]
      /\ timestampPattern' = timestampPattern /\ sinkOpen' = sinkOpen
      /\ arg[s] \in Long
  BY DEF WriteLogEvent, Lifecycle, LogInv, TypeOK
<1>2. pc'[s] = "idle"
  BY DEF WriteLogEvent, Leave, Goto, TypeOK
<1>3. Pending(s) = {arg[s]} /\ Pending(s)' = {}
  BY <1>1, <1>2 DEF Pending
<1>4. CASE /\ Written(s, EventRecord(s))
           /\ accepted' = [accepted EXCEPT ![s] = Append(@, arg[s])]
  <2> DEFINE x == EventRecord(s)
  <2>1. x \in Records /\ x.kind = "event"
    BY RecordTypes DEF EventRecord, Record
  <2>2. /\ x.value = IF s \in FourByteStreams
                     THEN Wrap(arg[s] - previousMessageTimestamp[s])
                     ELSE arg[s]
    BY DEF EventRecord, Record
  <2>3. /\ sink'[s] = Append(sink[s], x)
        /\ Len(accepted'[s]) = Len(accepted[s]) + 1
    BY <1>4 DEF Written, TypeOK
  <2> HIDE DEF x
  <2>4. CASE Ended(s)
    <3>1. Ended(s)' /\ ReaderLog(s)' = ReaderLog(s)
      BY <2>1, <2>3, <2>4, LogAppend
    <3>2. Commits(s)
      BY <1>3, <2>3, <2>4, <3>1 DEF Commits, Ended
    <3>3. QED  BY <1>2, <3>1, <3>2 DEF LogStep, LogInv
  <2>5. CASE ~Ended(s)
    <3>1. /\ sinkOpen[s] /\ sink[s] # <<>>
          /\ sink[s] \in Seq(Records) /\ sink[s][1].kind = "preamble"
          /\ s \in FourByteStreams =>
               previousMessageTimestamp[s] = Clock(s, sink[s])[Len(sink[s])]
      BY <1>1, <2>5 DEF LogInv, OpenLog, TypeOK
    <3>2. /\ ~Ended(s)' /\ ReaderLog(s) = DecodedTimestamps(s, sink[s])
          /\ ReaderLog(s)' = DecodedTimestamps(s, sink'[s])
      BY <2>1, <2>3, <2>5, LogAppend
    <3>3. arg[s] = IF s \notin FourByteStreams THEN x.value
                   ELSE Wrap(Clock(s, sink[s])[Len(sink[s])] + x.value)
      <4>1. CASE s \notin FourByteStreams
        BY <2>2, <4>1
      <4>2. CASE s \in FourByteStreams
        <5> DEFINE y == previousMessageTimestamp[s]
        <5>1. y \in Long /\ Wrap(arg[s] - y) \in Long
          BY <1>1, WrapDifference DEF TypeOK
        <5>2. Wrap(Wrap(arg[s] - y) + y) = arg[s]
          BY <1>1, <5>1, WrapDifference
        <5>3. Wrap(arg[s] - y) + y = y + Wrap(arg[s] - y)
          BY <5>1 DEF Long
        <5>4. QED  BY <2>2, <3>1, <4>2, <5>2, <5>3
      <4>3. QED  BY <4>1, <4>2
    <3>4. ReaderLog(s)' = Append(ReaderLog(s), arg[s])
      BY <2>1, <2>3, <3>1, <3>2, <3>3, DecodedAppend
    <3>5. Commits(s)
      BY <1>3, <2>3, <2>5, <3>2, <3>4 DEF Commits, Ended
    <3>6. /\ sink'[s] # <<>> /\ sink'[s][1].kind = "preamble"
          /\ Len(sink'[s]) = Len(sink[s]) + 1
      BY <2>1, <2>3, <3>1
    <3>7. Clock(s, sink'[s])[Len(sink'[s])] = arg[s]
      BY <2>1, <2>3, <3>1, <3>3, <3>6, ClockAppend
    <3>8. s \in FourByteStreams => previousMessageTimestamp'[s] = arg[s]
      BY DEF WriteLogEvent, EncodeLogEvent, TypeOK
    <3>9. OpenLog(s)'
      BY <1>1, <1>2, <3>1, <3>6, <3>7, <3>8 DEF OpenLog
    <3>10. QED  BY <1>2, <3>5, <3>9 DEF LogStep, LogInv
  <2>6. QED  BY <2>4, <2>5
<1>5. CASE WriteThrows(s, "event") /\ UNCHANGED accepted
  <2>1. Len(accepted'[s]) = Len(accepted[s])
    BY <1>5
  <2>2. CASE Torn(s, "event")
    <3>1. Ended(s)' /\ ReaderLog(s)' = ReaderLog(s)
      BY <2>2, TornEnds
    <3>2. Rejects(s)
      BY <1>3, <2>1, <3>1 DEF Rejects, Ended
    <3>3. QED  BY <1>2, <3>1, <3>2 DEF LogStep, LogInv
  <2>3. CASE Refused(s, "event")
    <3>1. sink' = sink
      BY <2>3 DEF Refused
    <3>2. Ended(s)' = Ended(s) /\ ReaderLog(s)' = ReaderLog(s)
      BY <1>5, <3>1, NothingWritten
    <3>3. Rejects(s)
      BY <1>3, <2>1, <3>2 DEF Rejects
    <3>4. ASSUME ~Ended(s) PROVE OpenLog(s)'
      <4>1. OpenLog(s) /\ SinkAccepts(s)
        <5>1. OpenLog(s)
          BY <3>4 DEF LogInv
        <5>2. Len(sink[s]) \in Nat /\ MaxRecords \in Nat
          BY ConstantsAssumption DEF TypeOK, ConstantsAssumption
        <5>3. QED  BY <1>1, <5>1, <5>2 DEF OpenLog, SinkAccepts
      <4>2. s \notin FourByteStreams
        BY <2>3, <4>1 DEF Refused, EncodedEventsAccepted
      <4>3. previousMessageTimestamp' = previousMessageTimestamp
        BY <4>2 DEF WriteLogEvent, EncodeLogEvent
      <4>4. QED  BY <1>1, <1>2, <3>1, <4>1, <4>3, OpenLogFrame
    <3>5. QED  BY <1>2, <3>2, <3>3, <3>4 DEF LogStep, LogInv
  <2>4. QED  BY <1>5, <2>2, <2>3 DEF WriteThrows
<1>6. QED  BY <1>4, <1>5 DEF WriteLogEvent

LEMMA StepWriteEof ==
  ASSUME TypeOK, NEW s \in Streams, LogInv(s), WriteEof(s)
  PROVE  LogStep(s) /\ LogInv(s)'
<1>1. /\ pc[s] = "eof" /\ op[s] = "close" /\ op' = op
      /\ timestampPattern' = timestampPattern /\ sinkOpen' = sinkOpen
      /\ previousMessageTimestamp' = previousMessageTimestamp
      /\ accepted' = accepted /\ Len(accepted'[s]) = Len(accepted[s])
  BY DEF WriteEof, LogInv
<1>2. Pending(s) = {} /\ Pending(s)' = {}
  BY <1>1 DEF Pending
<1>3. CASE Written(s, Record("eof", 0)) /\ Goto(s, "sinkClose")
  <2> DEFINE x == Record("eof", 0)
  <2>1. x \in Records /\ x.kind = "eof"
    BY RecordTypes DEF Record
  <2>2. sink'[s] = Append(sink[s], x) /\ pc'[s] = "sinkClose"
    BY <1>3 DEF Written, Goto, TypeOK
  <2> HIDE DEF x
  <2>3. Ended(s)' /\ ReaderLog(s)' = ReaderLog(s)
    BY <2>1, <2>2, LogAppend
  <2>4. Ends(s)
    BY <1>1, <1>2, <2>3 DEF Ends, Ended
  <2>5. QED  BY <1>1, <2>2, <2>3, <2>4 DEF LogStep, LogInv
<1>4. CASE WriteThrows(s, "eof") /\ Leave(s)
  <2>1. pc'[s] = "idle"
    BY <1>4 DEF Leave, Goto, TypeOK
  <2>2. CASE Torn(s, "eof")
    <3>1. Ended(s)' /\ ReaderLog(s)' = ReaderLog(s)
      BY <2>2, TornEnds
    <3>2. Ends(s)
      BY <1>1, <1>2, <3>1 DEF Ends, Ended
    <3>3. QED  BY <2>1, <3>1, <3>2 DEF LogStep, LogInv
  <2>3. CASE Refused(s, "eof")
    <3>1. sink' = sink
      BY <2>3 DEF Refused
    <3>2. Same(s)
      BY <1>1, <1>2, <3>1, NothingWritten DEF Same
    <3>3. ~Ended(s)' => OpenLog(s)'
      BY <1>1, <2>1, <3>1, <3>2, OpenLogFrame DEF Same, LogInv
    <3>4. QED  BY <2>1, <3>2, <3>3 DEF LogStep, LogInv
  <2>4. QED  BY <1>4, <2>2, <2>3 DEF WriteThrows
<1>5. QED  BY <1>3, <1>4 DEF WriteEof

(* The rest of close() happens after the EOF byte.                         *)
LEMMA StepAfterEof ==
  ASSUME TypeOK, NEW s \in Streams, LogInv(s),
         CloseSink(s) \/ DestroyNativeState(s)
  PROVE  LogStep(s) /\ LogInv(s)'
<1>1. /\ pc[s] \in {"sinkClose", "destroy"} /\ op[s] = "close" /\ op' = op
      /\ sink' = sink /\ accepted' = accepted /\ Ended(s)
  BY DEF CloseSink, DestroyNativeState, LogInv
<1>2. pc'[s] \in {"idle", "destroy"}
  <2>1. pc' = [pc EXCEPT ![s] = "idle"] \/ pc' = [pc EXCEPT ![s] = "destroy"]
    BY DEF CloseSink, DestroyNativeState, Leave, Goto
  <2>2. QED  BY <2>1 DEF TypeOK
<1>3. Same(s)
  BY <1>1, <1>2, NothingWritten DEF Same, Pending
<1>4. QED  BY <1>1, <1>2, <1>3 DEF Same, LogStep, LogInv

(* Every step of a stream is its part of a step of the log.                *)
LEMMA StepOfStream ==
  ASSUME EncodedEventsAccepted, TypeOK, NEW s \in Streams,
         LogInv(s), Lifecycle(s),
         \/ Construct(s) \/ CallClose(s) \/ Continue(s)
         \/ \E ts \in Long : CallWriteLogEvent(s, ts)
  PROVE  LogStep(s) /\ LogInv(s)'
BY StepConstruct, StepCall, StepEncodingFails, StepWritePreamble,
   StepWriteLogEvent, StepWriteEof, StepAfterEof DEF Continue

-----------------------------------------------------------------------------
(* The refinement.                                                         *)
LogsInv == EncodedEventsAccepted /\ \A s \in Streams : LogInv(s)

LEMMA InitLogs ==
  ASSUME Init, EncodedEventsAccepted
  PROVE  LogsInv /\ Log!Init
<1>1. ASSUME NEW s \in Streams
      PROVE  /\ LogInv(s) /\ Pending(s) = {} /\ ReaderLog(s) = <<>>
             /\ Len(accepted[s]) = 0 /\ Ended(s) = FALSE
  <2>1. /\ sink[s] = <<>> /\ accepted[s] = <<>> /\ pc[s] = "unborn"
        /\ timestampPattern[s] /\ sinkOpen[s]
    BY DEF Init
  <2>2. Stops(<<>>) = {} /\ Readable(<<>>) = <<>>
    BY DEF Stops, Readable
  <2>3. Ended(s) = FALSE /\ ReaderLog(s) = <<>>
    BY <2>1, <2>2 DEF Ended, ReaderLog, DecodedTimestamps
  <2>4. OpenLog(s)
    BY <2>1 DEF OpenLog
  <2>5. QED  BY <2>1, <2>3, <2>4 DEF LogInv, Pending
<1>2. QED  BY <1>1 DEF LogsInv, Log!Init

LEMMA StepLogs ==
  ASSUME LogsInv, TypeOK, LifecycleInv, [Next]_vars
  PROVE  LogsInv' /\ [Log!Next]_Log!vars
<1>1. CASE UNCHANGED vars
  <2>1. \A s \in Streams : Same(s)
    BY <1>1, NothingWritten DEF vars, Same, Pending
  <2>2. UNCHANGED Log!vars
    BY <2>1 DEF Same, Log!vars
  <2>3. \A s \in Streams : LogInv(s)'
    BY <1>1 DEF vars, LogsInv, LogInv, OpenLog, Ended
  <2>4. QED  BY <2>2, <2>3 DEF LogsInv
<1>2. ASSUME NEW t \in Streams,
             \/ Construct(t) \/ CallClose(t) \/ Continue(t)
             \/ \E ts \in Long : CallWriteLogEvent(t, ts)
      PROVE  LogsInv' /\ [Log!Next]_Log!vars
  <2>1. LogStep(t) /\ LogInv(t)'
    BY <1>2, StepOfStream DEF LogsInv, LifecycleInv
  <2>2. \A s \in Streams \ {t} : Same(s) /\ LogInv(s)'
    BY <1>2, StepOfOther DEF LogsInv
  <2>3. [Log!Next]_Log!vars
    BY <2>1, <2>2, LogStepSimulates
  <2>4. \A s \in Streams : LogInv(s)'
    BY <2>1, <2>2
  <2>5. QED  BY <2>3, <2>4 DEF LogsInv
<1>3. QED  BY <1>1, <1>2 DEF Next

(* For every reader of every sink the streams are append-only logs of what *)
(* was submitted, whatever the calls, the timestamps and the failures are, *)
(* unless a four-byte event that has been encoded is refused.              *)
THEOREM StreamsAreLogs == EncodedEventsAccepted /\ Spec => ImplementsIrLog
<1>1. Init /\ EncodedEventsAccepted => LogsInv /\ Log!Init
  BY InitLogs
<1>2. LogsInv /\ TypeOK /\ HeapInv /\ LifecycleInv /\ [Next]_vars
        => LogsInv' /\ [Log!Next]_Log!vars
  BY StepLogs
<1>3. QED  BY <1>1, <1>2, HeapInvariant, PTL
           DEF Spec, ImplementsIrLog, Log!Spec
=============================================================================
