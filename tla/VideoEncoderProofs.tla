------------------------- MODULE VideoEncoderProofs -------------------------
(***************************************************************************)
(* Proofs about VideoEncoder, for any set of putters, any number of frames *)
(* and of encoder threads, and any set of failures.                        *)
(***************************************************************************)
EXTENDS VideoEncoder, QueueLemmas

USE EncoderAssumption

-----------------------------------------------------------------------------
(* Types. TypeOK is inductive together with who holds a frame: what is     *)
(* appended to the queue and to the codec is then a frame.                 *)

\* All that most steps need to know of frames.
LEMMA FrameFact == None \notin Frame
  BY DEF Frame, None

\* The types and who holds a frame, initially.
LEMMA InitTypes == Init => TypeOK /\ Holding
  <1> SUFFICES ASSUME Init PROVE TypeOK /\ Holding
    OBVIOUS
  <1>1. /\ rgbaq \in Seq(Frame) /\ codec \in Seq(Frame)
        /\ videoq \in Seq(Frame) /\ msgq \in Seq(Messages)
    BY RangeEmpty DEF Init
  <1>2. nextFrame \in 1..MaxFrames + 1 /\ starts \in 0..MaxStarts
    BY DEF Init
  <1>3. putPc \in [Putters -> PutPcs] /\ putFrame \in [Putters -> Frame \cup {None}]
    BY DEF Init, PutPcs
  <1>4. abort \in BOOLEAN /\ rgbaAbort \in BOOLEAN /\ vRunning \in BOOLEAN
    BY DEF Init
  <1>6. encPc \in EncPcs /\ stopPc \in StopPcs
    BY DEF Init, EncPcs, StopPcs
  <1>7. hand \in Frame \cup {None} /\ frameNum \in Int
    BY DEF Init
  <1>8. live \subseteq Frame /\ owed \subseteq Frame
    BY DEF Init
  <1>5. Holding
    BY DEF Init, Holding
  <1> QED  BY <1>1, <1>2, <1>3, <1>4, <1>5, <1>6, <1>7, <1>8 DEF TypeOK

\* The types under the steps of the encoder thread.
LEMMA EncoderTypes ==
  ASSUME TypeOK, Holding, EncoderStep \/ Start
  PROVE  TypeOK' /\ Holding'
  <1> USE FrameFact DEF TypeOK, Holding, EncPcs, ReadyPcs, LoopPcs, EndPcs,
              Messages, encVars, putVars, queueVars
  <1>1. CASE Start
    <2>1. starts' \in 0..MaxStarts
      BY <1>1 DEF Start
    <2> QED  BY <1>1, <2>1 DEF Start
  <1>2. CASE SetRunning      BY <1>2 DEF SetRunning
  <1>3. CASE NotifyStarted   BY <1>3 DEF NotifyStarted
  <1>4. CASE ResetAbort      BY <1>4 DEF ResetAbort
  <1>5. CASE ResetQueue      BY <1>5, RangeEmpty DEF ResetQueue
  <1>6. CASE OpenCodec       BY <1>6 DEF OpenCodec
  <1>7. CASE OpenFails       BY <1>7 DEF OpenFails
  <1>8. CASE LoopTop         BY <1>8 DEF LoopTop
  <1>9. CASE LoopSize        BY <1>9 DEF LoopSize
  <1>10. CASE LoopAbortQueue BY <1>10 DEF LoopAbortQueue
  <1>11. CASE GetFrame
    <2>1. Head(rgbaq) \in Frame /\ Tail(rgbaq) \in Seq(Frame)
      BY <1>11, RangeTail DEF GetFrame
    <2> QED  BY <1>11, <2>1 DEF GetFrame
  <1>12. CASE GetAborted     BY <1>12 DEF GetAborted
  <1>13. CASE Encoded /\ (EncodeNoPacket \/ EncodePacket \/ EncodePacketRefused)
    <2> DEFINE in == Append(codec, hand)
    <2>1. hand \in Frame
      BY <1>13 DEF Encoded
    <2>2. in \in Seq(Frame) /\ in # <<>>
      BY <2>1, RangeAppend
    <2>3. Head(in) \in Frame /\ Tail(in) \in Seq(Frame)
      BY <2>2, RangeTail
    <2> HIDE DEF in
    <2>4. CASE EncodeNoPacket
      BY <2>2, <2>4 DEF EncodeNoPacket, Encoded, in
    <2>5. CASE EncodePacket
      <3>1. codec' = Tail(in) /\ videoq' = Append(videoq, Head(in))
        BY <2>5 DEF EncodePacket, in
      <3>2. Append(videoq, Head(in)) \in Seq(Frame)
        BY <2>3
      <3>3. Encoded /\ owed' \subseteq Frame /\ frameNum' \in Int
        BY <2>5 DEF EncodePacket
      <3> QED  BY <2>3, <3>1, <3>2, <3>3 DEF Encoded
    <2>6. CASE EncodePacketRefused
      <3>1. codec' = Tail(in)
        BY <2>6 DEF EncodePacketRefused, in
      <3> QED  BY <2>3, <2>6, <3>1 DEF EncodePacketRefused, Encoded
    <2> QED  BY <1>13, <2>4, <2>5, <2>6
  <1>14. CASE EncodeFails    BY <1>14 DEF EncodeFails
  <1>15. CASE FlushPacket
    <2>1. Head(codec) \in Frame /\ Tail(codec) \in Seq(Frame)
      BY <1>15, RangeTail DEF FlushPacket
    <2>2. Append(videoq, Head(codec)) \in Seq(Frame) /\ frameNum - 1 \in Int
      BY <2>1
    <2> QED  BY <1>15, <2>1, <2>2 DEF FlushPacket
  <1>16. CASE FlushEnds      BY <1>16 DEF FlushEnds
  <1>17. CASE FlushFails     BY <1>17 DEF FlushFails
  <1>18. CASE ClearQueue     BY <1>18, RangeEmpty DEF ClearQueue
  <1>19. CASE RearmAbort     BY <1>19 DEF RearmAbort
  <1>20. CASE RearmQueue     BY <1>20 DEF RearmQueue
  <1>21. CASE Exit           BY <1>21 DEF Exit
  <1> QED
    BY <1>1, <1>2, <1>3, <1>4, <1>5, <1>6, <1>7, <1>8, <1>9, <1>10, <1>11,
       <1>12, <1>13, <1>14, <1>15, <1>16, <1>17, <1>18, <1>19, <1>20, <1>21
       DEF EncoderStep, EncodeNoPacket, EncodePacket, EncodePacketRefused

\* The types under the steps of IEncoder_stop.
LEMMA StopTypes ==
  ASSUME TypeOK, Holding, StopBegin \/ StopStep
  PROVE  TypeOK' /\ Holding'
  BY DEF TypeOK, Holding, StopPcs, encVars, putVars, queueVars, StopBegin,
         StopStep, StopAbort, StopSize, StopAbortQueue, StopWait, StopJoin

\* The types under the steps of VEncoder_enqueue.
LEMMA PutTypes ==
  ASSUME TypeOK, Holding, NEW p \in Putters, PutBegin(p) \/ PutStep(p)
  PROVE  TypeOK' /\ Holding'
  <1> USE FrameFact DEF TypeOK, Holding, PutPcs, encVars, putVars, queueVars
  <1>1. CASE PutBegin(p)
    <2>1. nextFrame \in Frame /\ nextFrame' \in 1..MaxFrames + 1
      BY <1>1 DEF PutBegin, Frame
    <2> QED  BY <1>1, <2>1 DEF PutBegin
  <1>2. CASE EnqueueChecked(p) BY <1>2 DEF EnqueueChecked
  <1>3. CASE EnqueueRefused(p) BY <1>3 DEF EnqueueRefused, Reject
  <1>4. CASE QueuePut(p)       BY <1>4 DEF QueuePut
  <1>5. CASE QueuePutFails(p)  BY <1>5 DEF QueuePutFails, Reject
  <1>6. CASE PutReturn(p)      BY <1>6 DEF PutReturn
  <1> QED
    BY <1>1, <1>2, <1>3, <1>4, <1>5, <1>6 DEF PutStep

\* The types are kept by every step.
LEMMA NextTypes == TypeOK /\ Holding /\ [Next]_vars => TypeOK' /\ Holding'
  <1> SUFFICES ASSUME TypeOK, Holding, [Next]_vars
               PROVE  TypeOK' /\ Holding'
    OBVIOUS
  <1>1. CASE UNCHANGED vars
    BY <1>1 DEF TypeOK, Holding, vars, encVars, putVars, queueVars
  <1> QED
    BY <1>1, EncoderTypes, StopTypes, PutTypes DEF Next

\* The variables keep the types of the code's fields, and a frame is in a
\* thread's hands exactly between the queue operations that say so.
THEOREM TypeCorrect == Spec => [](TypeOK /\ Holding)
  BY InitTypes, NextTypes, PTL DEF Spec

-----------------------------------------------------------------------------
(* No abort is lost: NoLostAbort is inductive as it stands.  The encoder   *)
(* thread reads abort, then the size, and the stopping thread writes abort *)
(* and then reads the size: whichever comes second acts.                   *)

\* NoLostAbort is kept by every step, given the types.
LEMMA NextNoLostAbort ==
  TypeOK /\ Holding /\ NoLostAbort /\ [Next]_vars => NoLostAbort'
  <1> SUFFICES ASSUME TypeOK, Holding, NoLostAbort, [Next]_vars
               PROVE  NoLostAbort'
    OBVIOUS
  <1> USE DEF NoLostAbort, encVars, putVars, queueVars
  <1>1. CASE Start \/ EncoderStep
    <2>1. CASE LoopTop \/ LoopSize \/ LoopAbortQueue \/ GetFrame \/ GetAborted
      BY <2>1 DEF LoopTop, LoopSize, LoopAbortQueue, GetFrame, GetAborted
    <2>2. CASE encPc' # "get"
      BY <2>2
    <2> QED
      BY <1>1, <2>1, <2>2
         DEF Start, EncoderStep, SetRunning, NotifyStarted, ResetAbort,
             ResetQueue, OpenCodec, OpenFails, Encoded, EncodeNoPacket,
             EncodePacket, EncodePacketRefused, EncodeFails, FlushPacket,
             FlushEnds, FlushFails, ClearQueue, RearmAbort, RearmQueue, Exit
  <1>2. CASE StopBegin \/ StopStep
    BY <1>2 DEF StopBegin, StopStep, StopAbort, StopSize, StopAbortQueue,
                StopWait, StopJoin
  <1>3. CASE \E p \in Putters : PutBegin(p) \/ PutStep(p)
    <2> PICK p \in Putters : PutBegin(p) \/ PutStep(p)
      BY <1>3
    <2>1. CASE QueuePut(p)
      <3>1. putFrame[p] \in Frame
        BY <2>1 DEF QueuePut, TypeOK, Holding
      <3>2. rgbaq' # <<>>
        BY <2>1, <3>1, RangeAppend DEF QueuePut, TypeOK
      <3> QED  BY <3>2
    <2>2. CASE rgbaq' = rgbaq /\ UNCHANGED <<encPc, rgbaAbort, abort, stopPc>>
      BY <2>2
    <2> QED
      BY <2>1, <2>2 DEF PutBegin, PutStep, EnqueueChecked, EnqueueRefused,
                        QueuePutFails, Reject, PutReturn
  <1>4. CASE UNCHANGED vars
    BY <1>4 DEF vars
  <1> QED  BY <1>1, <1>2, <1>3, <1>4 DEF Next

\* The encoder thread never blocks on an empty queue with abort set and nobody
\* left to abort the queue, however many putters race with the stop.
THEOREM AbortNeverLost == Spec => []NoLostAbort
  <1>1. Init => NoLostAbort
    BY DEF Init, NoLostAbort
  <1> QED  BY <1>1, NextNoLostAbort, TypeCorrect, PTL DEF Spec

-----------------------------------------------------------------------------
(* Frame buffers.  FrameOwnership needs to know that a new buffer is new   *)
(* and that an owed frame is no longer in its putter's hands.              *)

\* Nobody owns a frame initially, and none is owed.
LEMMA InitFrames == Init => FrameOwnership /\ OwedIsPut
  <1> SUFFICES ASSUME Init PROVE FrameOwnership /\ OwedIsPut
    OBVIOUS
  <1>1. Range(rgbaq) = {} /\ IsInjective(rgbaq)
    BY RangeEmpty, InjectiveEmpty DEF Init
  <1>2. FrameOwnership
    BY <1>1 DEF Init, FrameOwnership, None
  <1> QED  BY <1>2 DEF Init, OwedIsPut

\* One owner per frame, under the steps of the encoder thread.
LEMMA EncoderFrames ==
  ASSUME TypeOK, Holding, FrameOwnership, OwedIsPut, EncoderStep \/ Start
  PROVE  FrameOwnership' /\ OwedIsPut'
  <1> USE FrameFact DEF FrameOwnership, OwedIsPut, encVars, putVars, queueVars
  <1>1. CASE /\ UNCHANGED <<rgbaq, live, hand, putFrame, nextFrame>>
             /\ owed' \subseteq owed
    BY <1>1
  <1>2. CASE GetFrame
    <2>1. /\ Range(rgbaq) = {hand'} \cup Range(rgbaq')
          /\ hand' \notin Range(rgbaq') /\ IsInjective(rgbaq') /\ hand' \in Frame
      BY <1>2, RangeTail, InjectiveTail DEF GetFrame, TypeOK
    <2>2. hand = None
      BY <1>2 DEF GetFrame, Holding
    <2> QED  BY <1>2, <2>1, <2>2 DEF GetFrame
  <1>3. CASE Encoded /\ owed' \subseteq owed
    <2>1. hand \in Frame
      BY <1>3 DEF Encoded, Holding, TypeOK
    <2>2. hand' = None /\ None \notin Range(rgbaq)
      BY <1>3, RangeSubset DEF Encoded, TypeOK
    <2>3. UNCHANGED <<rgbaq, putFrame, nextFrame>> /\ live' = live \ {hand}
      BY <1>3 DEF Encoded
    <2>4. FrameOwnership'
      BY <2>1, <2>2, <2>3
    <2> QED  BY <1>3, <2>3, <2>4
  <1>4. CASE EncodeFails
    <2>1. hand \in Frame
      BY <1>4 DEF EncodeFails, Holding, TypeOK
    <2>2. None \notin Range(rgbaq)
      BY RangeSubset DEF TypeOK
    <2> QED  BY <1>4, <2>1, <2>2 DEF EncodeFails
  <1>5. CASE ClearQueue
    <2>1. Range(rgbaq') = {} /\ IsInjective(rgbaq')
      BY <1>5, RangeEmpty, InjectiveEmpty DEF ClearQueue
    <2> QED  BY <1>5, <2>1 DEF ClearQueue
  <1> QED
    BY <1>1, <1>2, <1>3, <1>4, <1>5
       DEF Start, EncoderStep, SetRunning, NotifyStarted, ResetAbort,
           ResetQueue, OpenCodec, OpenFails, LoopTop, LoopSize, LoopAbortQueue,
           GetAborted, EncodeNoPacket, EncodePacket, EncodePacketRefused,
           FlushPacket, FlushEnds, FlushFails, RearmAbort, RearmQueue, Exit

\* One owner per frame, under the steps of VEncoder_enqueue.
LEMMA PutFrames ==
  ASSUME TypeOK, Holding, FrameOwnership, OwedIsPut,
         NEW p \in Putters, PutBegin(p) \/ PutStep(p)
  PROVE  FrameOwnership' /\ OwedIsPut'
  <1> USE FrameFact DEF FrameOwnership, OwedIsPut, encVars, putVars, queueVars
  <1>1. CASE PutBegin(p)
    <2>1. /\ nextFrame \in Frame /\ nextFrame \notin live \cup owed
          /\ 1..nextFrame' - 1 = (1..nextFrame - 1) \cup {nextFrame}
      <3>1. nextFrame \in Nat \ {0} /\ nextFrame <= MaxFrames /\ nextFrame' = nextFrame + 1
        BY <1>1 DEF PutBegin, TypeOK
      <3>2. nextFrame \notin 1..nextFrame - 1
        BY <3>1
      <3> QED  BY <3>1, <3>2 DEF Frame
    <2>2. putFrame[p] = None
      BY <1>1 DEF PutBegin, Holding
    <2>3. \A q \in Putters : putFrame'[q] = IF q = p THEN nextFrame ELSE putFrame[q]
      BY <1>1 DEF PutBegin, TypeOK
    <2>4. {putFrame'[q] : q \in Putters} \ {None}
             = ({putFrame[q] : q \in Putters} \ {None}) \cup {nextFrame}
      BY <2>1, <2>2, <2>3
    <2> QED  BY <1>1, <2>1, <2>2, <2>3, <2>4 DEF PutBegin
  <1>2. CASE Reject(p) /\ putFrame[p] \in Frame
    <2>1. \A q \in Putters : putFrame'[q] = IF q = p THEN None ELSE putFrame[q]
      BY <1>2 DEF Reject, TypeOK
    <2>2. {putFrame'[q] : q \in Putters} \ {None}
             = ({putFrame[q] : q \in Putters} \ {None}) \ {putFrame[p]}
      BY <1>2, <2>1
    <2>3. /\ UNCHANGED <<rgbaq, owed, hand, nextFrame>>
          /\ live' = live \ {putFrame[p]} /\ putFrame[p] \notin Range(rgbaq) \cup {hand}
      BY <1>2 DEF Reject
    <2>4. live' = Range(rgbaq') \cup (({hand'} \cup {putFrame'[q] : q \in Putters}) \ {None})
      BY <2>2, <2>3
    <2>5. \A q \in Putters : putFrame'[q] # None => putFrame'[q] = putFrame[q]
      BY <2>1
    <2>6. None \notin owed
      BY DEF TypeOK
    <2> QED  BY <2>1, <2>3, <2>4, <2>5, <2>6
  <1>3. CASE QueuePut(p)
    <2>1. putFrame[p] \in Frame
      BY <1>3 DEF QueuePut, TypeOK, Holding
    <2>2. Range(rgbaq') = Range(rgbaq) \cup {putFrame[p]} /\ IsInjective(rgbaq')
      BY <1>3, <2>1, RangeAppend, InjectiveAppend DEF QueuePut, TypeOK
    <2>3. \A q \in Putters : putFrame'[q] = IF q = p THEN None ELSE putFrame[q]
      BY <1>3 DEF QueuePut, TypeOK
    <2>4. {putFrame'[q] : q \in Putters} \ {None}
             = ({putFrame[q] : q \in Putters} \ {None}) \ {putFrame[p]}
      BY <2>1, <2>3
    <2>5. owed' \subseteq owed \cup {putFrame[p]} /\ putFrame[p] \in live
      BY <1>3, <2>1 DEF QueuePut
    <2>6. None \notin owed
      BY DEF TypeOK
    <2> QED  BY <1>3, <2>1, <2>2, <2>3, <2>4, <2>5, <2>6 DEF QueuePut
  <1>4. CASE UNCHANGED <<queueVars, hand, putFrame, nextFrame>>
    BY <1>4
  <1>5. putPc[p] \in {"enqueue", "put"} => putFrame[p] \in Frame
    BY DEF TypeOK, Holding
  <1>6. \/ PutBegin(p) \/ (Reject(p) /\ putPc[p] \in {"enqueue", "put"})
        \/ QueuePut(p) \/ UNCHANGED <<queueVars, hand, putFrame, nextFrame>>
    BY DEF PutStep, EnqueueChecked, EnqueueRefused, QueuePutFails, PutReturn
  <1> QED
    BY <1>1, <1>2, <1>3, <1>4, <1>5, <1>6

-----------------------------------------------------------------------------
(* Stopping drains.  DrainInv says where the owed frames are at every step *)
(* of the encoder thread, and that the queue is aborted only once nothing  *)
(* owed is left in it.                                                     *)

\* The inductive invariant, initially.
LEMMA InitDrain == Init => DrainInv
  <1> SUFFICES ASSUME Init PROVE DrainInv
    OBVIOUS
  <1>1. DrainOnStop /\ WhereOwed
    BY DEF Init, DrainOnStop, WhereOwed, ReadyPcs
  <1>2. QueueAbortedAfterDrain
    BY DEF Init, QueueAbortedAfterDrain, LoopPcs
  <1>3. CodecCounted /\ RunningTracksThread
    BY DEF Init, CodecCounted, RunningTracksThread, LoopPcs
  <1> QED
    BY <1>1, <1>2, <1>3, InitTypes, InitFrames DEF DrainInv

\* The steps of the encoder thread that touch neither the queue's content nor
\* the codec nor a frame: the program counter and the flags.
LEMMA EncoderControlDrain ==
  ASSUME TypeOK, DrainInv,
         \/ Start \/ SetRunning \/ NotifyStarted \/ ResetAbort \/ ResetQueue
         \/ OpenCodec \/ OpenFails \/ LoopTop \/ LoopSize \/ LoopAbortQueue
         \/ GetAborted \/ FlushEnds \/ FlushFails \/ RearmAbort \/ RearmQueue
         \/ Exit
  PROVE  /\ DrainOnStop' /\ WhereOwed' /\ QueueAbortedAfterDrain'
         /\ CodecCounted' /\ RunningTracksThread'
  <1> USE FrameFact, RangeEmpty
      DEF DrainInv, DrainOnStop, WhereOwed, QueueAbortedAfterDrain,
          CodecCounted, RunningTracksThread, Holding, ReadyPcs, LoopPcs,
          EndPcs, encVars, putVars, queueVars
  <1>1. CASE Start           BY <1>1 DEF Start
  <1>2. CASE SetRunning      BY <1>2 DEF SetRunning
  <1>3. CASE NotifyStarted   BY <1>3 DEF NotifyStarted
  <1>4. CASE ResetAbort      BY <1>4 DEF ResetAbort
  <1>5. CASE ResetQueue      BY <1>5 DEF ResetQueue
  <1>6. CASE OpenCodec       BY <1>6 DEF OpenCodec
  <1>7. CASE OpenFails       BY <1>7 DEF OpenFails
  <1>8. CASE LoopTop         BY <1>8 DEF LoopTop
  <1>9. CASE LoopSize        BY <1>9 DEF LoopSize
  <1>10. CASE LoopAbortQueue BY <1>10 DEF LoopAbortQueue
  <1>11. CASE GetAborted
    <2>1. owed \subseteq Range(codec)
      BY <1>11 DEF GetAborted, TypeOK
    <2>2. CASE frameNum > 0
      BY <1>11, <2>1, <2>2 DEF GetAborted
    <2>3. CASE ~(frameNum > 0)
      <3>1. codec = <<>>
        BY <1>11, <2>3 DEF GetAborted, TypeOK
      <3> QED  BY <1>11, <2>1, <2>3, <3>1 DEF GetAborted
    <2> QED  BY <2>2, <2>3
  <1>12. CASE FlushEnds      BY <1>12 DEF FlushEnds
  <1>13. CASE FlushFails     BY <1>13 DEF FlushFails
  <1>14. CASE RearmAbort     BY <1>14 DEF RearmAbort
  <1>15. CASE RearmQueue     BY <1>15 DEF RearmQueue
  <1>16. CASE Exit           BY <1>16 DEF Exit
  <1> QED
    BY <1>1, <1>2, <1>3, <1>4, <1>5, <1>6, <1>7, <1>8, <1>9, <1>10, <1>11,
       <1>12, <1>13, <1>14, <1>15, <1>16

\* The steps that move frames: from the queue to the hand, from the hand to
\* the codec, and from the codec to the packet queue.
LEMMA EncoderDataDrain ==
  ASSUME TypeOK, DrainInv,
         \/ GetFrame \/ EncodeNoPacket \/ EncodePacket \/ EncodePacketRefused
         \/ EncodeFails \/ FlushPacket \/ ClearQueue
  PROVE  /\ DrainOnStop' /\ WhereOwed' /\ QueueAbortedAfterDrain'
         /\ CodecCounted' /\ RunningTracksThread'
  <1> USE FrameFact, RangeEmpty
      DEF DrainInv, DrainOnStop, WhereOwed, QueueAbortedAfterDrain,
          CodecCounted, RunningTracksThread, Holding, ReadyPcs, LoopPcs,
          EndPcs, encVars, putVars, queueVars
  <1>1. CASE GetFrame
    <2>1. Range(rgbaq) = {hand'} \cup Range(rgbaq')
      BY <1>1, RangeTail DEF GetFrame, TypeOK
    <2>2. hand = None /\ None \notin owed
      BY <1>1 DEF GetFrame, TypeOK
    <2> QED  BY <1>1, <2>1, <2>2 DEF GetFrame
  <1>2. CASE EncodeNoPacket \/ EncodePacket \/ EncodePacketRefused
    <2> DEFINE in == Append(codec, hand)
    <2>1. hand \in Frame
      BY <1>2 DEF EncodeNoPacket, EncodePacket, EncodePacketRefused, Encoded,
                  TypeOK
    <2>2. /\ in \in Seq(Frame) /\ in # <<>> /\ Len(in) = Len(codec) + 1
          /\ Range(in) = Range(codec) \cup {hand}
      BY <2>1, RangeAppend DEF TypeOK
    <2>3. Len(Tail(in)) = Len(in) - 1 /\ Range(in) = {Head(in)} \cup Range(Tail(in))
      BY <2>2, RangeTail
    <2>4. Len(codec) \in Nat /\ Len(codec) <= frameNum /\ frameNum \in Int
      BY <1>2 DEF EncodeNoPacket, EncodePacket, EncodePacketRefused, Encoded,
                  TypeOK
    <2> HIDE DEF in
    <2>5. /\ owed \ {Head(in)} \subseteq Range(rgbaq) \cup Range(Tail(in))
          /\ owed \subseteq Range(rgbaq) \cup Range(in)
      BY <2>2, <2>3
    <2>6. Len(Tail(in)) <= frameNum /\ Len(in) <= frameNum + 1
      BY <2>2, <2>3, <2>4
    <2>7. Encoded
      BY <1>2 DEF EncodeNoPacket, EncodePacket, EncodePacketRefused
    <2>8. \/ /\ codec' = in /\ frameNum' = frameNum + 1 /\ owed' = owed
          \/ /\ codec' = Tail(in) /\ frameNum' \in {frameNum, frameNum + 1}
             /\ owed' = owed \ {Head(in)}
      BY <1>2 DEF EncodeNoPacket, EncodePacket, EncodePacketRefused, in
    <2>9. Len(codec') <= frameNum'
      BY <2>2, <2>3, <2>4, <2>6, <2>8
    <2>10. owed' \subseteq owed /\ owed' \subseteq Range(rgbaq) \cup Range(codec')
      BY <2>5, <2>8
    <2> QED  BY <2>7, <2>9, <2>10 DEF Encoded
  <1>3. CASE EncodeFails     BY <1>3 DEF EncodeFails
  <1>4. CASE FlushPacket
    <2>1. Range(codec) = {Head(codec)} \cup Range(codec')
      BY <1>4, RangeTail DEF FlushPacket, TypeOK
    <2> QED  BY <1>4, <2>1 DEF FlushPacket
  <1>5. CASE ClearQueue      BY <1>5 DEF ClearQueue
  <1> QED  BY <1>1, <1>2, <1>3, <1>4, <1>5

\* The inductive invariant under the steps of IEncoder_stop.
LEMMA StopDrain ==
  ASSUME TypeOK, DrainInv, StopBegin \/ StopStep
  PROVE  /\ DrainOnStop' /\ WhereOwed' /\ QueueAbortedAfterDrain'
         /\ CodecCounted' /\ RunningTracksThread'
  <1> USE FrameFact, RangeEmpty
      DEF DrainInv, DrainOnStop, WhereOwed, QueueAbortedAfterDrain,
          CodecCounted, RunningTracksThread, ReadyPcs, LoopPcs,
          EndPcs, encVars, putVars, queueVars
  <1>1. CASE StopBegin       BY <1>1 DEF StopBegin
  <1>2. CASE StopAbort       BY <1>2 DEF StopAbort
  <1>3. CASE StopSize        BY <1>3 DEF StopSize
  <1>4. CASE StopAbortQueue  BY <1>4 DEF StopAbortQueue
  <1>5. CASE StopWait        BY <1>5 DEF StopWait
  <1>6. CASE StopJoin        BY <1>6 DEF StopJoin
  <1> QED  BY <1>1, <1>2, <1>3, <1>4, <1>5, <1>6 DEF StopStep

\* A frame that is put is owed only when nobody has aborted the queue.
LEMMA PutDrain ==
  ASSUME TypeOK, DrainInv, NEW p \in Putters, PutBegin(p) \/ PutStep(p)
  PROVE  /\ DrainOnStop' /\ WhereOwed' /\ QueueAbortedAfterDrain'
         /\ CodecCounted' /\ RunningTracksThread'
  <1> USE DEF DrainInv, DrainOnStop, WhereOwed, QueueAbortedAfterDrain,
              CodecCounted, RunningTracksThread, ReadyPcs, LoopPcs, EndPcs,
              encVars, putVars, queueVars
  <1>1. CASE QueuePut(p)
    <2>1. putFrame[p] \in Frame
      BY <1>1 DEF QueuePut, TypeOK, Holding
    <2>2. Range(rgbaq') = Range(rgbaq) \cup {putFrame[p]}
      BY <1>1, <2>1, RangeAppend DEF QueuePut, TypeOK
    <2>3. CASE Owing
      BY <1>1, <2>2, <2>3 DEF QueuePut, Owing
    <2>4. CASE ~Owing
      <3>1. owed' = owed
        BY <1>1, <2>4 DEF QueuePut
      <3>2. DrainOnStop' /\ WhereOwed' /\ CodecCounted' /\ RunningTracksThread'
        BY <1>1, <2>2, <3>1 DEF QueuePut
      <3>3. QueueAbortedAfterDrain'
        BY <1>1, <2>2, <3>1 DEF QueuePut, OwedIsPut
      <3> QED  BY <3>2, <3>3
    <2> QED  BY <2>3, <2>4
  <1>2. CASE UNCHANGED <<abort, rgbaq, rgbaAbort, owed, encVars, stopPc>>
    BY <1>2
  <1> QED
    BY <1>1, <1>2 DEF PutBegin, PutStep, EnqueueChecked, EnqueueRefused,
                      QueuePutFails, Reject, PutReturn

\* The inductive invariant is kept by every step.
LEMMA NextDrain == TypeOK /\ DrainInv /\ [Next]_vars => DrainInv'
  <1> SUFFICES ASSUME TypeOK, DrainInv, [Next]_vars
               PROVE  DrainInv'
    OBVIOUS
  <1>1. TypeOK /\ Holding /\ FrameOwnership /\ OwedIsPut
    BY DEF DrainInv
  <1>2. CASE Start \/ EncoderStep
    <2>1. FrameOwnership' /\ OwedIsPut' /\ Holding'
      BY <1>1, <1>2, EncoderFrames, EncoderTypes
    <2> QED
      BY <1>2, <2>1, EncoderControlDrain, EncoderDataDrain
         DEF EncoderStep, DrainInv
  <1>3. CASE StopBegin \/ StopStep
    <2>1. FrameOwnership' /\ OwedIsPut'
      BY <1>1, <1>3 DEF FrameOwnership, OwedIsPut, StopBegin, StopStep,
            StopAbort, StopSize, StopAbortQueue, StopWait, StopJoin, queueVars,
            encVars, putVars
    <2> QED  BY <1>1, <1>3, <2>1, StopDrain, StopTypes DEF DrainInv
  <1>4. CASE \E p \in Putters : PutBegin(p) \/ PutStep(p)
    <2> PICK p \in Putters : PutBegin(p) \/ PutStep(p)
      BY <1>4
    <2>1. FrameOwnership' /\ OwedIsPut' /\ Holding'
      BY <1>1, PutFrames, PutTypes
    <2> QED  BY <2>1, PutDrain DEF DrainInv
  <1>5. CASE UNCHANGED vars
    BY <1>5 DEF vars, DrainInv, DrainOnStop, FrameOwnership, OwedIsPut,
                WhereOwed, QueueAbortedAfterDrain, CodecCounted,
                RunningTracksThread, Holding, encVars, putVars, queueVars
  <1> QED  BY <1>2, <1>3, <1>4, <1>5 DEF Next

\* The inductive invariant holds in every state.
THEOREM DrainInvariant == Spec => []DrainInv
  BY InitDrain, NextDrain, TypeCorrect, PTL DEF Spec

\* Every frame accepted while the encoder is up and nobody stops it has become
\* a packet when the thread is past its loop, failures of the codec apart.
THEOREM StopDrains == Spec => []DrainOnStop
  <1>1. DrainInv => DrainOnStop
    BY DEF DrainInv
  <1> QED  BY <1>1, DrainInvariant, PTL

\* Every live buffer has one owner, and every owned buffer is live: none leaks
\* and none is freed twice.
THEOREM OneOwner == Spec => []FrameOwnership
  <1>1. DrainInv => FrameOwnership
    BY DEF DrainInv
  <1> QED  BY <1>1, DrainInvariant, PTL
=============================================================================
