------------------------ MODULE MediaRecorderProofs ------------------------
(***************************************************************************)
(* The theorems about the recorder as a whole, whatever its application    *)
(* calls and when, for every number of putters and every set of failures.  *)
(*                                                                         *)
(* FrameOwnership is proved anew here: the recorder does to the encoder    *)
(* what the encoder alone does not.  It resets frame_num, refuses frames   *)
(* while no size is configured, counts frames it had no memory for, others *)
(* write to the encoder's packets and messages, and a second start makes a *)
(* second thread.  The threads are numbered: 0 is the latest, whose pc and *)
(* hand are encPc and hand, and s is the one that was the s-th to start.   *)
(***************************************************************************)
EXTENDS MediaRecorder, QueueLemmas, FiniteSetTheorems

USE RecorderAssumption

Frame == 1..MaxFrames
Threads == 0..MaxStarts
PcOf(t) == IF t = 0 THEN encPc ELSE strays[t].pc
HandOf(t) == IF t = 0 THEN hand ELSE strays[t].hand
-----------------------------------------------------------------------------
(* The encoder threads and the buffers. *)

EncTypes ==
    /\ rgbaq \in Seq(Frame)
    /\ encPc \in Enc!EncPcs
    /\ hand \in Frame \cup {0}
    /\ strays \in [1..MaxStarts -> [pc : Enc!EncPcs, hand : 0..MaxFrames]]
    /\ starts \in Nat
    /\ putPc \in [Putters -> Enc!PutPcs]
    /\ putFrame \in [Putters -> Frame \cup {0}]
    /\ nextFrame \in 1..MaxFrames + 1
    /\ live \subseteq 1..nextFrame - 1

\* There is a place for the next stray: the one with the number of the latest
\* thread.
Numbered ==
    /\ encPc # "none" => starts # 0
    /\ \A s \in 1..MaxStarts : strays[s].pc # "none" => s < starts

\* Who holds a frame between two queue operations.
WhoHolds ==
    /\ \A t \in Threads : HandOf(t) # 0 <=> PcOf(t) = "process"
    /\ \A p \in Putters : putFrame[p] # 0 <=> putPc[p] \in {"enqueue", "put"}

\* FramesOwned, frame by frame and thread by thread.
Owned ==
    /\ \A f \in Frame : f \in live <=>
          \/ f \in Range(rgbaq)
          \/ \E t \in Threads : HandOf(t) = f
          \/ \E p \in Putters : putFrame[p] = f
    /\ IsInjective(rgbaq)
    /\ \A t \in Threads : HandOf(t) # 0 =>
          /\ HandOf(t) \notin Range(rgbaq)
          /\ \A u \in Threads \ {t} : HandOf(u) # HandOf(t)
    /\ \A p \in Putters : putFrame[p] # 0 =>
          /\ putFrame[p] \notin Range(rgbaq)
          /\ \A t \in Threads : HandOf(t) # putFrame[p]
          /\ \A q \in Putters \ {p} : putFrame[p] # putFrame[q]

EncInv == EncTypes /\ Numbered /\ WhoHolds /\ Owned

\* Enc!Holding, of the latest thread.
LEMMA Holds ==
    ASSUME EncInv
    PROVE  /\ hand # 0 <=> encPc = "process"
           /\ \A p \in Putters : putFrame[p] # 0 <=> putPc[p] \in {"enqueue", "put"}
<1>1. 0 \in Threads /\ HandOf(0) = hand /\ PcOf(0) = encPc
    BY DEF Threads, HandOf, PcOf
<1> QED BY <1>1 DEF EncInv, WhoHolds

LEMMA SameRange == Enc!Range(rgbaq) = Range(rgbaq)
    BY DEF Enc!Range, Range

LEMMA HandTypes ==
    ASSUME EncTypes, NEW t \in Threads
    PROVE  HandOf(t) \in Frame \cup {0} /\ PcOf(t) \in Enc!EncPcs
<1>1. CASE t = 0
    BY <1>1 DEF HandOf, PcOf, EncTypes
<1>2. CASE t # 0
    <2>1. t \in 1..MaxStarts
        BY <1>2 DEF Threads
    <2>2. strays[t] \in [pc : Enc!EncPcs, hand : 0..MaxFrames]
        BY <2>1 DEF EncTypes
    <2> QED BY <1>2, <2>2 DEF HandOf, PcOf, Frame
<1> QED BY <1>1, <1>2

LEMMA OwnedFrames == EncInv => FramesOwned
<1> SUFFICES ASSUME EncInv PROVE FramesOwned
    OBVIOUS
<1>1. EncTypes /\ Owned
    BY DEF EncInv
<1>2. /\ 0 \in Threads /\ HandOf(0) = hand
      /\ \A s \in 1..MaxStarts : s \in Threads /\ s # 0 /\ HandOf(s) = strays[s].hand
      /\ \A t \in Threads : t = 0 \/ t \in 1..MaxStarts
    BY DEF Threads, HandOf
<1>3. \A x : x \in Hands <=> \E t \in Threads : HandOf(t) = x
    BY <1>2 DEF Hands
<1>4. /\ \A t \in Threads : HandOf(t) \in Frame \cup {0}
      /\ \A p \in Putters : putFrame[p] \in Frame \cup {0}
      /\ Range(rgbaq) \subseteq Frame /\ live \subseteq Frame /\ 0 \notin Frame
    BY <1>1, HandTypes, RangeSubset DEF EncTypes, Frame
<1>5. live = Range(rgbaq) \cup ((Hands \cup {putFrame[p] : p \in Putters}) \ {0})
    <2>1. \A f \in Frame : f \in live <=>
              f \in Range(rgbaq) \cup ((Hands \cup {putFrame[p] : p \in Putters}) \ {0})
        BY <1>1, <1>3, <1>4 DEF Owned
    <2>2. Range(rgbaq) \cup ((Hands \cup {putFrame[p] : p \in Putters}) \ {0})
             \subseteq Frame
        BY <1>3, <1>4
    <2> QED BY <1>4, <2>1, <2>2
<1>6. Hands \cap Range(rgbaq) = {}
    BY <1>1, <1>3, <1>4 DEF Owned
<1>7. \A s \in 1..MaxStarts : strays[s].hand # 0 =>
          /\ strays[s].hand # hand
          /\ \A t \in 1..MaxStarts \ {s} : strays[t].hand # strays[s].hand
    BY <1>1, <1>2 DEF Owned
<1>8. \A p \in Putters : putFrame[p] # 0 =>
          /\ putFrame[p] \notin Range(rgbaq) \cup Hands
          /\ \A q \in Putters \ {p} : putFrame[q] # putFrame[p]
    BY <1>1, <1>3 DEF Owned
<1> QED BY <1>1, <1>5, <1>6, <1>7, <1>8 DEF Owned, FramesOwned

\* What a step of an encoder thread does to the buffers, by the thread's pc and
\* hand before and after it: nothing, or it gets a frame, frees the frame it
\* has, or frees the queue.
ThreadStep(pc, frame, pcNext, frameNext) ==
    /\ pc # "none" /\ pcNext \in Enc!EncPcs
    /\ \/ /\ pc # "process" /\ pcNext # "process" /\ frameNext = frame
          /\ UNCHANGED <<rgbaq, live>>
       \/ /\ pc = "get" /\ pcNext = "process" /\ rgbaq # <<>>
          /\ frameNext = Head(rgbaq) /\ rgbaq' = Tail(rgbaq) /\ live' = live
       \/ /\ pc = "process" /\ pcNext # "process" /\ frameNext = 0
          /\ rgbaq' = rgbaq /\ live' = live \ {frame}
       \/ /\ pc = "clear" /\ pcNext # "process" /\ frameNext = frame
          /\ rgbaq' = <<>> /\ live' = live \ Range(rgbaq)

\* What it promises the rest of the recorder.
EncOnly ==
    /\ UNCHANGED <<putPc, putFrame, nextFrame, starts>>
    /\ msgq' \in {msgq, Append(msgq, "STARTED"), Append(msgq, "ERROR")}

LEMMA EncoderSteps ==
    ASSUME Enc!EncoderStep
    PROVE  ThreadStep(encPc, hand, encPc', hand') /\ EncOnly
<1> USE DEF ThreadStep, EncOnly, Enc!putVars, Enc!queueVars, Enc!EncPcs, Enc!ReadyPcs,
        Enc!LoopPcs, Enc!EndPcs, Enc!None
<1>1. CASE \/ Enc!SetRunning \/ Enc!NotifyStarted \/ Enc!ResetAbort \/ Enc!ResetQueue
           \/ Enc!OpenCodec \/ Enc!OpenFails
    BY <1>1 DEF Enc!SetRunning, Enc!NotifyStarted, Enc!ResetAbort, Enc!ResetQueue,
        Enc!OpenCodec, Enc!OpenFails
<1>2. CASE \/ Enc!LoopTop \/ Enc!LoopSize \/ Enc!LoopAbortQueue \/ Enc!GetFrame
           \/ Enc!GetAborted
    BY <1>2 DEF Enc!LoopTop, Enc!LoopSize, Enc!LoopAbortQueue, Enc!GetFrame,
        Enc!GetAborted
<1>3. CASE \/ Enc!EncodeNoPacket \/ Enc!EncodePacket \/ Enc!EncodePacketRefused
           \/ Enc!EncodeFails
    BY <1>3 DEF Enc!Encoded, Enc!EncodeNoPacket, Enc!EncodePacket,
        Enc!EncodePacketRefused, Enc!EncodeFails
<1>4. CASE Enc!FlushPacket \/ Enc!FlushEnds \/ Enc!FlushFails
    BY <1>4 DEF Enc!FlushPacket, Enc!FlushEnds, Enc!FlushFails
<1>5. CASE Enc!ClearQueue \/ Enc!RearmAbort \/ Enc!RearmQueue \/ Enc!Exit
    BY <1>5, SameRange DEF Enc!ClearQueue, Enc!RearmAbort, Enc!RearmQueue, Enc!Exit
<1> QED BY <1>1, <1>2, <1>3, <1>4, <1>5 DEF Enc!EncoderStep

LEMMA StraySteps ==
    ASSUME NEW s \in 1..MaxStarts, Stray(s)!EncoderStep
    PROVE  /\ ThreadStep(strays[s].pc, strays[s].hand, strays'[s].pc, strays'[s].hand)
           /\ EncOnly
<1> USE DEF ThreadStep, EncOnly, Stray!putVars, Stray!queueVars, Enc!EncPcs, Enc!ReadyPcs,
        Enc!LoopPcs, Enc!EndPcs, Stray!None
<1>1. CASE \/ Stray(s)!SetRunning \/ Stray(s)!NotifyStarted \/ Stray(s)!ResetAbort
           \/ Stray(s)!ResetQueue \/ Stray(s)!OpenCodec \/ Stray(s)!OpenFails
    BY <1>1 DEF Stray!SetRunning, Stray!NotifyStarted, Stray!ResetAbort,
        Stray!ResetQueue, Stray!OpenCodec, Stray!OpenFails
<1>2. CASE \/ Stray(s)!LoopTop \/ Stray(s)!LoopSize \/ Stray(s)!LoopAbortQueue
           \/ Stray(s)!GetFrame \/ Stray(s)!GetAborted
    BY <1>2 DEF Stray!LoopTop, Stray!LoopSize, Stray!LoopAbortQueue, Stray!GetFrame,
        Stray!GetAborted
<1>3. CASE \/ Stray(s)!EncodeNoPacket \/ Stray(s)!EncodePacket
           \/ Stray(s)!EncodePacketRefused \/ Stray(s)!EncodeFails
    BY <1>3 DEF Stray!Encoded, Stray!EncodeNoPacket, Stray!EncodePacket,
        Stray!EncodePacketRefused, Stray!EncodeFails
<1>4. CASE Stray(s)!FlushPacket \/ Stray(s)!FlushEnds \/ Stray(s)!FlushFails
    BY <1>4 DEF Stray!FlushPacket, Stray!FlushEnds, Stray!FlushFails
<1>5. CASE Stray(s)!ClearQueue \/ Stray(s)!RearmAbort \/ Stray(s)!RearmQueue
           \/ Stray(s)!Exit
    <2>1. Stray(s)!Range(rgbaq) = Range(rgbaq)
        BY DEF Stray!Range, Range
    <2> QED BY <1>5, <2>1 DEF Stray!ClearQueue, Stray!RearmAbort, Stray!RearmQueue,
                Stray!Exit
<1> QED BY <1>1, <1>2, <1>3, <1>4, <1>5 DEF Stray!EncoderStep

\* One thread makes such a step and the others none.
LEMMA ThreadStepInv ==
    ASSUME EncInv, EncTypes', EncOnly, NEW t \in Threads,
           ThreadStep(PcOf(t), HandOf(t), PcOf(t)', HandOf(t)'),
           \A u \in Threads \ {t} : PcOf(u)' = PcOf(u) /\ HandOf(u)' = HandOf(u)
    PROVE  WhoHolds' /\ Owned' /\ Len(rgbaq') <= Len(rgbaq)
<1>0. /\ EncTypes /\ WhoHolds /\ Owned
      /\ UNCHANGED <<putPc, putFrame>>
      /\ rgbaq \in Seq(Frame) /\ Range(rgbaq) \subseteq Frame /\ Len(rgbaq) \in Nat
      /\ 0 \notin Frame
      /\ \A u \in Threads : HandOf(u) \in Frame \cup {0}
      /\ \A p \in Putters : putFrame[p] \in Frame \cup {0}
    <2>1. EncTypes /\ WhoHolds /\ Owned /\ UNCHANGED <<putPc, putFrame>>
        BY DEF EncInv, EncOnly
    <2>2. rgbaq \in Seq(Frame) /\ \A p \in Putters : putFrame[p] \in Frame \cup {0}
        BY <2>1 DEF EncTypes
    <2>3. Range(rgbaq) \subseteq Frame /\ Len(rgbaq) \in Nat
        BY <2>2, RangeSubset
    <2>4. \A u \in Threads : HandOf(u) \in Frame \cup {0}
        BY <2>1, HandTypes
    <2>5. 0 \notin Frame
        BY DEF Frame
    <2> QED BY <2>1, <2>2, <2>3, <2>4, <2>5
<1>1. CASE /\ PcOf(t) # "process" /\ PcOf(t)' # "process" /\ HandOf(t)' = HandOf(t)
           /\ UNCHANGED <<rgbaq, live>>
    <2>1. \A u \in Threads : HandOf(u)' = HandOf(u)
        BY <1>1
    <2>2. Owned'
        BY <1>0, <1>1, <2>1 DEF Owned
    <2>3. WhoHolds'
        BY <1>0, <1>1, <2>1 DEF WhoHolds
    <2> QED BY <1>0, <1>1, <2>2, <2>3
<1>2. CASE /\ PcOf(t) = "get" /\ PcOf(t)' = "process" /\ rgbaq # <<>>
           /\ HandOf(t)' = Head(rgbaq) /\ rgbaq' = Tail(rgbaq) /\ live' = live
    <2>1. /\ HandOf(t)' \in Frame /\ Len(rgbaq') = Len(rgbaq) - 1
          /\ Range(rgbaq) = {HandOf(t)'} \cup Range(rgbaq')
          /\ HandOf(t)' \notin Range(rgbaq') /\ IsInjective(rgbaq')
        BY <1>0, <1>2, RangeTail, InjectiveTail DEF Owned
    <2>2. HandOf(t) = 0
        BY <1>0, <1>2 DEF WhoHolds
    <2>3. \A f \in Frame : f \in live' <=>
              \/ f \in Range(rgbaq')
              \/ \E u \in Threads : HandOf(u)' = f
              \/ \E p \in Putters : putFrame'[p] = f
        <3> TAKE f \in Frame
        <3>1. (\E u \in Threads : HandOf(u)' = f)
                 <=> (\E u \in Threads : HandOf(u) = f) \/ HandOf(t)' = f
            BY <1>0, <2>2
        <3> QED BY <1>0, <1>2, <2>1, <3>1 DEF Owned
    <2>4. \A u \in Threads : HandOf(u)' # 0 =>
              /\ HandOf(u)' \notin Range(rgbaq')
              /\ \A v \in Threads \ {u} : HandOf(v)' # HandOf(u)'
        BY <1>0, <2>1 DEF Owned
    <2>5. \A p \in Putters : putFrame'[p] # 0 =>
              /\ putFrame'[p] \notin Range(rgbaq')
              /\ \A u \in Threads : HandOf(u)' # putFrame'[p]
              /\ \A q \in Putters \ {p} : putFrame'[p] # putFrame'[q]
        BY <1>0, <2>1 DEF Owned
    <2>6. WhoHolds'
        BY <1>0, <1>2, <2>1 DEF WhoHolds
    <2> QED BY <1>0, <2>1, <2>3, <2>4, <2>5, <2>6 DEF Owned
<1>3. CASE /\ PcOf(t) = "process" /\ PcOf(t)' # "process" /\ HandOf(t)' = 0
           /\ rgbaq' = rgbaq /\ live' = live \ {HandOf(t)}
    <2>1. HandOf(t) \in Frame
        BY <1>0, <1>3 DEF WhoHolds
    <2>2. \A f \in Frame : f \in live' <=>
              \/ f \in Range(rgbaq')
              \/ \E u \in Threads : HandOf(u)' = f
              \/ \E p \in Putters : putFrame'[p] = f
        <3> TAKE f \in Frame
        <3>1. CASE f = HandOf(t)
            BY <1>0, <1>3, <2>1, <3>1 DEF Owned
        <3>2. CASE f # HandOf(t)
            <4>1. (\E u \in Threads : HandOf(u)' = f) <=> (\E u \in Threads : HandOf(u) = f)
                BY <1>0, <1>3, <3>2
            <4> QED BY <1>0, <1>3, <3>2, <4>1 DEF Owned
        <3> QED BY <3>1, <3>2
    <2>3. \A u \in Threads : HandOf(u)' # 0 => u # t /\ HandOf(u)' = HandOf(u)
        BY <1>3
    <2>4. \A u \in Threads : HandOf(u)' # 0 =>
              /\ HandOf(u)' \notin Range(rgbaq')
              /\ \A v \in Threads \ {u} : HandOf(v)' # HandOf(u)'
        BY <1>0, <1>3, <2>3 DEF Owned
    <2>5. \A p \in Putters : putFrame'[p] # 0 =>
              /\ putFrame'[p] \notin Range(rgbaq')
              /\ \A u \in Threads : HandOf(u)' # putFrame'[p]
              /\ \A q \in Putters \ {p} : putFrame'[p] # putFrame'[q]
        BY <1>0, <1>3, <2>3 DEF Owned
    <2>6. WhoHolds'
        BY <1>0, <1>3 DEF WhoHolds
    <2> QED BY <1>0, <1>3, <2>2, <2>4, <2>5, <2>6 DEF Owned
<1>4. CASE /\ PcOf(t) = "clear" /\ PcOf(t)' # "process" /\ HandOf(t)' = HandOf(t)
           /\ rgbaq' = <<>> /\ live' = live \ Range(rgbaq)
    <2>1. Len(rgbaq') = 0 /\ Range(rgbaq') = {} /\ IsInjective(rgbaq')
        BY <1>4, RangeEmpty, InjectiveEmpty
    <2>2. \A u \in Threads : HandOf(u)' = HandOf(u)
        BY <1>4
    <2>3. \A f \in Frame : f \in live' <=>
              \/ f \in Range(rgbaq')
              \/ \E u \in Threads : HandOf(u)' = f
              \/ \E p \in Putters : putFrame'[p] = f
        <3> TAKE f \in Frame
        <3>1. f \in live' <=> f \in live /\ f \notin Range(rgbaq)
            BY <1>4
        <3> QED BY <1>0, <2>1, <2>2, <3>1 DEF Owned
    <2>4. Owned'
        BY <1>0, <2>1, <2>2, <2>3 DEF Owned
    <2>5. WhoHolds'
        BY <1>0, <1>4, <2>2 DEF WhoHolds
    <2> QED BY <1>0, <2>1, <2>4, <2>5
<1> QED BY <1>1, <1>2, <1>3, <1>4 DEF ThreadStep

\* The queue and the buffers keep their types in such a step.
LEMMA ThreadTypes ==
    ASSUME EncTypes, NEW pc, NEW frame, NEW pcNext, NEW frameNext,
           ThreadStep(pc, frame, pcNext, frameNext), frame \in Frame \cup {0}
    PROVE  /\ rgbaq' \in Seq(Frame) /\ live' \subseteq 1..nextFrame - 1
           /\ pcNext \in Enc!EncPcs /\ frameNext \in Frame \cup {0}
<1>1. rgbaq \in Seq(Frame) /\ live \subseteq 1..nextFrame - 1
    BY DEF EncTypes
<1>2. rgbaq # <<>> => Head(rgbaq) \in Frame /\ Tail(rgbaq) \in Seq(Frame)
    BY <1>1
<1>3. <<>> \in Seq(Frame)
    OBVIOUS
<1> QED BY <1>1, <1>2, <1>3 DEF ThreadStep

LEMMA EncoderStepInv ==
    ASSUME EncInv, UNCHANGED strayVars, Enc!EncoderStep
    PROVE  EncInv' /\ EncOnly /\ Len(rgbaq') <= Len(rgbaq)
<1>1. ThreadStep(encPc, hand, encPc', hand') /\ EncOnly
    BY EncoderSteps
<1>2. EncTypes'
    BY <1>1, ThreadTypes DEF EncInv, EncTypes, EncOnly, strayVars
<1>3. Numbered'
    BY <1>1 DEF EncInv, Numbered, EncOnly, ThreadStep, strayVars
<1>4. 0 \in Threads /\ PcOf(0) = encPc /\ HandOf(0) = hand
      /\ \A u \in Threads \ {0} : PcOf(u)' = PcOf(u) /\ HandOf(u)' = HandOf(u)
    BY DEF Threads, PcOf, HandOf, strayVars
<1>5. PcOf(0)' = encPc' /\ HandOf(0)' = hand'
    BY DEF PcOf, HandOf
<1> QED BY <1>1, <1>2, <1>3, <1>4, <1>5, ThreadStepInv DEF EncInv

LEMMA StrayStepInv ==
    ASSUME EncInv, NEW s \in 1..MaxStarts, StrayEncoder(s)
    PROVE  EncInv' /\ EncOnly /\ Len(rgbaq') <= Len(rgbaq)
<1>1. /\ ThreadStep(strays[s].pc, strays[s].hand, strays'[s].pc, strays'[s].hand)
      /\ EncOnly
    BY StraySteps DEF StrayEncoder
<1>2. /\ EncTypes /\ UNCHANGED <<encPc, hand>>
      /\ s \in Threads /\ s # 0
      /\ PcOf(s) = strays[s].pc /\ HandOf(s) = strays[s].hand
      /\ PcOf(s)' = strays'[s].pc /\ HandOf(s)' = strays'[s].hand
    BY DEF EncInv, StrayEncoder, Threads, PcOf, HandOf
<1>3. /\ rgbaq' \in Seq(Frame) /\ live' \subseteq 1..nextFrame - 1
      /\ strays'[s].pc \in Enc!EncPcs /\ strays'[s].hand \in Frame \cup {0}
    BY <1>1, <1>2, HandTypes, ThreadTypes
<1>4. PICK pc, frame : strays' = [strays EXCEPT ![s] = [pc |-> pc, hand |-> frame]]
    BY DEF StrayEncoder
<1>5. /\ strays'[s] = [pc |-> pc, hand |-> frame]
      /\ \A u \in 1..MaxStarts \ {s} : strays'[u] = strays[u]
    BY <1>2, <1>4 DEF EncTypes
<1>6. strays' \in [1..MaxStarts -> [pc : Enc!EncPcs, hand : 0..MaxFrames]]
    <2>1. pc \in Enc!EncPcs /\ frame \in 0..MaxFrames
        BY <1>3, <1>5 DEF Frame
    <2> QED BY <1>2, <1>4, <2>1 DEF EncTypes
<1>7. EncTypes'
    BY <1>1, <1>2, <1>3, <1>6 DEF EncTypes, EncOnly
<1>8. Numbered'
    BY <1>1, <1>2, <1>5 DEF EncInv, Numbered, EncOnly, StrayEncoder
<1>9. \A u \in Threads \ {s} : PcOf(u)' = PcOf(u) /\ HandOf(u)' = HandOf(u)
    BY <1>2, <1>5 DEF Threads, PcOf, HandOf
<1> QED BY <1>1, <1>2, <1>7, <1>8, <1>9, ThreadStepInv DEF EncInv

\* Nobody's buffer changes.
LEMMA BuffersKept ==
    ASSUME EncInv, UNCHANGED <<rgbaq, encPc, hand, strays, starts, putPc, putFrame,
                               nextFrame, live>>
    PROVE  EncInv'
<1>1. \A t \in Threads : HandOf(t)' = HandOf(t) /\ PcOf(t)' = PcOf(t)
    BY DEF HandOf, PcOf
<1>2. Owned' /\ WhoHolds'
    BY <1>1 DEF EncInv, Owned, WhoHolds
<1> QED BY <1>2 DEF EncInv, EncTypes, Numbered

\* The first encoder thread, or the first since the last one ended.
LEMMA StartInv ==
    ASSUME EncInv, UNCHANGED strayVars, Enc!Start
    PROVE  EncInv' /\ UNCHANGED <<putPc, putFrame, rgbaq, msgq>>
<1> USE DEF Enc!putVars, Enc!queueVars, strayVars
<1>1. /\ EncTypes /\ WhoHolds /\ Owned /\ Numbered
      /\ encPc = "none" /\ encPc' = "created" /\ starts' = starts + 1
      /\ UNCHANGED <<rgbaq, hand, strays, putPc, putFrame, nextFrame, live, msgq>>
    BY DEF EncInv, Enc!Start
<1>2. \A t \in Threads : /\ HandOf(t)' = HandOf(t)
                         /\ PcOf(t)' = "process" <=> PcOf(t) = "process"
    BY <1>1 DEF HandOf, PcOf
<1>3. Owned' /\ WhoHolds'
    BY <1>1, <1>2 DEF Owned, WhoHolds
<1>4. Numbered' /\ EncTypes'
    BY <1>1 DEF Numbered, EncTypes, Enc!EncPcs, Enc!ReadyPcs
<1> QED BY <1>1, <1>3, <1>4 DEF EncInv

\* A second one: the thread that was the latest keeps its pc and its frame, under
\* its own number.
LEMMA StartAgainInv ==
    ASSUME EncInv, HandleStartAgain
    PROVE  EncInv'
<1> DEFINE latest == [pc |-> encPc, hand |-> hand]
<1>1. /\ EncTypes /\ WhoHolds /\ Owned /\ Numbered
      /\ encPc # "none" /\ encPc' = "created" /\ hand' = 0
      /\ starts < MaxStarts /\ starts' = starts + 1
      /\ strays' = [strays EXCEPT ![starts] = latest]
      /\ UNCHANGED <<rgbaq, putPc, putFrame, nextFrame, live>>
    BY DEF EncInv, HandleStartAgain
<1>2. /\ starts \in 1..MaxStarts /\ strays[starts].pc = "none"
      /\ starts \in Threads /\ starts # 0 /\ 0 \in Threads
    BY <1>1 DEF Numbered, EncTypes, Threads
<1>3. /\ strays'[starts] = latest
      /\ \A s \in 1..MaxStarts \ {starts} : strays'[s] = strays[s]
    BY <1>1, <1>2 DEF EncTypes
<1>4. /\ HandOf(starts) = 0
      /\ HandOf(0) = hand /\ PcOf(0) = encPc
    BY <1>1, <1>2 DEF WhoHolds, HandOf, PcOf
<1>5. /\ HandOf(0)' = 0 /\ PcOf(0)' = "created"
      /\ \A u \in Threads : u = starts =>
            (IF u = 0 THEN hand' ELSE strays'[u].hand) = hand
            /\ (IF u = 0 THEN encPc' ELSE strays'[u].pc) = encPc
    BY <1>1, <1>2, <1>3 DEF HandOf, PcOf
<1>6. \A u \in Threads : u # starts /\ u # 0 =>
          HandOf(u)' = HandOf(u) /\ PcOf(u)' = PcOf(u)
    BY <1>3 DEF HandOf, PcOf, Threads
<1>7. \A u \in Threads : u = starts =>
          HandOf(u)' = HandOf(0) /\ PcOf(u)' = PcOf(0)
    BY <1>4, <1>5 DEF HandOf, PcOf
<1>8. \A f \in Frame : (\E u \in Threads : HandOf(u)' = f)
                          <=> (\E u \in Threads : HandOf(u) = f)
    <2> TAKE f \in Frame
    <2>1. f # 0
        BY DEF Frame
    <2> QED BY <1>2, <1>4, <1>5, <1>6, <1>7, <2>1
<1>9. \A u \in Threads : HandOf(u)' # 0 =>
          /\ HandOf(u)' \notin Range(rgbaq)
          /\ \A v \in Threads \ {u} : HandOf(v)' # HandOf(u)'
    BY <1>1, <1>2, <1>4, <1>5, <1>6, <1>7 DEF Owned
<1>10. \A p \in Putters : putFrame[p] # 0 =>
           \A u \in Threads : HandOf(u)' # putFrame[p]
    BY <1>1, <1>2, <1>5, <1>6, <1>7 DEF Owned
<1>11. Owned'
    BY <1>1, <1>8, <1>9, <1>10 DEF Owned
<1>12. WhoHolds'
    BY <1>1, <1>2, <1>4, <1>5, <1>6, <1>7 DEF WhoHolds
<1>13. EncTypes'
    <2>1. latest \in [pc : Enc!EncPcs, hand : 0..MaxFrames]
        BY <1>1 DEF EncTypes, Frame
    <2>2. strays' \in [1..MaxStarts -> [pc : Enc!EncPcs, hand : 0..MaxFrames]]
        BY <1>1, <2>1 DEF EncTypes
    <2> QED BY <1>1, <2>2 DEF EncTypes, Enc!EncPcs, Enc!ReadyPcs
<1>14. Numbered'
    BY <1>1, <1>2, <1>3 DEF Numbered, EncTypes
<1> QED BY <1>11, <1>12, <1>13, <1>14 DEF EncInv

LEMMA StopStepInv ==
    ASSUME EncInv, UNCHANGED strayVars, Enc!StopStep \/ Enc!StopBegin
    PROVE  EncInv' /\ UNCHANGED <<putPc, putFrame, rgbaq, msgq>>
<1>1. UNCHANGED <<rgbaq, hand, encPc, starts, putPc, putFrame, nextFrame, live, msgq>>
    BY DEF Enc!StopBegin, Enc!StopStep, Enc!StopAbort, Enc!StopSize,
           Enc!StopAbortQueue, Enc!StopWait, Enc!StopJoin, Enc!putVars, Enc!encVars,
           Enc!queueVars
<1> QED BY <1>1, BuffersKept DEF strayVars

\* Who puts: the set of frames in the hands of the putters changes by one.
LEMMA PutStepInv ==
    ASSUME EncInv, UNCHANGED strayVars, NEW p \in Putters,
           Enc!PutBegin(p) \/ Enc!PutStep(p) \/ Unconfigured(p)
    PROVE  EncInv'
<1> USE DEF Enc!putVars, Enc!encVars, Enc!queueVars, strayVars
<1>0. /\ EncTypes /\ WhoHolds /\ Owned /\ Numbered
      /\ putPc[p] \in {"enqueue", "put"} <=> putFrame[p] \in Frame
      /\ \A t \in Threads : HandOf(t) \in Frame \cup {0}
      /\ 0 \notin Frame
      /\ putFrame \in [Putters -> Frame \cup {0}]
      /\ putPc \in [Putters -> Enc!PutPcs]
    <2>1. EncTypes /\ WhoHolds /\ Owned /\ Numbered /\ 0 \notin Frame
        BY DEF EncInv, Frame
    <2> QED BY <2>1, HandTypes DEF WhoHolds, EncTypes
<1>1. ASSUME UNCHANGED <<encPc, hand, starts>>
      PROVE  /\ \A t \in Threads : HandOf(t)' = HandOf(t) /\ PcOf(t)' = PcOf(t)
             /\ Numbered'
    BY <1>0, <1>1 DEF HandOf, PcOf, Numbered
<1>2. CASE Enc!PutBegin(p)
    <2> USE <1>2 DEF Enc!PutBegin
    <2>1. /\ nextFrame \in Frame /\ nextFrame \notin live
          /\ nextFrame' \in 1..MaxFrames + 1
          /\ 1..nextFrame' - 1 = (1..nextFrame - 1) \cup {nextFrame}
        <3>1. /\ nextFrame \in Nat \ {0} /\ nextFrame <= MaxFrames
              /\ nextFrame' = nextFrame + 1
            BY <1>0 DEF EncTypes
        <3>2. nextFrame \notin 1..nextFrame - 1
            BY <3>1
        <3> QED BY <1>0, <3>1, <3>2 DEF EncTypes, Frame
    <2>2. putFrame[p] = 0
        BY <1>0 DEF WhoHolds
    <2>3. /\ \A q \in Putters : putFrame'[q] = IF q = p THEN nextFrame ELSE putFrame[q]
          /\ UNCHANGED <<rgbaq, encPc, hand, starts>>
        BY <1>0
    <2>4. \A f \in Frame : f \in live' <=>
              \/ f \in Range(rgbaq')
              \/ \E t \in Threads : HandOf(t)' = f
              \/ \E q \in Putters : putFrame'[q] = f
        <3> TAKE f \in Frame
        <3>1. (\E q \in Putters : putFrame'[q] = f)
                 <=> f = nextFrame \/ \E q \in Putters : putFrame[q] = f
            BY <1>0, <2>2, <2>3
        <3>2. f \in live' <=> f \in live \/ f = nextFrame
            OBVIOUS
        <3> QED BY <1>0, <1>1, <2>3, <3>1, <3>2 DEF Owned
    <2>5. /\ nextFrame \notin Range(rgbaq)
          /\ \A t \in Threads : HandOf(t) # nextFrame
          /\ \A q \in Putters : putFrame[q] # nextFrame
        BY <1>0, <2>1 DEF Owned
    <2>6. Owned'
        BY <1>0, <1>1, <2>1, <2>3, <2>4, <2>5 DEF Owned
    <2>7. WhoHolds'
        BY <1>0, <1>1, <2>1, <2>3 DEF WhoHolds
    <2>8. EncTypes'
        BY <1>0, <2>1 DEF EncTypes, Enc!PutPcs
    <2> QED BY <1>1, <2>3, <2>6, <2>7, <2>8 DEF EncInv
<1>3. CASE Enc!Reject(p) /\ putPc[p] \in {"enqueue", "put"}
    <2> USE <1>3 DEF Enc!Reject, Enc!None
    <2>1. putFrame[p] \in Frame
        BY <1>0
    <2>2. /\ \A q \in Putters : putFrame'[q] = IF q = p THEN 0 ELSE putFrame[q]
          /\ UNCHANGED <<rgbaq, encPc, hand, starts, nextFrame>>
          /\ live' = live \ {putFrame[p]}
        BY <1>0
    <2>3. \A f \in Frame : f \in live' <=>
              \/ f \in Range(rgbaq')
              \/ \E t \in Threads : HandOf(t)' = f
              \/ \E q \in Putters : putFrame'[q] = f
        <3> TAKE f \in Frame
        <3>1. CASE f = putFrame[p]
            BY <1>0, <1>1, <2>1, <2>2, <3>1 DEF Owned
        <3>2. CASE f # putFrame[p]
            <4>1. (\E q \in Putters : putFrame'[q] = f) <=> \E q \in Putters : putFrame[q] = f
                BY <1>0, <2>2, <3>2
            <4> QED BY <1>0, <1>1, <2>2, <3>2, <4>1 DEF Owned
        <3> QED BY <3>1, <3>2
    <2>4. Owned'
        BY <1>0, <1>1, <2>2, <2>3 DEF Owned
    <2>5. WhoHolds'
        BY <1>0, <1>1, <2>2 DEF WhoHolds
    <2>6. EncTypes'
        BY <1>0 DEF EncTypes, Enc!PutPcs
    <2> QED BY <1>1, <2>2, <2>4, <2>5, <2>6 DEF EncInv
<1>4. CASE Enc!QueuePut(p)
    <2> USE <1>4 DEF Enc!QueuePut, Enc!None
    <2>1. putFrame[p] \in Frame /\ rgbaq \in Seq(Frame)
        BY <1>0 DEF EncTypes
    <2>2. /\ putFrame[p] \notin Range(rgbaq) /\ putFrame[p] \in live
          /\ \A t \in Threads : HandOf(t) # putFrame[p]
        BY <1>0, <2>1 DEF Owned
    <2>3. /\ rgbaq' \in Seq(Frame)
          /\ Range(rgbaq') = Range(rgbaq) \cup {putFrame[p]} /\ IsInjective(rgbaq')
        BY <1>0, <2>1, <2>2, RangeAppend, InjectiveAppend DEF Owned
    <2>4. /\ \A q \in Putters : putFrame'[q] = IF q = p THEN 0 ELSE putFrame[q]
          /\ UNCHANGED <<live, encPc, hand, starts, nextFrame>>
        BY <1>0
    <2>5. \A f \in Frame : f \in live' <=>
              \/ f \in Range(rgbaq')
              \/ \E t \in Threads : HandOf(t)' = f
              \/ \E q \in Putters : putFrame'[q] = f
        <3> TAKE f \in Frame
        <3>1. CASE f = putFrame[p]
            BY <2>2, <2>3, <2>4, <3>1
        <3>2. CASE f # putFrame[p]
            <4>1. (\E q \in Putters : putFrame'[q] = f) <=> \E q \in Putters : putFrame[q] = f
                BY <1>0, <2>4, <3>2
            <4> QED BY <1>0, <1>1, <2>3, <2>4, <3>2, <4>1 DEF Owned
        <3> QED BY <3>1, <3>2
    <2>6. Owned'
        BY <1>0, <1>1, <2>1, <2>2, <2>3, <2>4, <2>5 DEF Owned
    <2>7. WhoHolds'
        BY <1>0, <1>1, <2>4 DEF WhoHolds
    <2>8. EncTypes'
        BY <1>0, <2>3 DEF EncTypes, Enc!PutPcs
    <2> QED BY <1>1, <2>4, <2>6, <2>7, <2>8 DEF EncInv
<1>5. CASE Enc!EnqueueChecked(p) \/ Enc!PutReturn(p)
    <2> USE <1>5 DEF Enc!EnqueueChecked, Enc!PutReturn
    <2>1. UNCHANGED <<rgbaq, encPc, hand, starts, live, putFrame, nextFrame>>
        OBVIOUS
    <2>2. Owned'
        BY <1>0, <1>1, <2>1 DEF Owned
    <2>3. /\ putPc' \in [Putters -> Enc!PutPcs]
          /\ \A q \in Putters : putPc'[q] \in {"enqueue", "put"}
                                 <=> putPc[q] \in {"enqueue", "put"}
        BY <1>0 DEF Enc!PutPcs
    <2>4. WhoHolds'
        BY <1>0, <1>1, <2>1, <2>3 DEF WhoHolds
    <2>5. EncTypes'
        BY <1>0, <2>1, <2>3 DEF EncTypes
    <2> QED BY <1>1, <2>1, <2>2, <2>4, <2>5 DEF EncInv
<1> QED
    BY <1>2, <1>3, <1>4, <1>5
    DEF Enc!PutStep, Enc!EnqueueRefused, Enc!QueuePutFails, Unconfigured
-----------------------------------------------------------------------------
(* The encoder's part of the recorder's invariant. *)

\* A putter is inside VEncoder_enqueue only in its call of put.
PutCalls == \A p \in Putters : putPc[p] # "idle" => call[p] = "enqueue"

\* Steps that the encoder does not see.
encShared == <<abort, rgbaq, rgbaAbort, encPc, hand, strays, starts, stopPc, putPc,
               putFrame, live, nextFrame>>

LEMMA EncKept ==
    ASSUME EncInv, UNCHANGED encShared
    PROVE  EncInv'
    BY BuffersKept DEF encShared

\* A frame for which there was no memory is only counted.
LEMMA UncountedInv ==
    ASSUME EncInv, NEW p \in Putters, PutNoMemory(p)
    PROVE  EncInv'
<1>1. /\ nextFrame \in 1..MaxFrames + 1 /\ nextFrame' = nextFrame + 1
      /\ nextFrame <= MaxFrames /\ live' = live /\ live \subseteq 1..nextFrame - 1
      /\ UNCHANGED <<rgbaq, encPc, hand, strays, starts, putPc, putFrame>>
    BY DEF EncInv, EncTypes, PutNoMemory, setVars, strayVars
<1>2. nextFrame' \in 1..MaxFrames + 1 /\ live' \subseteq 1..nextFrame' - 1
    BY <1>1
<1>3. \A t \in Threads : HandOf(t)' = HandOf(t) /\ PcOf(t)' = PcOf(t)
    BY <1>1 DEF HandOf, PcOf
<1>4. Owned' /\ WhoHolds'
    BY <1>1, <1>3 DEF EncInv, Owned, WhoHolds
<1> QED
    BY <1>1, <1>2, <1>4 DEF EncInv, EncTypes, Numbered

LEMMA MuxMessages ==
    ASSUME Mux!MuxStep \/ Mux!MStopStep \/ Mux!MStopBegin \/ Mux!MuxStart
    PROVE  msgq' \in {msgq, Append(msgq, "ERROR")}
    BY DEF Mux!MuxStep, Mux!MuxRunning, Mux!MuxFlush, Mux!MuxStartQueue,
           Mux!MuxClearAbort, Mux!OpenOutput, Mux!WriteHeader, Mux!MuxFails,
           Mux!WriteTop, Mux!WriteSize, Mux!WriteAbortQueue, Mux!GetPacket,
           Mux!GetPacketAborted, Mux!WritePacket, Mux!WriteFails, Mux!DropRest,
           Mux!WriteTrailer, Mux!PostError, Mux!MuxNotRunning, Mux!CloseFile,
           Mux!MStopStep, Mux!MStopSize, Mux!MStopAbortQueue, Mux!MStopAbort,
           Mux!MStopWait, Mux!MStopJoin, Mux!MStopBegin, Mux!MuxStart

LEMMA MuxStrayMessages ==
    ASSUME NEW s \in 1..MaxFrames, StrayMux(s)
    PROVE  msgq' \in {msgq, Append(msgq, "ERROR")}
    BY DEF StrayMux, MuxStray!MuxStep, MuxStray!MuxRunning, MuxStray!MuxFlush,
           MuxStray!MuxStartQueue, MuxStray!MuxClearAbort, MuxStray!OpenOutput,
           MuxStray!WriteHeader, MuxStray!MuxFails, MuxStray!WriteTop,
           MuxStray!WriteSize, MuxStray!WriteAbortQueue, MuxStray!GetPacket,
           MuxStray!GetPacketAborted, MuxStray!WritePacket, MuxStray!WriteFails,
           MuxStray!DropRest, MuxStray!WriteTrailer, MuxStray!PostError,
           MuxStray!MuxNotRunning, MuxStray!CloseFile

\* What each step does to the encoder, beside the putters.
LEMMA CallSteps ==
    ASSUME PrepareFirst \/ PrepareAgain \/ PrepareRefused \/ CallStart
             \/ CallStop \/ PostRequest
    PROVE  UNCHANGED <<encShared, call>>
    BY DEF PrepareFirst, PrepareAgain, PrepareRefused, CallStart, CallStop,
           PostRequest, InitEncoder, encVars, encShared, setVars, strayVars

LEMMA MessageSteps ==
    ASSUME TakeMessage \/ HandleFlush \/ HandlePrepared \/ HandleEvent \/ ArmMux
             \/ RefuseStart \/ StopMuxer \/ StopDone \/ RefuseStop
    PROVE  UNCHANGED <<encShared, call>>
    BY DEF TakeMessage, HandleFlush, HandlePrepared, HandleEvent, ArmMux,
           RefuseStart, StopMuxer, StopDone, RefuseStop, encVars, encShared, appVars,
           setVars, strayVars

LEMMA PutterSteps ==
    ASSUME NEW p \in Putters,
           \/ PutCall(p) \/ PutSize(p) \/ PutRefused(p) \/ ClaimMux(p) \/ CreateMux(p)
           \/ CreateMuxAgain(p)
    PROVE  UNCHANGED encShared
    BY DEF PutCall, PutSize, PutRefused, ClaimMux, CreateMux, CreateMuxAgain, encVars,
           encShared, setVars, strayVars

LEMMA StartSteps ==
    ASSUME EncInv, HandleStart \/ HandleStartAgain \/ HandleStop
    PROVE  EncInv' /\ UNCHANGED <<putPc, putFrame, rgbaq, msgq, call>>
<1>1. CASE HandleStart
    BY <1>1, StartInv DEF HandleStart, setVars, appVars
<1>2. CASE HandleStartAgain
    BY <1>2, StartAgainInv DEF HandleStartAgain, appVars
<1>3. CASE HandleStop
    BY <1>3, StopStepInv DEF HandleStop, setVars, appVars
<1> QED BY <1>1, <1>2, <1>3

LEMMA ThreadSteps ==
    ASSUME EncInv, EncoderThread \/ EncoderStop \/ \E s \in 1..MaxStarts : StrayEncoder(s)
    PROVE  /\ EncInv' /\ Len(rgbaq') <= Len(rgbaq)
           /\ UNCHANGED <<putPc, putFrame, call>>
           /\ msgq' \in {msgq, Append(msgq, "STARTED"), Append(msgq, "ERROR")}
<1>1. Len(rgbaq) \in Nat
    BY DEF EncInv, EncTypes
<1>2. CASE EncoderThread
    BY <1>2, EncoderStepInv DEF EncoderThread, EncOnly, recVars, setVars, appVars
<1>3. CASE EncoderStop
    BY <1>1, <1>3, StopStepInv DEF EncoderStop, recVars, setVars, appVars
<1>4. CASE \E s \in 1..MaxStarts : StrayEncoder(s)
    BY <1>4, StrayStepInv DEF StrayEncoder, EncOnly, appVars
<1> QED BY <1>2, <1>3, <1>4

LEMMA MuxSteps ==
    ASSUME MuxThread \/ MuxStop \/ \E s \in 1..MaxFrames : StrayMux(s)
    PROVE  UNCHANGED <<encShared, call>>
    BY DEF MuxThread, MuxStop, StrayMux, encVars, encShared, recVars, setVars,
           strayVars, appVars

LEMMA EncStep ==
    ASSUME EncInv, Next
    PROVE  EncInv'
<1>1. CASE PrepareFirst \/ PrepareAgain \/ PrepareRefused \/ CallStart
             \/ CallStop \/ PostRequest
    BY <1>1, CallSteps, EncKept
<1>2. CASE LoopStep
    BY <1>2, StartSteps, MessageSteps, EncKept DEF LoopStep
<1>3. ASSUME NEW p \in Putters, PutCall(p) \/ PutStep(p)
      PROVE  EncInv'
    <2>1. CASE PutNoMemory(p)
        BY <2>1, UncountedInv
    <2>2. CASE PutCopy(p) \/ Enqueue(p) \/ Enqueued(p) \/ NotEnqueued(p)
        <3>1. Enc!PutBegin(p) \/ Enc!PutStep(p) \/ Unconfigured(p)
            BY <2>2 DEF PutCopy, Enqueue, Enqueued, NotEnqueued, Enc!PutStep
        <3>2. UNCHANGED strayVars
            BY <2>2 DEF PutCopy, Enqueue, Enqueued, NotEnqueued, setVars
        <3> QED BY <3>1, <3>2, PutStepInv
    <2> QED BY <1>3, <2>1, <2>2, PutterSteps, EncKept DEF PutStep
<1>4. CASE EncoderThread \/ EncoderStop \/ \E s \in 1..MaxStarts : StrayEncoder(s)
    BY <1>4, ThreadSteps
<1>5. CASE MuxThread \/ MuxStop \/ \E s \in 1..MaxFrames : StrayMux(s)
    BY <1>5, MuxSteps, EncKept
<1> QED BY <1>1, <1>2, <1>3, <1>4, <1>5 DEF Next, StrayStep

-----------------------------------------------------------------------------
(* What the codec, the packet queue and the mux threads hold. *)

PacketTypes ==
    /\ codec \in Seq(Frame)
    /\ videoq \in Seq(Frame)
    /\ muxPc \in Mux!MuxPcs
    /\ packet \in 0..MaxFrames
    /\ muxStrays \in [1..MaxFrames -> [pc : Mux!MuxPcs, packet : 0..MaxFrames]]

LEMMA EncoderPackets ==
    ASSUME EncInv, PacketTypes, Enc!EncoderStep
    PROVE  codec' \in Seq(Frame) /\ videoq' \in Seq(Frame)
<1>1. /\ codec \in Seq(Frame) /\ videoq \in Seq(Frame) /\ <<>> \in Seq(Frame)
      /\ encPc = "process" => hand \in Frame
    BY DEF PacketTypes, EncInv, EncTypes, WhoHolds, HandOf, PcOf, Threads
<1>2. ASSUME NEW c \in Seq(Frame), c # <<>>
      PROVE  /\ Head(c) \in Frame /\ Tail(c) \in Seq(Frame)
             /\ Append(videoq, Head(c)) \in Seq(Frame)
    BY <1>1, <1>2
<1>3. ASSUME encPc = "process"
      PROVE  Append(codec, hand) \in Seq(Frame) /\ Append(codec, hand) # <<>>
    BY <1>1, <1>3, RangeAppend
<1>4. CASE Enc!EncodeNoPacket \/ Enc!EncodePacket \/ Enc!EncodePacketRefused
    BY <1>1, <1>2, <1>3, <1>4 DEF Enc!Encoded, Enc!EncodeNoPacket, Enc!EncodePacket,
        Enc!EncodePacketRefused
<1>5. CASE Enc!FlushPacket
    BY <1>1, <1>2, <1>5 DEF Enc!FlushPacket
<1> QED
    BY <1>1, <1>4, <1>5 DEF Enc!EncoderStep, Enc!SetRunning, Enc!NotifyStarted,
        Enc!ResetAbort, Enc!ResetQueue, Enc!OpenCodec, Enc!OpenFails, Enc!LoopTop,
        Enc!LoopSize, Enc!LoopAbortQueue, Enc!GetFrame, Enc!GetAborted, Enc!EncodeFails,
        Enc!FlushEnds, Enc!FlushFails, Enc!ClearQueue, Enc!RearmAbort, Enc!RearmQueue,
        Enc!Exit

LEMMA StrayPackets ==
    ASSUME EncInv, PacketTypes, NEW s \in 1..MaxStarts, Stray(s)!EncoderStep
    PROVE  codec' \in Seq(Frame) /\ videoq' \in Seq(Frame)
<1>1. /\ codec \in Seq(Frame) /\ videoq \in Seq(Frame) /\ <<>> \in Seq(Frame)
      /\ strays[s].pc = "process" => strays[s].hand \in Frame
    <2>1. s \in Threads /\ PcOf(s) = strays[s].pc /\ HandOf(s) = strays[s].hand
        BY DEF Threads, PcOf, HandOf
    <2> QED BY <2>1, HandTypes DEF PacketTypes, EncInv, WhoHolds
<1>2. ASSUME NEW c \in Seq(Frame), c # <<>>
      PROVE  /\ Head(c) \in Frame /\ Tail(c) \in Seq(Frame)
             /\ Append(videoq, Head(c)) \in Seq(Frame)
    BY <1>1, <1>2
<1>3. ASSUME strays[s].pc = "process"
      PROVE  /\ Append(codec, strays[s].hand) \in Seq(Frame)
             /\ Append(codec, strays[s].hand) # <<>>
    BY <1>1, <1>3, RangeAppend
<1>4. CASE Stray(s)!EncodeNoPacket \/ Stray(s)!EncodePacket \/ Stray(s)!EncodePacketRefused
    BY <1>1, <1>2, <1>3, <1>4 DEF Stray!Encoded, Stray!EncodeNoPacket,
        Stray!EncodePacket, Stray!EncodePacketRefused
<1>5. CASE Stray(s)!FlushPacket
    BY <1>1, <1>2, <1>5 DEF Stray!FlushPacket
<1> QED
    BY <1>1, <1>4, <1>5 DEF Stray!EncoderStep, Stray!SetRunning, Stray!NotifyStarted,
        Stray!ResetAbort, Stray!ResetQueue, Stray!OpenCodec, Stray!OpenFails,
        Stray!LoopTop, Stray!LoopSize, Stray!LoopAbortQueue, Stray!GetFrame,
        Stray!GetAborted, Stray!EncodeFails, Stray!FlushEnds, Stray!FlushFails,
        Stray!ClearQueue, Stray!RearmAbort, Stray!RearmQueue, Stray!Exit

LEMMA MuxPackets ==
    ASSUME PacketTypes, Mux!MuxStep \/ Mux!MStopStep \/ Mux!MStopBegin \/ Mux!MuxStart
    PROVE  /\ videoq' \in Seq(Frame) /\ muxPc' \in Mux!MuxPcs
           /\ packet' \in 0..MaxFrames
<1> USE DEF Mux!MuxPcs, Mux!StartPcs, Mux!OpenPcs, Mux!WritePcs, Mux!DonePcs,
        Mux!videoqVars, Mux!muxVars, Mux!NoPacket
<1>1. /\ videoq \in Seq(Frame) /\ <<>> \in Seq(Frame) /\ Frame \subseteq 0..MaxFrames
      /\ muxPc \in Mux!MuxPcs /\ packet \in 0..MaxFrames /\ 0 \in 0..MaxFrames
    BY DEF PacketTypes, Frame
<1>2. CASE Mux!GetPacket
    <2>1. Head(videoq) \in Frame /\ Tail(videoq) \in Seq(Frame)
        BY <1>1, <1>2 DEF Mux!GetPacket
    <2> QED BY <1>1, <1>2, <2>1 DEF Mux!GetPacket
<1>3. CASE \/ Mux!MStopStep \/ Mux!MStopBegin \/ Mux!MuxStart \/ Mux!MuxRunning
           \/ Mux!MuxFlush \/ Mux!MuxStartQueue \/ Mux!MuxClearAbort \/ Mux!OpenOutput
           \/ Mux!WriteHeader \/ Mux!MuxFails
    BY <1>1, <1>3 DEF Mux!MStopStep, Mux!MStopSize, Mux!MStopAbortQueue,
        Mux!MStopAbort, Mux!MStopWait, Mux!MStopJoin, Mux!MStopBegin, Mux!MuxStart,
        Mux!MuxRunning, Mux!MuxFlush, Mux!MuxStartQueue, Mux!MuxClearAbort,
        Mux!OpenOutput, Mux!WriteHeader, Mux!MuxFails
<1>4. CASE \/ Mux!WriteTop \/ Mux!WriteSize \/ Mux!WriteAbortQueue
           \/ Mux!GetPacketAborted \/ Mux!WritePacket \/ Mux!WriteFails \/ Mux!DropRest
           \/ Mux!WriteTrailer \/ Mux!PostError \/ Mux!MuxNotRunning \/ Mux!CloseFile
    BY <1>1, <1>4 DEF Mux!WriteTop, Mux!WriteSize, Mux!WriteAbortQueue,
        Mux!GetPacketAborted, Mux!WritePacket, Mux!WriteFails, Mux!DropRest,
        Mux!WriteTrailer, Mux!PostError, Mux!MuxNotRunning, Mux!CloseFile
<1> QED BY <1>2, <1>3, <1>4 DEF Mux!MuxStep

LEMMA MuxStrayPackets ==
    ASSUME PacketTypes, NEW s \in 1..MaxFrames, StrayMux(s)
    PROVE  PacketTypes'
<1>1. /\ videoq \in Seq(Frame) /\ <<>> \in Seq(Frame) /\ Frame \subseteq 0..MaxFrames
      /\ Range(videoq) \subseteq Frame /\ 0 \in 0..MaxFrames
      /\ videoq # <<>> => Tail(videoq) \in Seq(Frame)
    BY RangeSubset DEF PacketTypes, Frame
<1>2. PICK pc \in Mux!MuxPcs, next \in {0, muxStrays[s].packet} \cup Range(videoq) :
          muxStrays' = [muxStrays EXCEPT ![s] = [pc |-> pc, packet |-> next]]
    BY DEF StrayMux
<1>3. next \in 0..MaxFrames
    <2>1. muxStrays[s] \in [pc : Mux!MuxPcs, packet : 0..MaxFrames]
        BY DEF PacketTypes
    <2> QED BY <1>1, <1>2, <2>1
<1>4. muxStrays' \in [1..MaxFrames -> [pc : Mux!MuxPcs, packet : 0..MaxFrames]]
    <2>1. [pc |-> pc, packet |-> next] \in [pc : Mux!MuxPcs, packet : 0..MaxFrames]
        BY <1>3
    <2> QED BY <1>2, <2>1 DEF PacketTypes
<1>5. \/ videoq' = videoq
      \/ videoq' = <<>>
      \/ videoq # <<>> /\ videoq' = Tail(videoq)
    <2> USE DEF MuxStray!videoqVars
    <2>1. MuxStray(s)!MuxStep
        BY DEF StrayMux
    <2>2. CASE \/ MuxStray(s)!MuxRunning \/ MuxStray(s)!MuxFlush
               \/ MuxStray(s)!MuxStartQueue \/ MuxStray(s)!MuxClearAbort
               \/ MuxStray(s)!OpenOutput \/ MuxStray(s)!WriteHeader
               \/ MuxStray(s)!MuxFails
        BY <2>2 DEF MuxStray!MuxRunning, MuxStray!MuxFlush, MuxStray!MuxStartQueue,
            MuxStray!MuxClearAbort, MuxStray!OpenOutput, MuxStray!WriteHeader,
            MuxStray!MuxFails
    <2>3. CASE \/ MuxStray(s)!WriteTop \/ MuxStray(s)!WriteSize
               \/ MuxStray(s)!WriteAbortQueue \/ MuxStray(s)!GetPacket
               \/ MuxStray(s)!GetPacketAborted \/ MuxStray(s)!WritePacket
               \/ MuxStray(s)!WriteFails \/ MuxStray(s)!DropRest
        BY <2>3 DEF MuxStray!WriteTop, MuxStray!WriteSize, MuxStray!WriteAbortQueue,
            MuxStray!GetPacket, MuxStray!GetPacketAborted, MuxStray!WritePacket,
            MuxStray!WriteFails, MuxStray!DropRest
    <2>4. CASE \/ MuxStray(s)!WriteTrailer \/ MuxStray(s)!PostError
               \/ MuxStray(s)!MuxNotRunning \/ MuxStray(s)!CloseFile
        BY <2>4 DEF MuxStray!WriteTrailer, MuxStray!PostError,
            MuxStray!MuxNotRunning, MuxStray!CloseFile
    <2> QED BY <2>1, <2>2, <2>3, <2>4 DEF MuxStray!MuxStep
<1>6. videoq' \in Seq(Frame)
    BY <1>1, <1>5
<1>7. UNCHANGED <<codec, muxPc, packet>>
    BY DEF StrayMux, encVars
<1> QED BY <1>4, <1>6, <1>7 DEF PacketTypes

\* Everybody else leaves them alone.
LEMMA PacketsKept ==
    ASSUME UNCHANGED <<codec, videoq, muxPc, packet, muxStrays>>
    PROVE  PacketTypes => PacketTypes'
    BY DEF PacketTypes

LEMMA CallPackets ==
    ASSUME PacketTypes, PrepareFirst \/ PrepareAgain \/ PrepareRefused \/ CallStart
             \/ CallStop \/ PostRequest
    PROVE  PacketTypes'
    BY PacketsKept DEF PrepareFirst, PrepareAgain, PrepareRefused, CallStart, CallStop,
           PostRequest, InitEncoder, encVars, muxVars, setVars, strayVars

LEMMA LoopPackets ==
    ASSUME PacketTypes, LoopStep
    PROVE  PacketTypes'
<1>1. CASE StopMuxer
    BY <1>1, MuxPackets DEF StopMuxer, encVars, setVars, strayVars, PacketTypes
<1>2. CASE HandleStart \/ HandleStop
    BY <1>2, PacketsKept DEF HandleStart, HandleStop, Enc!Start, Enc!StopBegin,
        Enc!encVars, Enc!queueVars, muxVars, setVars, strayVars
<1>3. CASE \/ TakeMessage \/ HandleFlush \/ HandlePrepared \/ HandleEvent \/ ArmMux
           \/ RefuseStart \/ StopDone \/ RefuseStop \/ HandleStartAgain
    BY <1>3, PacketsKept DEF TakeMessage, HandleFlush, HandlePrepared, HandleEvent,
        ArmMux, RefuseStart, StopDone, RefuseStop, HandleStartAgain, encVars, muxVars,
        setVars, strayVars
<1> QED BY <1>1, <1>2, <1>3 DEF LoopStep

LEMMA PutPackets ==
    ASSUME PacketTypes, NEW p \in Putters, PutCall(p) \/ PutStep(p)
    PROVE  PacketTypes'
<1>1. CASE CreateMux(p)
    BY <1>1, MuxPackets DEF CreateMux, encVars, setVars, strayVars, PacketTypes
<1>2. CASE CreateMuxAgain(p)
    <2>1. /\ muxStrays' = [muxStrays EXCEPT ![muxStarts] = [pc |-> muxPc, packet |-> packet]]
          /\ [pc |-> muxPc, packet |-> packet] \in [pc : Mux!MuxPcs, packet : 0..MaxFrames]
        BY <1>2 DEF CreateMuxAgain, PacketTypes
    <2>2. muxStrays' \in [1..MaxFrames -> [pc : Mux!MuxPcs, packet : 0..MaxFrames]]
        BY <2>1 DEF PacketTypes
    <2> QED BY <1>2, <2>2 DEF CreateMuxAgain, encVars, PacketTypes, Mux!MuxPcs,
            Mux!StartPcs
<1>3. CASE \/ PutCall(p) \/ PutSize(p) \/ PutNoMemory(p) \/ PutRefused(p) \/ ClaimMux(p)
    BY <1>3, PacketsKept DEF PutCall, PutSize, PutNoMemory, PutRefused, ClaimMux,
        encVars, muxVars, setVars, strayVars
<1>4. CASE PutCopy(p) \/ Enqueue(p) \/ Enqueued(p) \/ NotEnqueued(p)
    BY <1>4, PacketsKept DEF PutCopy, Enqueue, Enqueued, NotEnqueued, Unconfigured,
        Enc!PutBegin, Enc!EnqueueChecked, Enc!EnqueueRefused, Enc!QueuePutFails,
        Enc!QueuePut, Enc!PutReturn, Enc!Reject, Enc!encVars, Enc!queueVars, muxVars,
        setVars, strayVars
<1> QED BY <1>1, <1>2, <1>3, <1>4 DEF PutStep

LEMMA PacketStep ==
    ASSUME EncInv, PacketTypes, Next
    PROVE  PacketTypes'
<1>1. CASE EncoderThread
    BY <1>1, EncoderPackets DEF EncoderThread, muxVars, recVars, setVars, strayVars,
        PacketTypes
<1>2. CASE EncoderStop
    BY <1>2, PacketsKept DEF EncoderStop, Enc!StopStep, Enc!StopAbort, Enc!StopSize,
        Enc!StopAbortQueue, Enc!StopWait, Enc!StopJoin, Enc!encVars, Enc!queueVars,
        muxVars, recVars, setVars, strayVars
<1>3. CASE MuxThread \/ MuxStop
    BY <1>3, MuxPackets DEF MuxThread, MuxStop, encVars, recVars, setVars, strayVars,
        PacketTypes
<1>4. CASE \E s \in 1..MaxStarts : StrayEncoder(s)
    BY <1>4, StrayPackets DEF StrayEncoder, muxVars, PacketTypes
<1>5. CASE \E s \in 1..MaxFrames : StrayMux(s)
    BY <1>5, MuxStrayPackets
<1> QED BY <1>1, <1>2, <1>3, <1>4, <1>5, CallPackets, LoopPackets, PutPackets
        DEF Next, StrayStep
-----------------------------------------------------------------------------
(* The recorder's own variables. *)

Message == Events \cup Requests

OwnTypes ==
    /\ state \in States
    /\ msgq \in Seq(Message)
    /\ msgThread \in BOOLEAN
    /\ configured \in BOOLEAN
    /\ startMux \in BOOLEAN
    /\ loopPc \in {"wait", "handle", "arm", "stopEncoder", "stopMuxer"}
    /\ message \in Message
    /\ ctlPc \in {"idle"} \cup Requests
    /\ call \in [Putters -> CallPcs]
    /\ told \in Events
    /\ calls \in 0..MaxCalls
    /\ accepted \in Seq(1..MaxFrames)
    /\ prepared \in BOOLEAN

RecInv == TypeOK /\ EncInv /\ PutCalls /\ PacketTypes

LEMMA AllTypes == OwnTypes /\ EncTypes /\ PacketTypes => TypeOK
    BY DEF TypeOK, OwnTypes, EncTypes, PacketTypes, Message

\* The same after a step.
LEMMA TypesNext == OwnTypes' /\ EncInv' /\ PacketTypes' => TypeOK'
    BY DEF TypeOK, OwnTypes, EncInv, EncTypes, PacketTypes, Message

LEMMA PutCallsStep ==
    ASSUME RecInv, Next
    PROVE  PutCalls'
<1> USE DEF PutCalls
<1>0. /\ PutCalls /\ EncInv
      /\ putPc \in [Putters -> Enc!PutPcs] /\ call \in [Putters -> CallPcs]
    BY DEF RecInv, TypeOK, EncInv, EncTypes
<1>1. CASE UNCHANGED <<putPc, call>>
    BY <1>0, <1>1
<1>2. CASE PrepareFirst \/ PrepareAgain \/ PrepareRefused \/ CallStart
             \/ CallStop \/ PostRequest
    BY <1>1, <1>2, CallSteps DEF encShared
<1>3. CASE LoopStep
    BY <1>0, <1>1, <1>3, StartSteps, MessageSteps DEF LoopStep, encShared
<1>4. ASSUME NEW p \in Putters, PutCall(p) \/ PutStep(p)
      PROVE  PutCalls'
    <2>1. CASE PutCall(p)
        BY <1>0, <2>1 DEF PutCall, encVars
    <2>2. CASE PutSize(p) \/ PutNoMemory(p)
        BY <1>0, <2>2 DEF PutSize, PutNoMemory, encVars
    <2>3. CASE PutCopy(p)
        BY <1>0, <2>3 DEF PutCopy, Enc!PutBegin
    <2>4. CASE Enqueue(p)
        <3>1. putPc[p] # "idle" /\ call' = call
            BY <2>4 DEF Enqueue, Unconfigured, Enc!EnqueueChecked,
                        Enc!EnqueueRefused, Enc!QueuePutFails, Enc!QueuePut, appVars
        <3>2. \E v : putPc' = [putPc EXCEPT ![p] = v]
            BY <2>4 DEF Enqueue, Unconfigured, Enc!Reject, Enc!EnqueueChecked,
                        Enc!EnqueueRefused, Enc!QueuePutFails, Enc!QueuePut
        <3> QED BY <1>0, <3>1, <3>2
    <2>5. CASE Enqueued(p) \/ NotEnqueued(p)
        BY <1>0, <2>5 DEF Enqueued, NotEnqueued, Enc!PutReturn
    <2>6. CASE PutRefused(p) \/ ClaimMux(p) \/ CreateMux(p)
                 \/ CreateMuxAgain(p)
        BY <1>0, <2>6 DEF PutRefused, ClaimMux, CreateMux, CreateMuxAgain, encVars
    <2> QED BY <1>4, <2>1, <2>2, <2>3, <2>4, <2>5, <2>6 DEF PutStep
<1>5. CASE EncoderThread \/ EncoderStop \/ \E s \in 1..MaxStarts : StrayEncoder(s)
    BY <1>0, <1>1, <1>5, ThreadSteps
<1>6. CASE MuxThread \/ MuxStop \/ \E s \in 1..MaxFrames : StrayMux(s)
    BY <1>1, <1>6, MuxSteps DEF encShared
<1> QED BY <1>2, <1>3, <1>4, <1>5, <1>6 DEF Next, StrayStep

LEMMA PostTypes ==
    ASSUME NEW m \in Message, msgq \in Seq(Message),
           msgq' \in {msgq, Append(msgq, m)}
    PROVE  msgq' \in Seq(Message)
    OBVIOUS

\* The variables of the recorder, without the messages.
ownVars == <<state, msgThread, configured, startMux, loopVars, appVars, told, histVars>>

\* The steps of the threads of the parts.
LEMMA PartTypes ==
    ASSUME OwnTypes, UNCHANGED ownVars,
           msgq' \in {msgq, Append(msgq, "STARTED"), Append(msgq, "ERROR")}
    PROVE  OwnTypes'
<1>1. msgq' \in Seq(Message)
    BY PostTypes DEF OwnTypes, Message, Events
<1> QED
    BY <1>1 DEF OwnTypes, Message, ownVars, loopVars, appVars, histVars

LEMMA CallTypes ==
    ASSUME OwnTypes,
           PrepareFirst \/ PrepareAgain \/ PrepareRefused \/ CallStart
             \/ CallStop \/ PostRequest
    PROVE  OwnTypes'
<1>1. msgq' \in Seq(Message)
    BY PostTypes DEF OwnTypes, Message, Events, Requests, Post, PrepareFirst,
          PrepareAgain, PrepareRefused, CallStart, CallStop, PostRequest
<1>2. <<>> \in Seq(1..MaxFrames)
    OBVIOUS
<1>3. ASSUME calls < MaxCalls, calls' = calls + 1
      PROVE  calls' \in 0..MaxCalls
    BY <1>3 DEF OwnTypes
<1>4. CASE PrepareFirst \/ PrepareAgain \/ PrepareRefused \/ CallStart \/ CallStop
    <2>1. calls' \in 0..MaxCalls
        BY <1>3, <1>4 DEF MayCall, PrepareFirst, PrepareAgain, PrepareRefused,
              CallStart, CallStop
    <2>2. CASE PrepareFirst
        BY <1>1, <2>1, <2>2 DEF OwnTypes, Message, States, Events, PrepareFirst,
              loopVars, histVars
    <2>3. CASE PrepareAgain
        BY <1>1, <1>2, <2>1, <2>3 DEF OwnTypes, Message, States, Events,
              PrepareAgain, loopVars
    <2>4. CASE PrepareRefused
        BY <1>1, <2>1, <2>4 DEF OwnTypes, Message, PrepareRefused, setVars,
              loopVars, histVars
    <2>5. CASE CallStart
        BY <1>1, <2>1, <2>5 DEF OwnTypes, Message, States, Events, Requests,
              CallStart, setVars, loopVars, histVars
    <2>6. CASE CallStop
        BY <1>1, <2>1, <2>6 DEF OwnTypes, Message, States, Events, Requests,
              CallStop, setVars, loopVars, histVars
    <2> QED BY <1>4, <2>2, <2>3, <2>4, <2>5, <2>6
<1>5. CASE PostRequest
    BY <1>1, <1>5 DEF OwnTypes, Message, Requests, PostRequest, setVars, loopVars,
          histVars
<1> QED BY <1>4, <1>5

LEMMA LoopTypes ==
    ASSUME OwnTypes, EncInv, LoopStep
    PROVE  OwnTypes'
<1> DEFINE Posted == \E m \in Message : msgq' \in {msgq, Append(msgq, m)}
<1>1. CASE TakeMessage
    <2>1. message' \in Message /\ msgq' \in Seq(Message)
        BY <1>1 DEF TakeMessage, OwnTypes, Message
    <2> QED BY <1>1, <2>1 DEF TakeMessage, OwnTypes, Message, setVars, appVars, histVars
<1>2. CASE HandleFlush \/ HandlePrepared \/ RefuseStart \/ RefuseStop \/ StopDone
    <2>1. Posted
        BY <1>2 DEF HandleFlush, HandlePrepared, RefuseStart, RefuseStop, StopDone,
              Post, Message, Events
    <2>2. msgq' \in Seq(Message)
        BY <2>1, PostTypes DEF OwnTypes, Message
    <2>3. /\ UNCHANGED <<msgThread, configured, startMux, message, appVars, accepted>>
          /\ loopPc' = "wait"
          /\ state' \in {state, "PREPARED"} /\ told' \in {told, "PREPARED"}
          /\ prepared' \in {prepared, TRUE}
        BY <1>2 DEF HandleFlush, HandlePrepared, RefuseStart, RefuseStop, StopDone,
              setVars, histVars
    <2>4. state' \in States /\ told' \in Events /\ prepared' \in BOOLEAN
        BY <2>3 DEF OwnTypes, States, Events
    <2> QED BY <2>2, <2>3, <2>4 DEF OwnTypes, Message, setVars, appVars
<1>3. CASE HandleEvent
    BY <1>3 DEF HandleEvent, OwnTypes, States, Events, setVars, appVars, histVars
<1>4. CASE HandleStart
    <2>1. msgq' = msgq
        BY <1>4 DEF HandleStart, Enc!Start
    <2> QED BY <1>4, <2>1 DEF HandleStart, OwnTypes, setVars, appVars
<1>5. CASE ArmMux
    BY <1>5 DEF ArmMux, OwnTypes, setVars, appVars, histVars
<1>6. CASE HandleStop
    <2>1. msgq' = msgq
        BY <1>6 DEF HandleStop, Enc!StopBegin
    <2> QED BY <1>6, <2>1 DEF HandleStop, OwnTypes, setVars, appVars, histVars
<1>7. CASE StopMuxer
    <2>1. msgq' \in Seq(Message)
        BY <1>7, MuxMessages, PostTypes DEF StopMuxer, OwnTypes, Message, Events
    <2> QED BY <1>7, <2>1 DEF StopMuxer, OwnTypes, Message, setVars, appVars, histVars
<1>8. CASE HandleStartAgain
    BY <1>8 DEF HandleStartAgain, OwnTypes, appVars
<1> QED BY <1>1, <1>2, <1>3, <1>4, <1>5, <1>6, <1>7, <1>8 DEF LoopStep

\* The steps of VEncoder_enqueue post nothing.
LEMMA EnqueueMessages ==
    ASSUME NEW p \in Putters, Enc!PutBegin(p) \/ Enc!PutStep(p) \/ Unconfigured(p)
    PROVE  msgq' = msgq
    BY DEF Enc!PutBegin, Enc!PutStep, Unconfigured, Enc!EnqueueChecked,
           Enc!EnqueueRefused, Enc!QueuePut, Enc!QueuePutFails, Enc!PutReturn,
           Enc!Reject

LEMMA PutTypes ==
    ASSUME OwnTypes, EncInv, NEW p \in Putters, PutCall(p) \/ PutStep(p)
    PROVE  OwnTypes'
<1>0. /\ call \in [Putters -> CallPcs] /\ accepted \in Seq(1..MaxFrames)
    BY DEF OwnTypes
<1>1. msgq' \in Seq(Message)
    <2>1. CASE PutCopy(p) \/ Enqueue(p) \/ Enqueued(p) \/ NotEnqueued(p)
        <3>1. Enc!PutBegin(p) \/ Enc!PutStep(p) \/ Unconfigured(p)
            BY <2>1 DEF PutCopy, Enqueue, Enqueued, NotEnqueued, Enc!PutStep
        <3> QED BY <3>1, EnqueueMessages DEF OwnTypes, Message
    <2>2. CASE CreateMux(p)
        BY <2>2, MuxMessages, PostTypes DEF CreateMux, OwnTypes, Message, Events
    <2>3. CASE \/ PutCall(p) \/ PutSize(p) \/ PutNoMemory(p) \/ PutRefused(p)
               \/ ClaimMux(p) \/ CreateMuxAgain(p)
        <3>1. msgq' \in {msgq, Append(msgq, "ERROR")}
            BY <2>3 DEF PutCall, PutSize, PutNoMemory, PutRefused, ClaimMux,
                  CreateMuxAgain, Post
        <3> QED BY <3>1, PostTypes DEF OwnTypes, Message, Events
    <2> QED BY <2>1, <2>2, <2>3 DEF PutStep
<1>2. CASE Enqueue(p)
    <2>1. accepted' \in Seq(1..MaxFrames)
        <3>1. CASE Enc!QueuePut(p) /\ accepted' = Append(accepted, putFrame[p])
            <4>1. putFrame[p] \in Frame
                BY <3>1 DEF EncInv, EncTypes, WhoHolds, Enc!QueuePut
            <4> QED BY <1>0, <3>1, <4>1 DEF Frame
        <3> QED BY <1>0, <1>2, <3>1 DEF Enqueue
    <2> QED BY <1>1, <1>2, <2>1 DEF OwnTypes, Message, Enqueue, setVars, loopVars, appVars
<1>3. CASE PutCall(p) \/ PutSize(p) \/ PutNoMemory(p) \/ PutCopy(p)
             \/ Enqueued(p) \/ NotEnqueued(p) \/ PutRefused(p) \/ ClaimMux(p)
             \/ CreateMux(p) \/ CreateMuxAgain(p)
    <2>1. \E v \in CallPcs : call' = [call EXCEPT ![p] = v]
        BY <1>3 DEF CallPcs, PutCall, PutSize, PutNoMemory, PutCopy, Enqueued,
              NotEnqueued, PutRefused, ClaimMux, CreateMux, CreateMuxAgain
    <2>2. call' \in [Putters -> CallPcs]
        BY <1>0, <2>1
    <2>3. /\ UNCHANGED <<state, msgThread, configured, loopVars, ctlPc, calls, told,
                        histVars>>
          /\ startMux' \in {startMux, FALSE}
        BY <1>3 DEF setVars, PutCall, PutSize, PutNoMemory, PutCopy, Enqueued,
              NotEnqueued, PutRefused, ClaimMux, CreateMux, CreateMuxAgain
    <2> QED BY <1>1, <2>2, <2>3 DEF OwnTypes, Message, setVars, loopVars, histVars
<1> QED BY <1>2, <1>3 DEF PutStep
-----------------------------------------------------------------------------
(* The invariant, and what follows from it. *)

LEMMA RecInit == Init => RecInv
<1> SUFFICES ASSUME Init PROVE RecInv
    OBVIOUS
<1> USE DEF Init, Enc!Init, Mux!Init
<1>1. OwnTypes
    <2>1. <<>> \in Seq(Events \cup Requests) /\ <<>> \in Seq(1..MaxFrames)
        OBVIOUS
    <2>2. call \in [Putters -> CallPcs] /\ calls \in 0..MaxCalls
        BY DEF CallPcs
    <2> QED BY <2>1, <2>2 DEF OwnTypes, States, Events, Message, Requests
<1>2. EncTypes /\ Numbered
    BY DEF EncTypes, Numbered, Enc!PutPcs, Enc!EncPcs, Enc!None
<1>3. \A t \in Threads : HandOf(t) = 0 /\ PcOf(t) = "none"
    BY DEF Threads, HandOf, PcOf, Enc!None
<1>4. WhoHolds /\ Owned
    BY <1>3, RangeEmpty, InjectiveEmpty DEF WhoHolds, Owned, Enc!None, Frame
<1>5. PutCalls /\ PacketTypes
    BY DEF PutCalls, PacketTypes, Mux!MuxPcs, Mux!NoPacket
<1> QED BY <1>1, <1>2, <1>4, <1>5, AllTypes DEF RecInv, EncInv

LEMMA RecStep == RecInv /\ [Next]_vars => RecInv'
<1> SUFFICES ASSUME RecInv, [Next]_vars PROVE RecInv'
    OBVIOUS
<1>0. TypeOK /\ EncInv /\ PutCalls /\ PacketTypes
    BY DEF RecInv
<1>1. OwnTypes
    BY <1>0 DEF TypeOK, OwnTypes, Message
<1>2. CASE UNCHANGED vars
    <2>1. UNCHANGED <<ownVars, encShared, call, codec, videoq, muxPc, packet, muxStrays,
                      msgq>>
        BY <1>2 DEF vars, encVars, muxVars, recVars, setVars, strayVars, appVars, ownVars,
            encShared
    <2>2. EncInv' /\ PacketTypes' /\ PutCalls'
        BY <1>0, <2>1, EncKept, PacketsKept DEF PutCalls, encShared
    <2>3. OwnTypes'
        BY <1>1, <2>1, PartTypes
    <2> QED BY <2>2, <2>3, TypesNext DEF RecInv
<1>3. CASE Next
    <2>1. EncInv' /\ PutCalls' /\ PacketTypes'
        BY <1>0, <1>3, EncStep, PutCallsStep, PacketStep
    <2>2. CASE PrepareFirst \/ PrepareAgain \/ PrepareRefused \/ CallStart
                 \/ CallStop \/ PostRequest
        BY <1>1, <2>1, <2>2, CallTypes, TypesNext DEF RecInv
    <2>3. CASE LoopStep
        BY <1>0, <1>1, <2>1, <2>3, LoopTypes, TypesNext DEF RecInv
    <2>4. CASE \E p \in Putters : PutCall(p) \/ PutStep(p)
        BY <1>0, <1>1, <2>1, <2>4, PutTypes, TypesNext DEF RecInv
    <2>5. CASE EncoderThread \/ EncoderStop \/ \E s \in 1..MaxStarts : StrayEncoder(s)
        <3>1. UNCHANGED ownVars
            BY <2>5 DEF EncoderThread, EncoderStop, StrayEncoder, recVars, setVars,
                  ownVars
        <3>2. OwnTypes'
            BY <1>0, <1>1, <2>5, <3>1, ThreadSteps, PartTypes
        <3> QED BY <2>1, <3>2, TypesNext DEF RecInv
    <2>6. CASE MuxThread \/ MuxStop \/ \E s \in 1..MaxFrames : StrayMux(s)
        <3>1. UNCHANGED ownVars
            BY <2>6 DEF MuxThread, MuxStop, StrayMux, recVars, setVars, ownVars
        <3>2. msgq' \in {msgq, Append(msgq, "ERROR")}
            BY <2>6, MuxMessages, MuxStrayMessages DEF MuxThread, MuxStop
        <3>3. OwnTypes'
            BY <1>1, <3>1, <3>2, PartTypes
        <3> QED BY <2>1, <3>3, TypesNext DEF RecInv
    <2> QED BY <1>3, <2>2, <2>3, <2>4, <2>5, <2>6 DEF Next, StrayStep
<1> QED BY <1>2, <1>3

\* The recorder is always in one of its states, its message queue holds only
\* messages of the code, and the application is only told events: TypeOK.
THEOREM RecorderTypeCorrect == Spec => []TypeOK
<1>1. RecInv => TypeOK
    BY DEF RecInv
<1> QED BY <1>1, RecInit, RecStep, PTL DEF Spec

\* No buffer leaks, is freed twice or has two owners, whatever the application
\* calls and when, and however many encoder threads it has started: FramesOwned.
THEOREM BuffersOwned == Spec => []FramesOwned
<1>1. RecInv => FramesOwned
    BY OwnedFrames DEF RecInv
<1> QED BY <1>1, RecInit, RecStep, PTL DEF Spec
-----------------------------------------------------------------------------
(* The length of the frame queue. *)

LEMMA PassedFinite ==
    /\ IsFiniteSet(Putters) /\ Cardinality(Putters) \in Nat
    /\ IsFiniteSet(Passed) /\ Cardinality(Passed) \in Nat
    /\ Cardinality(Passed) <= Cardinality(Putters)
<1>1. Passed \in SUBSET Putters /\ IsFiniteSet(Putters)
    BY DEF Passed
<1> QED BY <1>1, FS_Subset, FS_CardinalityType

\* Nobody passes the test and no frame is added.
LEMMA NobodyPasses ==
    ASSUME QueueBounded, EncInv, EncInv', Passed' \subseteq Passed,
           Len(rgbaq') <= Len(rgbaq)
    PROVE  QueueBounded'
<1>1. IsFiniteSet(Passed) /\ Cardinality(Passed) \in Nat /\ Cardinality(Putters) \in Nat
    BY PassedFinite
<1>2. Cardinality(Passed') <= Cardinality(Passed) /\ Cardinality(Passed') \in Nat
    BY <1>1, FS_Subset, FS_CardinalityType
<1>3. Len(rgbaq) \in Nat /\ Len(rgbaq') \in Nat
    BY DEF EncInv, EncTypes
<1> QED BY <1>1, <1>2, <1>3 DEF QueueBounded

\* Only put's test lets a putter pass, and then the queue is short.
LEMMA QueueStep ==
    ASSUME GLPutters = {}, RecInv, QueueBounded, RecInv', Next
    PROVE  QueueBounded'
<1>0. /\ EncInv /\ EncInv' /\ PutCalls
      /\ putPc \in [Putters -> Enc!PutPcs] /\ call \in [Putters -> CallPcs]
    BY DEF RecInv, TypeOK, EncInv, EncTypes
<1>1. Len(rgbaq) \in Nat /\ Len(rgbaq') \in Nat
    BY <1>0 DEF EncInv, EncTypes
<1>2. ASSUME UNCHANGED <<putPc, call>>, Len(rgbaq') <= Len(rgbaq)
      PROVE  QueueBounded'
    BY <1>0, <1>2, NobodyPasses DEF Passed
<1>3. CASE PrepareFirst \/ PrepareAgain \/ PrepareRefused \/ CallStart
             \/ CallStop \/ PostRequest
    BY <1>1, <1>2, <1>3, CallSteps DEF encShared
<1>4. CASE LoopStep
    <2>1. rgbaq' = rgbaq /\ UNCHANGED <<putPc, call>>
        BY <1>0, <1>4, StartSteps, MessageSteps DEF LoopStep, encShared
    <2> QED BY <1>1, <1>2, <2>1
<1>5. CASE EncoderThread \/ EncoderStop \/ \E s \in 1..MaxStarts : StrayEncoder(s)
    BY <1>0, <1>2, <1>5, ThreadSteps
<1>6. CASE MuxThread \/ MuxStop \/ \E s \in 1..MaxFrames : StrayMux(s)
    BY <1>1, <1>2, <1>6, MuxSteps DEF encShared
<1>7. ASSUME NEW p \in Putters, PutCall(p) \/ PutStep(p)
      PROVE  QueueBounded'
    <2>1. CASE PutSize(p)
        <3>1. CASE Len(rgbaq) <= MaxQueue
            <4>1. /\ Passed' \in SUBSET Putters
                  /\ IsFiniteSet(Putters) /\ Cardinality(Putters) \in Nat
                BY PassedFinite DEF Passed
            <4>2. /\ Cardinality(Passed') <= Cardinality(Putters)
                  /\ Cardinality(Passed') \in Nat
                BY <4>1, FS_Subset, FS_CardinalityType
            <4>3. Len(rgbaq') <= MaxQueue
                BY <2>1, <3>1 DEF PutSize, encVars
            <4> QED BY <1>1, <4>1, <4>2, <4>3 DEF QueueBounded
        <3>2. CASE ~(Len(rgbaq) <= MaxQueue)
            <4>1. Passed' \subseteq Passed
                BY <1>0, <1>1, <2>1, <3>2 DEF PutSize, encVars, Passed
            <4> QED BY <1>0, <1>1, <2>1, <4>1, NobodyPasses DEF PutSize, encVars
        <3> QED BY <3>1, <3>2
    <2>2. CASE Enqueue(p) /\ Enc!QueuePut(p)
        <3>1. p \in Passed /\ Passed' = Passed \ {p}
            BY <1>0, <2>2 DEF Enqueue, Enc!QueuePut, Passed, PutCalls, appVars
        <3>2. Cardinality(Passed \ {p}) = Cardinality(Passed) - 1
            BY <3>1, PassedFinite, FS_RemoveElement
        <3>3. Len(rgbaq') = Len(rgbaq) + 1
            BY <1>0, <2>2 DEF Enc!QueuePut, EncInv, EncTypes
        <3>4. Cardinality(Passed') = Cardinality(Passed) - 1
            BY <3>1, <3>2
        <3> QED BY <1>1, <3>3, <3>4, PassedFinite DEF QueueBounded
    <2>3. CASE Enqueue(p) /\ ~Enc!QueuePut(p)
        <3>1. Passed' \subseteq Passed
            BY <1>0, <2>3 DEF Enqueue, Unconfigured, Enc!Reject, Enc!EnqueueChecked,
                  Enc!EnqueueRefused, Enc!QueuePutFails, Passed, appVars
        <3>2. rgbaq' = rgbaq
            BY <2>3 DEF Enqueue, Unconfigured, Enc!Reject, Enc!EnqueueChecked,
                  Enc!EnqueueRefused, Enc!QueuePutFails, Enc!queueVars
        <3> QED BY <1>0, <1>1, <3>1, <3>2, NobodyPasses
    <2>4. CASE PutCall(p)
        <3>1. Passed' \subseteq Passed /\ rgbaq' = rgbaq
            BY <1>0, <2>4 DEF PutCall, encVars, Passed
        <3> QED BY <1>0, <1>1, <3>1, NobodyPasses
    <2>5. CASE PutCopy(p)
        <3>1. Passed' \subseteq Passed /\ rgbaq' = rgbaq
            BY <1>0, <2>5 DEF PutCopy, Enc!PutBegin, Passed
        <3> QED BY <1>0, <1>1, <3>1, NobodyPasses
    <2>6. CASE PutNoMemory(p) \/ Enqueued(p) \/ NotEnqueued(p) \/ PutRefused(p)
                 \/ ClaimMux(p) \/ CreateMux(p) \/ CreateMuxAgain(p)
        <3>1. Passed' \subseteq Passed /\ rgbaq' = rgbaq
            BY <1>0, <2>6 DEF PutNoMemory, Enqueued, NotEnqueued, PutRefused, ClaimMux,
                  CreateMux, CreateMuxAgain, Enc!PutReturn, Enc!queueVars, encVars, Passed
        <3> QED BY <1>0, <1>1, <3>1, NobodyPasses
    <2> QED BY <1>7, <2>1, <2>2, <2>3, <2>4, <2>5, <2>6 DEF PutStep
<1> QED BY <1>3, <1>4, <1>5, <1>6, <1>7 DEF Next, StrayStep

\* When every frame comes by put, the queue and the putters on their way to it are
\* never more than the limit and one frame for each putter: QueueBounded.
THEOREM QueueIsBounded ==
    ASSUME GLPutters = {}
    PROVE  Spec => []QueueBounded
<1>1. Init => QueueBounded
    <2> SUFFICES ASSUME Init PROVE QueueBounded
        OBVIOUS
    <2>1. Len(rgbaq) = 0 /\ Cardinality(Passed) <= Cardinality(Putters)
        BY RangeEmpty, PassedFinite DEF Init, Enc!Init
    <2> QED BY <2>1, PassedFinite DEF QueueBounded
<1>2. RecInv /\ QueueBounded /\ RecInv' /\ [Next]_vars => QueueBounded'
    <2> SUFFICES ASSUME RecInv, QueueBounded, RecInv', [Next]_vars PROVE QueueBounded'
        OBVIOUS
    <2>1. CASE UNCHANGED vars
        BY <2>1 DEF vars, encVars, recVars, appVars, QueueBounded, Passed
    <2> QED BY <2>1, QueueStep
<1> QED BY <1>1, <1>2, RecInit, RecStep, PTL DEF Spec
=============================================================================
