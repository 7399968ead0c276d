---------------------------- MODULE VideoEncoder ----------------------------
(***************************************************************************)
(* The video encoder of the recorder: the encoder thread (startThread,     *)
(* IEncoder_handleRun, VEncoder_prepare, VEncoder_encode), the threads     *)
(* that put frames (VEncoder_enqueue) and the thread that stops it         *)
(* (IEncoder_stop).  They share the flag `abort', which nothing protects,  *)
(* and the frame queue, whose operations are atomic under its mutex (the   *)
(* module XMQueue shows that the linked list with its condition variable   *)
(* implements the atomic queue used here).                                 *)
(*                                                                         *)
(* One step is one access to shared state.  Pixels, dimensions and time    *)
(* stamps are abstracted: a frame is a positive integer in the order of    *)
(* allocation, a packet is the frame it was encoded from.                  *)
(***************************************************************************)
EXTENDS Integers, Sequences, Functions

CONSTANTS
    Putters,    \* the application threads that put frames
    MaxFrames,  \* bound on the frames ever allocated
    MaxStarts,  \* bound on the encoder threads ever created
    Faults      \* the failures that may happen, see FaultKind

FaultKind == {"open", "process", "packet", "flush", "size", "malloc"}

ASSUME EncoderAssumption ==
    /\ MaxFrames \in Nat
    /\ MaxStarts \in Nat
    /\ Faults \subseteq FaultKind

VARIABLES
    abort,      \* IEncoder_Opaque.abort
    rgbaq,      \* the frames of RgbaQueue, oldest first
    rgbaAbort,  \* RgbaQueue.mAbortRequest
    vRunning,   \* XMThread.mRunning of the encoder's thread
    encPc,      \* where the encoder thread is, "none" when there is none
    hand,       \* the frame the encoder thread got, 0 when none
    codec,      \* the frames that entered the codec and have not come out
    frameNum,   \* IEncoder_Opaque.frame_num
    videoq,     \* the packets of XMPacketQueue videoq, oldest first
    msgq,       \* the messages posted to the recorder's message queue
    stopPc,     \* where the thread in IEncoder_stop is, "idle" when none
    putPc,      \* where each putter is in VEncoder_enqueue
    putFrame,   \* the frame each putter holds, 0 when none
    live,       \* the frame buffers allocated and not yet freed
    nextFrame,  \* the next frame to allocate
    starts,     \* the encoder threads created so far
    owed        \* history: frames accepted for encoding and not a packet yet

encVars  == <<encPc, hand, codec, frameNum, vRunning>>
putVars  == <<putPc, putFrame, nextFrame>>
queueVars == <<rgbaq, rgbaAbort, live, owed>>
vars == <<abort, queueVars, encVars, videoq, msgq, stopPc, putVars, starts>>

Frame == 1..MaxFrames
None  == 0

\* The encoder thread while frames put now will still reach the codec.
ReadyPcs   == {"created", "notify", "prepare", "prepareQ", "open"}
LoopPcs    == {"loop", "size", "abortq", "get", "process"}
EndPcs     == {"flush", "reset", "resetQ", "clear", "rearm", "rearmQ", "exit"}
EncPcs     == {"none"} \cup ReadyPcs \cup LoopPcs \cup EndPcs
StopPcs    == {"idle", "abort", "size", "abortq", "wait", "join"}
PutPcs     == {"idle", "enqueue", "put", "accepted", "rejected"}
Messages   == {"STARTED", "ERROR"}

Init ==
    /\ abort = FALSE
    /\ rgbaq = <<>>
    /\ rgbaAbort = FALSE        \* the queue is calloc'ed, unlike XMPacketQueue
    /\ vRunning = FALSE
    /\ encPc = "none"
    /\ hand = None
    /\ codec = <<>>
    /\ frameNum = 0
    /\ videoq = <<>>
    /\ msgq = <<>>
    /\ stopPc = "idle"
    /\ putPc = [p \in Putters |-> "idle"]
    /\ putFrame = [p \in Putters |-> None]
    /\ live = {}
    /\ nextFrame = 1
    /\ starts = 0
    /\ owed = {}
-----------------------------------------------------------------------------
(* The encoder thread. *)

\* IEncoder_startAsync: the thread exists, but has not run yet.
Start ==
    /\ encPc = "none"
    /\ stopPc = "idle"
    /\ starts < MaxStarts
    /\ starts' = starts + 1
    /\ encPc' = "created"
    /\ UNCHANGED <<abort, queueVars, hand, codec, frameNum, vRunning, videoq,
                   msgq, stopPc, putVars>>

\* startThread: only now does XMThread_wait see a thread to join.
SetRunning ==
    /\ encPc = "created"
    /\ vRunning' = TRUE
    /\ encPc' = "notify"
    /\ UNCHANGED <<abort, queueVars, hand, codec, frameNum, videoq, msgq,
                   stopPc, putVars, starts>>

\* Mutant: the encoder does not announce itself.
NotifyStartedSilent ==
    /\ encPc = "notify"
    /\ encPc' = "prepare"
    /\ UNCHANGED <<abort, queueVars, hand, codec, frameNum, vRunning, videoq,
                   msgq, stopPc, putVars, starts>>

\* IEncoder_handleRun announces itself before it prepares.
NotifyStarted ==
    /\ encPc = "notify"
    /\ msgq' = Append(msgq, "STARTED")
    /\ encPc' = "prepare"
    /\ UNCHANGED <<abort, queueVars, hand, codec, frameNum, vRunning, videoq,
                   stopPc, putVars, starts>>

\* VEncoder_reset_l, called by VEncoder_prepare and at the end of
\* VEncoder_encode: VEncoder_start_l clears abort, whoever had set it, ...
ResetAbort ==
    /\ encPc \in {"prepare", "reset"}
    /\ abort' = FALSE
    /\ encPc' = IF encPc = "prepare" THEN "prepareQ" ELSE "resetQ"
    /\ UNCHANGED <<queueVars, hand, codec, frameNum, vRunning, videoq, msgq,
                   stopPc, putVars, starts>>

\* ... starts the queue, and the codec is freed.
ResetQueue ==
    /\ encPc \in {"prepareQ", "resetQ"}
    /\ rgbaAbort' = FALSE
    /\ codec' = <<>>
    /\ encPc' = IF encPc = "prepareQ" THEN "open" ELSE "clear"
    /\ UNCHANGED <<abort, rgbaq, live, owed, hand, frameNum, vRunning, videoq,
                   msgq, stopPc, putVars, starts>>

\* The rest of VEncoder_prepare opened the codec; VEncoder_encode begins.
OpenCodec ==
    /\ encPc = "open"
    /\ frameNum' = 0
    /\ encPc' = "loop"
    /\ UNCHANGED <<abort, queueVars, hand, codec, vRunning, videoq, msgq,
                   stopPc, putVars, starts>>

\* It could not: IEncoder_handleRun posts an error.  The queue is kept.
OpenFails ==
    /\ encPc = "open"
    /\ "open" \in Faults
    /\ msgq' = Append(msgq, "ERROR")
    /\ encPc' = "exit"
    /\ owed' = {}
    /\ UNCHANGED <<abort, rgbaq, rgbaAbort, live, hand, codec, frameNum,
                   vRunning, videoq, stopPc, putVars, starts>>

\* The head of the loop of VEncoder_encode reads abort without a lock.
LoopTop ==
    /\ encPc = "loop"
    /\ encPc' = IF abort THEN "size" ELSE "get"
    /\ UNCHANGED <<abort, queueVars, hand, codec, frameNum, vRunning, videoq,
                   msgq, stopPc, putVars, starts>>

\* Mutant: the size is compared with `< 0'.
LoopSizeNegative ==
    /\ encPc = "size"
    /\ encPc' = "get"
    /\ UNCHANGED <<abort, queueVars, hand, codec, frameNum, vRunning, videoq,
                   msgq, stopPc, putVars, starts>>

LoopSize ==
    /\ encPc = "size"
    /\ encPc' = IF rgbaq = <<>> THEN "abortq" ELSE "get"
    /\ UNCHANGED <<abort, queueVars, hand, codec, frameNum, vRunning, videoq,
                   msgq, stopPc, putVars, starts>>

LoopAbortQueue ==
    /\ encPc = "abortq"
    /\ rgbaAbort' = TRUE
    /\ encPc' = "get"
    /\ UNCHANGED <<abort, rgbaq, live, owed, hand, codec, frameNum, vRunning,
                   videoq, msgq, stopPc, putVars, starts>>

\* The blocking rgba_queue_get returns a frame, ...
GetFrame ==
    /\ encPc = "get"
    /\ ~rgbaAbort
    /\ rgbaq # <<>>
    /\ hand' = Head(rgbaq)
    /\ rgbaq' = Tail(rgbaq)
    /\ encPc' = "process"
    /\ UNCHANGED <<abort, rgbaAbort, live, owed, codec, frameNum, vRunning,
                   videoq, msgq, stopPc, putVars, starts>>

\* ... or fails because the queue is aborted, whatever the queue holds.
\* The codec is then drained, if the count says it holds anything.
GetAborted ==
    /\ encPc = "get"
    /\ rgbaAbort
    /\ encPc' = IF frameNum > 0 THEN "flush" ELSE "reset"
    /\ UNCHANGED <<abort, queueVars, hand, codec, frameNum, vRunning, videoq,
                   msgq, stopPc, putVars, starts>>

\* What is common to the three ways in which VEncoder_process succeeds: the
\* loop frees the frame it got and goes on.
Encoded ==
    /\ encPc = "process"
    /\ hand' = None
    /\ live' = live \ {hand}
    /\ encPc' = "loop"
    /\ UNCHANGED <<abort, rgbaq, rgbaAbort, vRunning, msgq, stopPc, putVars,
                   starts>>

\* Mutant: only frames that give a packet are counted.
EncodeNoPacketUncounted ==
    /\ Encoded
    /\ codec' = Append(codec, hand)
    /\ UNCHANGED <<frameNum, owed, videoq>>

\* The codec keeps the frame for later.
EncodeNoPacket ==
    /\ Encoded
    /\ codec' = Append(codec, hand)
    /\ frameNum' = frameNum + 1
    /\ UNCHANGED <<owed, videoq>>

\* The codec gives its oldest packet, and packet_queue_put stores it.
EncodePacket ==
    /\ Encoded
    /\ LET in == Append(codec, hand) IN
         /\ codec' = Tail(in)
         /\ videoq' = Append(videoq, Head(in))
         /\ owed' = owed \ {Head(in)}
    /\ frameNum' = frameNum + 1

\* The codec gives a packet that packet_queue_put refuses: frame_num goes up
\* for the frame and down for the packet.
EncodePacketRefused ==
    /\ "packet" \in Faults
    /\ Encoded
    /\ LET in == Append(codec, hand) IN
         /\ codec' = Tail(in)
         /\ owed' = owed \ {Head(in)}
    /\ UNCHANGED <<frameNum, videoq>>

\* Mutant: the loop ends without freeing the frame.
EncodeFailsLeaks ==
    /\ "process" \in Faults
    /\ encPc = "process"
    /\ hand' = None
    /\ owed' = {}
    /\ encPc' = "reset"
    /\ UNCHANGED <<abort, rgbaq, rgbaAbort, live, codec, frameNum, vRunning,
                   videoq, msgq, stopPc, putVars, starts>>

\* The codec fails: the loop frees the frame and ends, without an error
\* message and without draining the codec.
EncodeFails ==
    /\ "process" \in Faults
    /\ encPc = "process"
    /\ hand' = None
    /\ live' = live \ {hand}
    /\ owed' = {}
    /\ encPc' = "reset"
    /\ UNCHANGED <<abort, rgbaq, rgbaAbort, codec, frameNum, vRunning, videoq,
                   msgq, stopPc, putVars, starts>>

\* VEncoder_flush: one packet per round, until the codec is empty.
FlushPacket ==
    /\ encPc = "flush"
    /\ codec # <<>>
    /\ codec' = Tail(codec)
    /\ owed' = owed \ {Head(codec)}
    /\ \/ /\ videoq' = Append(videoq, Head(codec))
          /\ UNCHANGED frameNum
       \/ /\ "packet" \in Faults
          /\ frameNum' = frameNum - 1
          /\ UNCHANGED videoq
    /\ UNCHANGED <<abort, rgbaq, rgbaAbort, live, encPc, hand, vRunning, msgq,
                   stopPc, putVars, starts>>

FlushEnds ==
    /\ encPc = "flush"
    /\ codec = <<>>
    /\ encPc' = "reset"
    /\ UNCHANGED <<abort, queueVars, hand, codec, frameNum, vRunning, videoq,
                   msgq, stopPc, putVars, starts>>

\* VEncoder_flush fails, and VEncoder_encode ignores it.
FlushFails ==
    /\ "flush" \in Faults
    /\ encPc = "flush"
    /\ owed' = {}
    /\ encPc' = "reset"
    /\ UNCHANGED <<abort, rgbaq, rgbaAbort, live, hand, codec, frameNum,
                   vRunning, videoq, msgq, stopPc, putVars, starts>>

\* VEncoder_RgbaQueue_flush frees what is queued.
ClearQueue ==
    /\ encPc = "clear"
    /\ live' = live \ Range(rgbaq)
    /\ rgbaq' = <<>>
    /\ encPc' = "rearm"
    /\ UNCHANGED <<abort, rgbaAbort, owed, hand, codec, frameNum, vRunning,
                   videoq, msgq, stopPc, putVars, starts>>

\* VEncoder_abort_l makes enqueue refuse frames until the next start.
RearmAbort ==
    /\ encPc = "rearm"
    /\ abort' = TRUE
    /\ encPc' = "rearmQ"
    /\ UNCHANGED <<queueVars, hand, codec, frameNum, vRunning, videoq, msgq,
                   stopPc, putVars, starts>>

RearmQueue ==
    /\ encPc = "rearmQ"
    /\ rgbaAbort' = TRUE
    /\ encPc' = "exit"
    /\ UNCHANGED <<abort, rgbaq, live, owed, hand, codec, frameNum, vRunning,
                   videoq, msgq, stopPc, putVars, starts>>

\* startThread returns.
Exit ==
    /\ encPc = "exit"
    /\ vRunning' = FALSE
    /\ encPc' = "none"
    /\ UNCHANGED <<abort, queueVars, hand, codec, frameNum, videoq, msgq,
                   stopPc, putVars, starts>>

EncoderStep ==
    \/ SetRunning \/ NotifyStarted \/ ResetAbort \/ ResetQueue
    \/ OpenCodec \/ OpenFails
    \/ LoopTop \/ LoopSize \/ LoopAbortQueue \/ GetFrame \/ GetAborted
    \/ EncodeNoPacket \/ EncodePacket \/ EncodePacketRefused \/ EncodeFails
    \/ FlushPacket \/ FlushEnds \/ FlushFails
    \/ ClearQueue \/ RearmAbort \/ RearmQueue \/ Exit
-----------------------------------------------------------------------------
(* IEncoder_stop: VEncoder_stop, then XMThread_wait. *)

StopBegin ==
    /\ stopPc = "idle"
    /\ stopPc' = "abort"
    /\ UNCHANGED <<abort, queueVars, encVars, videoq, msgq, putVars, starts>>

\* Mutant: stop sets abort, and does not look at the queue.
StopAbortUnchecked ==
    /\ stopPc = "abort"
    /\ abort' = TRUE
    /\ stopPc' = "wait"
    /\ UNCHANGED <<queueVars, encVars, videoq, msgq, putVars, starts>>

\* abort comes before the size is read: the encoder thread or this one then
\* sees the queue empty after abort is set.
StopAbort ==
    /\ stopPc = "abort"
    /\ abort' = TRUE
    /\ stopPc' = "size"
    /\ UNCHANGED <<queueVars, encVars, videoq, msgq, putVars, starts>>

\* Mutant: the queue is aborted whatever it holds (the lines 131-132 that are
\* commented out).
StopSizeAnyway ==
    /\ stopPc = "size"
    /\ stopPc' = "abortq"
    /\ UNCHANGED <<abort, queueVars, encVars, videoq, msgq, putVars, starts>>

StopSize ==
    /\ stopPc = "size"
    /\ stopPc' = IF rgbaq = <<>> THEN "abortq" ELSE "wait"
    /\ UNCHANGED <<abort, queueVars, encVars, videoq, msgq, putVars, starts>>

StopAbortQueue ==
    /\ stopPc = "abortq"
    /\ rgbaAbort' = TRUE
    /\ stopPc' = "wait"
    /\ UNCHANGED <<abort, rgbaq, live, owed, encVars, videoq, msgq, putVars,
                   starts>>

\* Mutant: the thread is never joined.
StopWaitNever ==
    /\ stopPc = "wait"
    /\ stopPc' = "idle"
    /\ UNCHANGED <<abort, queueVars, encVars, videoq, msgq, putVars, starts>>

\* XMThread_wait joins only a thread that has set mRunning.
StopWait ==
    /\ stopPc = "wait"
    /\ stopPc' = IF vRunning THEN "join" ELSE "idle"
    /\ UNCHANGED <<abort, queueVars, encVars, videoq, msgq, putVars, starts>>

StopJoin ==
    /\ stopPc = "join"
    /\ encPc = "none"
    /\ vRunning' = FALSE
    /\ stopPc' = "idle"
    /\ UNCHANGED <<abort, queueVars, encPc, hand, codec, frameNum, videoq,
                   msgq, putVars, starts>>

StopStep == StopAbort \/ StopSize \/ StopAbortQueue \/ StopWait \/ StopJoin
-----------------------------------------------------------------------------
(* VEncoder_enqueue, on an application thread. *)

\* The caller has copied the picture into a buffer of its own.
PutBegin(p) ==
    /\ putPc[p] = "idle"
    /\ nextFrame <= MaxFrames
    /\ nextFrame' = nextFrame + 1
    /\ live' = live \cup {nextFrame}
    /\ putFrame' = [putFrame EXCEPT ![p] = nextFrame]
    /\ putPc' = [putPc EXCEPT ![p] = "enqueue"]
    /\ UNCHANGED <<abort, rgbaq, rgbaAbort, owed, encVars, videoq, msgq,
                   stopPc, starts>>

\* Mutant: a refused frame is not freed.
RejectLeaks(p) ==
    /\ putFrame' = [putFrame EXCEPT ![p] = None]
    /\ putPc' = [putPc EXCEPT ![p] = "rejected"]
    /\ UNCHANGED <<abort, rgbaq, rgbaAbort, live, owed, encVars, videoq, msgq,
                   stopPc, nextFrame, starts>>

\* The frame is freed and -1 returned.
Reject(p) ==
    /\ live' = live \ {putFrame[p]}
    /\ putFrame' = [putFrame EXCEPT ![p] = None]
    /\ putPc' = [putPc EXCEPT ![p] = "rejected"]
    /\ UNCHANGED <<abort, rgbaq, rgbaAbort, owed, encVars, videoq, msgq,
                   stopPc, nextFrame, starts>>

\* abort is read before the frame is put, and not again.
EnqueueChecked(p) ==
    /\ putPc[p] = "enqueue"
    /\ ~abort
    /\ putPc' = [putPc EXCEPT ![p] = "put"]
    /\ UNCHANGED <<abort, queueVars, encVars, videoq, msgq, stopPc, putFrame,
                   nextFrame, starts>>

\* The encoder refuses frames, or the size is not the configured one.
EnqueueRefused(p) ==
    /\ putPc[p] = "enqueue"
    /\ abort \/ "size" \in Faults
    /\ Reject(p)

\* rgba_queue_put has no memory for the list node, or finds no pixels.
QueuePutFails(p) ==
    /\ putPc[p] = "put"
    /\ "malloc" \in Faults
    /\ Reject(p)

\* A frame is owed to the file when the call succeeds while the encoder is up
\* and nobody has asked it to stop.
Owing == ~abort /\ stopPc = "idle" /\ encPc \in ReadyPcs \cup LoopPcs

\* Mutant: the frame is cleared before it is copied to the list node.
QueuePutCleared(p) ==
    /\ putPc[p] = "put"
    /\ rgbaq' = Append(rgbaq, None)
    /\ putFrame' = [putFrame EXCEPT ![p] = None]
    /\ putPc' = [putPc EXCEPT ![p] = "accepted"]
    /\ UNCHANGED <<abort, rgbaAbort, live, owed, encVars, videoq, msgq, stopPc,
                   nextFrame, starts>>

\* rgba_queue_put succeeds even on an aborted queue.
QueuePut(p) ==
    /\ putPc[p] = "put"
    /\ rgbaq' = Append(rgbaq, putFrame[p])
    /\ owed' = owed \cup (IF Owing THEN {putFrame[p]} ELSE {})
    /\ putFrame' = [putFrame EXCEPT ![p] = None]
    /\ putPc' = [putPc EXCEPT ![p] = "accepted"]
    /\ UNCHANGED <<abort, rgbaAbort, live, encVars, videoq, msgq, stopPc,
                   nextFrame, starts>>

PutReturn(p) ==
    /\ putPc[p] \in {"accepted", "rejected"}
    /\ putPc' = [putPc EXCEPT ![p] = "idle"]
    /\ UNCHANGED <<abort, queueVars, encVars, videoq, msgq, stopPc, putFrame,
                   nextFrame, starts>>

PutStep(p) ==
    \/ EnqueueChecked(p) \/ EnqueueRefused(p)
    \/ QueuePut(p) \/ QueuePutFails(p)
    \/ PutReturn(p)
-----------------------------------------------------------------------------
Next ==
    \/ Start
    \/ EncoderStep
    \/ StopBegin
    \/ StopStep
    \/ \E p \in Putters : PutBegin(p) \/ PutStep(p)

Spec == Init /\ [][Next]_vars

\* The threads that are inside a call go on; the application need not call.
Fairness ==
    /\ WF_vars(EncoderStep)
    /\ WF_vars(StopStep)
    /\ \A p \in Putters : WF_vars(PutStep(p))

FairSpec == Spec /\ Fairness
-----------------------------------------------------------------------------
(* Properties. *)

\* The variables have the types of the code's fields.
TypeOK ==
    /\ abort \in BOOLEAN
    /\ rgbaq \in Seq(Frame)
    /\ rgbaAbort \in BOOLEAN
    /\ vRunning \in BOOLEAN
    /\ encPc \in EncPcs
    /\ hand \in Frame \cup {None}
    /\ codec \in Seq(Frame)
    /\ frameNum \in Int
    /\ videoq \in Seq(Frame)
    /\ msgq \in Seq(Messages)
    /\ stopPc \in StopPcs
    /\ putPc \in [Putters -> PutPcs]
    /\ putFrame \in [Putters -> Frame \cup {None}]
    /\ live \subseteq Frame
    /\ nextFrame \in 1..MaxFrames + 1
    /\ starts \in 0..MaxStarts
    /\ owed \subseteq Frame

\* An abort is never lost between the encoder thread and VEncoder_stop: when
\* the thread is about to block on an empty queue that is not aborted, either
\* nobody has set abort, or the thread that set it has yet to look at the queue
\* and will abort it (xm_video_encoder.c:124-130 against 319-329).
NoLostAbort ==
    encPc = "get" /\ rgbaq = <<>> /\ ~rgbaAbort /\ abort
        => stopPc \in {"size", "abortq"}

\* Stopping drains: once the thread is past its loop and has flushed the codec,
\* every frame that was accepted while the encoder was up and not being
\* stopped is a packet, unless the codec or a packet was refused
\* (VEncoder_encode, which aborts the queue only when it is empty and flushes
\* the codec when frame_num says so).
DrainOnStop ==
    encPc \in (EndPcs \ {"flush"}) \cup {"none"} => owed = {}

\* Every live frame buffer has exactly one owner: one place in the queue, the
\* encoder thread, or one putter.  Nothing leaks and nothing is freed twice,
\* on any of the error paths (rgba_data_free at seven places).
FrameOwnership ==
    /\ live = Range(rgbaq) \cup (({hand} \cup {putFrame[p] : p \in Putters}) \ {None})
    /\ IsInjective(rgbaq)
    /\ hand \notin Range(rgbaq)
    /\ \A p \in Putters : putFrame[p] # None =>
          /\ putFrame[p] \notin Range(rgbaq) \cup {hand}
          /\ \A q \in Putters \ {p} : putFrame[p] # putFrame[q]

\* Why DrainOnStop holds, as an inductive invariant: where the owed frames are,
\* which thread may find the queue aborted, and that frame_num is never below
\* the number of frames the codec holds, so that the codec is not left unflushed
\* (xm_video_encoder.c:291, 301, 331).
WhereOwed ==
    /\ owed \subseteq Range(rgbaq) \cup Range(codec) \cup {hand}
    /\ encPc \in ReadyPcs => owed \subseteq Range(rgbaq)
    /\ encPc = "flush" => owed \subseteq Range(codec)

\* The queue is aborted only when no owed frame is in it.
QueueAbortedAfterDrain ==
    /\ rgbaAbort /\ encPc \in {"open"} \cup LoopPcs =>
          /\ abort \/ stopPc \in {"wait", "join"}
          /\ owed \cap Range(rgbaq) = {}
    /\ encPc \in {"size", "abortq"} => abort
    /\ encPc = "abortq" => owed \cap Range(rgbaq) = {}
    /\ stopPc = "abortq" => owed \cap Range(rgbaq) = {}

\* frame_num is never below the number of frames in the codec.
CodecCounted ==
    /\ encPc = "open" => codec = <<>>
    /\ encPc \in LoopPcs => Len(codec) <= frameNum

\* A frame that is owed is no longer with its putter.
OwedIsPut ==
    /\ \A p \in Putters : putFrame[p] \notin owed
    /\ live \cup owed \subseteq 1..nextFrame - 1

\* mRunning is set while the thread runs, and not before it has begun to.
RunningTracksThread ==
    vRunning <=> encPc \notin {"none", "created"}

\* Who holds a frame between two queue operations.
Holding ==
    /\ hand # None <=> encPc = "process"
    /\ \A p \in Putters :
          putFrame[p] # None <=> putPc[p] \in {"enqueue", "put"}

\* The inductive invariant.
DrainInv ==
    /\ DrainOnStop
    /\ FrameOwnership
    /\ OwedIsPut
    /\ WhereOwed
    /\ QueueAbortedAfterDrain
    /\ CodecCounted
    /\ RunningTracksThread
    /\ Holding

\* IEncoder_stop returns once it has decided to join (xm_iencoder.c:41-42).
StopReturns ==
    stopPc = "join" ~> stopPc = "idle"
=============================================================================
