--------------------------- MODULE MediaRecorder ---------------------------
(***************************************************************************)
(* The recorder: its state machine, its message queue with the thread that *)
(* runs xmmr_get_msg, the calls of the application, and the video encoder  *)
(* and the muxer with their threads.  VideoEncoder and MediaMuxer are      *)
(* instantiated over the same variables: they meet in videoq, where the    *)
(* encoder appends and the mux thread takes, and in msgq.                  *)
(*                                                                         *)
(* mr->mutex is held across steps only by the message thread while it is   *)
(* in xm_media_recorder_stop_l or start_l; every other critical section is *)
(* one step whose guard is MutexFree.  MR_MSG_STATE_CHANGED, which nobody  *)
(* acts on, is left out of the queue.                                      *)
(*                                                                         *)
(* A thread that is created while one of its kind lives takes its handle:  *)
(* encPc, hand, muxPc and packet are of the latest thread, which a stop    *)
(* joins, and an older one is a stray, which takes the same steps on the   *)
(* same fields.  What is left in a codec or a file that two threads use at *)
(* once is undefined in the code; here it is what one of them may leave.   *)
(***************************************************************************)
EXTENDS Integers, Sequences, Functions, FiniteSets

CONSTANTS
    Putters, MaxFrames, MaxStarts, Faults, MuxFaults,  \* as in the parts
    GLPutters,  \* the putters that call glMapBufferRange_put
    MaxQueue,   \* XMMR_MAX_QUEUE_SIZES
    MaxCalls,   \* bound on the prepareAsync, start and stop calls
    Client      \* what the application keeps to, see ClientKind

\* "awaits":   it waits for the event that answers its last call;
\* "serial":   its calls, puts included, do not overlap;
\* "puts_late": it puts frames only once it was told STARTED;
\* "settles":  it leaves the threads that start and put create the time to
\*             come up, and the old mux thread the time to close its file;
\* "in_order": it calls prepareAsync only where it is accepted.
ClientKind == {"awaits", "serial", "puts_late", "settles", "in_order"}

ASSUME RecorderAssumption ==
    /\ IsFiniteSet(Putters) /\ GLPutters \subseteq Putters
    /\ MaxFrames \in Nat
    /\ MaxQueue \in Nat
    /\ MaxStarts \in Nat
    /\ MaxCalls \in Nat /\ MaxCalls <= MaxStarts
    /\ Client \subseteq ClientKind

VARIABLES
    \* of VideoEncoder
    abort, rgbaq, rgbaAbort, vRunning, encPc, hand, codec, frameNum, stopPc,
    putPc, putFrame, live, nextFrame, starts, owed,
    \* of MediaMuxer
    abortMuxer, videoqAbort, mRunning, muxPc, packet, written, file, mstopPc,
    muxStarts,
    \* of both
    videoq, msgq,
    \* of XMMediaRecorder
    state,      \* mr_state
    msgThread,  \* the message thread exists, and the queue is not aborted
    configured, \* prepareAsync has given the encoder its configuration
    startMux,   \* start_mux
    loopPc,     \* where the message thread is
    message,    \* the message it took
    strays,     \* the encoder threads that lost their handle: pc and hand
    muxStrays,  \* and the mux threads: pc and packet
    ctlPc,      \* where the application is in start or stop
    call,       \* where each putter is in put, around VEncoder_enqueue
    \* of the application, and history
    told,       \* the last event posted since the last call
    calls,      \* the calls made so far
    accepted,   \* the frames accepted since the last prepareAsync, in order
    prepared    \* PREPARED was reached, and no encoder was started since

encVars == <<abort, rgbaq, rgbaAbort, vRunning, encPc, hand, codec, frameNum,
             stopPc, putPc, putFrame, live, nextFrame, starts, owed>>
muxVars == <<abortMuxer, videoqAbort, mRunning, muxPc, packet, written, file,
             mstopPc, muxStarts>>
strayVars == <<strays, muxStrays>>
setVars == <<msgThread, configured, strayVars>>
loopVars == <<loopPc, message>>
appVars == <<ctlPc, call, calls>>
histVars == <<accepted, prepared>>
recVars == <<state, setVars, startMux, loopVars, appVars, told, histVars>>
vars == <<encVars, muxVars, videoq, msgq, recVars>>

Enc == INSTANCE VideoEncoder
Mux == INSTANCE MediaMuxer
         WITH MaxPackets <- MaxFrames, MaxMuxStarts <- MaxFrames,
              nextPacket <- 1, owedPackets <- {}
Stray(s) == INSTANCE VideoEncoder WITH encPc <- strays[s].pc, hand <- strays[s].hand
MuxStray(s) == INSTANCE MediaMuxer
                 WITH muxPc <- muxStrays[s].pc, packet <- muxStrays[s].packet,
                      MaxPackets <- MaxFrames, MaxMuxStarts <- MaxFrames,
                      nextPacket <- 1, owedPackets <- {}

States == {"INITIALIZED", "ASYNC_PREPARING", "PREPARED", "REQ_START",
           "STARTED", "REQ_STOP", "STOPPED", "ERROR"}
Events == {"FLUSH", "PREPARED", "STARTED", "STOPPED", "ERROR"}
Requests == {"REQ_START", "REQ_STOP"}
CallPcs == {"idle", "size", "copy", "enqueue", "refused", "claim", "create"}

Init ==
    /\ Enc!Init
    /\ Mux!Init
    /\ state = "INITIALIZED"
    /\ msgThread = FALSE
    /\ configured = FALSE
    /\ startMux = FALSE
    /\ loopPc = "wait"
    /\ message = "FLUSH"
    /\ strays = [s \in 1..MaxStarts |-> [pc |-> "none", hand |-> 0]]
    /\ muxStrays = [s \in 1..MaxFrames |-> [pc |-> "none", packet |-> 0]]
    /\ ctlPc = "idle"
    /\ call = [p \in Putters |-> "idle"]
    /\ told = "FLUSH"
    /\ calls = 0
    /\ accepted = <<>>
    /\ prepared = FALSE

\* The message thread holds mr->mutex while it starts and while it stops.
MutexFree == loopPc \in {"wait", "handle"}

\* A message queue that is aborted drops what is put.
Post(m) == msgq' = IF msgThread THEN Append(msgq, m) ELSE msgq

\* Mutant: start is accepted when prepared, and only then, as the log says.
MayStartPrepared == state = "PREPARED"

\* Which states each xmmr_chkst_*_l accepts.
MayRestart == state \in {"STOPPED", "REQ_START", "REQ_STOP"}
MayStart == state \in {"PREPARED", "REQ_START", "REQ_STOP"}
MayStop == state \notin {"INITIALIZED", "STOPPED"}
MayPut == state \notin {"REQ_STOP", "STOPPED", "ERROR"}
-----------------------------------------------------------------------------
(* The application's control calls. *)

\* What the application keeps to, beside what the code enforces.
PutsDone == \A p \in Putters : call[p] = "idle"
Settled ==
    /\ encPc \notin Enc!ReadyPcs
    /\ muxPc \in Mux!WritePcs \cup {"none"}
    /\ startMux => rgbaq = <<>> /\ accepted = <<>>
Ready ==
    /\ encPc \in Enc!LoopPcs
    /\ startMux => muxPc # "close"
MayCall(events) ==
    /\ ctlPc = "idle"
    /\ calls < MaxCalls
    /\ "awaits" \in Client => told \in events
    /\ "serial" \in Client => PutsDone

\* IEncoder_init, with which prepareAsync begins.  (Time stamps: FrameClock.)
InitEncoder ==
    /\ frameNum' = 0
    /\ UNCHANGED <<abort, rgbaq, rgbaAbort, vRunning, encPc, hand, codec, stopPc,
                   putPc, putFrame, live, nextFrame, starts, owed>>

\* prepareAsync the first time: the queue starts, which puts FLUSH, and the
\* message thread is created.
PrepareFirst ==
    /\ MayCall({"FLUSH"})
    /\ MutexFree
    /\ state = "INITIALIZED"
    /\ state' = "ASYNC_PREPARING"
    /\ msgThread' = TRUE
    /\ configured' = TRUE
    /\ msgq' = Append(msgq, "FLUSH")
    /\ InitEncoder
    /\ calls' = calls + 1
    /\ told' = "FLUSH"
    /\ UNCHANGED <<muxVars, videoq, strayVars, startMux, loopVars, ctlPc, call,
                   histVars>>

\* prepareAsync again.  After a start before the first prepareAsync it opens
\* the queue too, but nobody reads it.
PrepareAgain ==
    /\ MayCall({"STOPPED"})
    /\ MutexFree
    /\ MayRestart
    /\ state' = "ASYNC_PREPARING"
    /\ InitEncoder
    /\ Post("FLUSH")
    /\ calls' = calls + 1
    /\ told' = "FLUSH"
    /\ accepted' = <<>>
    /\ configured' = TRUE
    /\ UNCHANGED <<muxVars, videoq, msgThread, strayVars, startMux, loopVars, ctlPc,
                   call, prepared>>

\* prepareAsync where the state refuses it: the encoder is reset all the same,
\* and the application, which Java gives no result, is told nothing.
PrepareRefused ==
    /\ MayCall(Events \ {"FLUSH"})
    /\ "in_order" \notin Client
    /\ MutexFree
    /\ state # "INITIALIZED" /\ ~MayRestart
    /\ InitEncoder
    /\ calls' = calls + 1
    /\ UNCHANGED <<muxVars, videoq, msgq, state, setVars, startMux, loopVars,
                   ctlPc, call, told, histVars>>

\* start and stop set the state, whatever it is, and then post a request.
CallStart ==
    /\ MayCall({"PREPARED"})
    /\ MutexFree
    /\ state' = "REQ_START"
    /\ ctlPc' = "REQ_START"
    /\ calls' = calls + 1
    /\ told' = "FLUSH"
    /\ UNCHANGED <<encVars, muxVars, videoq, msgq, setVars, startMux,
                   loopVars, call, histVars>>

CallStop ==
    /\ MayCall({"STARTED", "ERROR"})
    /\ "settles" \in Client => Settled
    /\ MutexFree
    /\ state' = "REQ_STOP"
    /\ ctlPc' = "REQ_STOP"
    /\ calls' = calls + 1
    /\ told' = "FLUSH"
    /\ UNCHANGED <<encVars, muxVars, videoq, msgq, setVars, startMux,
                   loopVars, call, histVars>>

PostRequest ==
    /\ ctlPc \in Requests
    /\ Post(ctlPc)
    /\ ctlPc' = "idle"
    /\ UNCHANGED <<encVars, muxVars, videoq, state, setVars, startMux,
                   loopVars, call, calls, told, histVars>>
-----------------------------------------------------------------------------
(* The message thread: xmmr_get_msg, and the event message_loop_n posts. *)

TakeMessage ==
    /\ msgThread
    /\ loopPc = "wait"
    /\ msgq # <<>>
    /\ message' = Head(msgq)
    /\ msgq' = Tail(msgq)
    /\ loopPc' = "handle"
    /\ UNCHANGED <<encVars, muxVars, videoq, state, setVars, startMux,
                   appVars, told, histVars>>

\* Mutant: the application is told PREPARED when FLUSH is taken.
HandleFlushEarly ==
    /\ loopPc = "handle"
    /\ message = "FLUSH"
    /\ Post(IF state = "ASYNC_PREPARING" THEN "PREPARED" ELSE "ERROR")
    /\ told' = "PREPARED"
    /\ loopPc' = "wait"
    /\ UNCHANGED <<encVars, muxVars, videoq, state, setVars, startMux,
                   message, appVars, histVars>>

\* FLUSH, the first message after msg_queue_start, becomes PREPARED.
HandleFlush ==
    /\ loopPc = "handle"
    /\ message = "FLUSH"
    /\ Post(IF state = "ASYNC_PREPARING" THEN "PREPARED" ELSE "ERROR")
    /\ loopPc' = "wait"
    /\ UNCHANGED <<encVars, muxVars, videoq, state, setVars, startMux,
                   message, appVars, told, histVars>>

\* PREPARED is posted to the application even when it is refused.
HandlePrepared ==
    /\ loopPc = "handle"
    /\ message = "PREPARED"
    /\ \/ /\ state = "ASYNC_PREPARING"
          /\ state' = "PREPARED"
          /\ prepared' = TRUE
          /\ UNCHANGED msgq
       \/ /\ state # "ASYNC_PREPARING"
          /\ Post("ERROR")
          /\ UNCHANGED <<state, prepared>>
    /\ told' = "PREPARED"
    /\ loopPc' = "wait"
    /\ UNCHANGED <<encVars, muxVars, videoq, setVars, startMux, message,
                   appVars, accepted>>

\* Mutant: FLUSH falls through to the messages that set the state.
HandleEventFallsThrough ==
    /\ loopPc = "handle"
    /\ message \in {"FLUSH", "STARTED", "STOPPED", "ERROR"}
    /\ state' = message
    /\ told' = message
    /\ loopPc' = "wait"
    /\ UNCHANGED <<encVars, muxVars, videoq, msgq, setVars, startMux,
                   message, appVars, histVars>>

\* STARTED, STOPPED and ERROR set the state, whatever it is.
HandleEvent ==
    /\ loopPc = "handle"
    /\ message \in {"STARTED", "STOPPED", "ERROR"}
    /\ state' = message
    /\ told' = message
    /\ loopPc' = "wait"
    /\ UNCHANGED <<encVars, muxVars, videoq, msgq, setVars, startMux,
                   message, appVars, histVars>>

\* MR_REQ_START: the encoder's thread is created, then start_mux is set.
HandleStart ==
    /\ loopPc = "handle"
    /\ message = "REQ_START"
    /\ MayStart
    /\ Enc!Start
    /\ loopPc' = "arm"
    /\ prepared' = FALSE
    /\ UNCHANGED <<muxVars, state, setVars, startMux, message, appVars, told,
                   accepted>>

\* It is created even when one is alive, which is then a stray.
HandleStartAgain ==
    /\ loopPc = "handle"
    /\ message = "REQ_START"
    /\ MayStart
    /\ encPc # "none"
    /\ starts < MaxStarts
    /\ starts' = starts + 1
    /\ strays' = [strays EXCEPT ![starts] = [pc |-> encPc, hand |-> hand]]
    /\ encPc' = "created"
    /\ hand' = 0
    /\ loopPc' = "arm"
    /\ prepared' = FALSE
    /\ UNCHANGED <<abort, rgbaq, rgbaAbort, vRunning, codec, frameNum, stopPc, putPc,
                   putFrame, live, nextFrame, owed, muxVars, videoq, msgq, state,
                   msgThread, configured, muxStrays, startMux, message, appVars,
                   told, accepted>>

ArmMux ==
    /\ loopPc = "arm"
    /\ startMux' = TRUE
    /\ loopPc' = "wait"
    /\ UNCHANGED <<encVars, muxVars, videoq, msgq, state, setVars, message,
                   appVars, told, histVars>>

RefuseStart ==
    /\ loopPc = "handle"
    /\ message = "REQ_START"
    /\ ~MayStart
    /\ Post("ERROR")
    /\ loopPc' = "wait"
    /\ UNCHANGED <<encVars, muxVars, videoq, state, setVars, startMux,
                   message, appVars, told, histVars>>

\* Mutant: the encoder is not stopped before the muxer.
HandleStopMuxerOnly ==
    /\ loopPc = "handle"
    /\ message = "REQ_STOP"
    /\ MayStop
    /\ loopPc' = "stopEncoder"
    /\ UNCHANGED <<encVars, muxVars, videoq, msgq, state, setVars, startMux,
                   message, appVars, told, histVars>>

\* MR_REQ_STOP, xm_media_recorder_stop_l: the encoder is stopped, ...
HandleStop ==
    /\ loopPc = "handle"
    /\ message = "REQ_STOP"
    /\ MayStop
    /\ Enc!StopBegin
    /\ loopPc' = "stopEncoder"
    /\ UNCHANGED <<muxVars, state, setVars, startMux, message, appVars, told,
                   histVars>>

\* ... then the muxer, ...
StopMuxer ==
    /\ loopPc = "stopEncoder"
    /\ stopPc = "idle"
    /\ Mux!MStopBegin
    /\ loopPc' = "stopMuxer"
    /\ UNCHANGED <<encVars, state, setVars, startMux, message, appVars, told,
                   histVars>>

\* Mutant: STOPPED is posted while the muxer still runs.
StopDoneEarly ==
    /\ loopPc = "stopEncoder"
    /\ stopPc = "idle"
    /\ Post("STOPPED")
    /\ loopPc' = "wait"
    /\ UNCHANGED <<encVars, muxVars, videoq, state, setVars, startMux,
                   message, appVars, told, histVars>>

\* ... and STOPPED is posted.  start_mux is left as it is.
StopDone ==
    /\ loopPc = "stopMuxer"
    /\ mstopPc = "idle"
    /\ Post("STOPPED")
    /\ loopPc' = "wait"
    /\ UNCHANGED <<encVars, muxVars, videoq, state, setVars, startMux,
                   message, appVars, told, histVars>>

\* There is nothing to stop.
RefuseStop ==
    /\ loopPc = "handle"
    /\ message = "REQ_STOP"
    /\ ~MayStop
    /\ Post("STOPPED")
    /\ loopPc' = "wait"
    /\ UNCHANGED <<encVars, muxVars, videoq, state, setVars, startMux,
                   message, appVars, told, histVars>>

LoopStep ==
    \/ TakeMessage \/ HandleFlush \/ HandlePrepared \/ HandleEvent
    \/ HandleStart \/ HandleStartAgain \/ ArmMux \/ RefuseStart
    \/ HandleStop \/ StopMuxer \/ StopDone \/ RefuseStop
-----------------------------------------------------------------------------
(* put and glMapBufferRange_put, and xmmr_encoder_enqueue. *)

\* The state is read without the mutex, and only here.
PutCall(p) ==
    /\ call[p] = "idle"
    /\ nextFrame <= MaxFrames
    /\ "serial" \in Client => ctlPc = "idle" /\ PutsDone
    /\ "puts_late" \in Client => told = "STARTED"
    /\ "settles" \in Client => Ready
    /\ MayPut
    /\ call' = [call EXCEPT ![p] = IF p \in GLPutters THEN "copy" ELSE "size"]
    /\ UNCHANGED <<encVars, muxVars, videoq, msgq, state, setVars, startMux,
                   loopVars, ctlPc, calls, told, histVars>>

\* Mutant: the size is not looked at.
PutSizeUnchecked(p) ==
    /\ call[p] = "size"
    /\ call' = [call EXCEPT ![p] = "copy"]
    /\ UNCHANGED <<encVars, muxVars, videoq, msgq, state, setVars, startMux,
                   loopVars, ctlPc, calls, told, histVars>>

\* put, but not glMapBufferRange_put, discards a frame when the queue is long.
PutSize(p) ==
    /\ call[p] = "size"
    /\ call' = [call EXCEPT ![p] = IF Len(rgbaq) > MaxQueue THEN "idle" ELSE "copy"]
    /\ UNCHANGED <<encVars, muxVars, videoq, msgq, state, setVars, startMux,
                   loopVars, ctlPc, calls, told, histVars>>

\* There is no memory for the copy, which is an error of the recorder, or for
\* glMapBufferRange_put's first copy, which nobody is told of.  It counts as a
\* frame for the bound.
PutNoMemory(p) ==
    /\ "malloc" \in Faults
    /\ call[p] = "copy"
    /\ nextFrame <= MaxFrames
    /\ nextFrame' = nextFrame + 1
    /\ \/ Post("ERROR")
       \/ p \in GLPutters /\ UNCHANGED msgq
    /\ call' = [call EXCEPT ![p] = "idle"]
    /\ UNCHANGED <<abort, rgbaq, rgbaAbort, vRunning, encPc, hand, codec, frameNum,
                   stopPc, putPc, putFrame, live, starts, owed, muxVars, videoq,
                   state, setVars, startMux, loopVars, ctlPc, calls, told, histVars>>

PutCopy(p) ==
    /\ call[p] = "copy"
    /\ Enc!PutBegin(p)
    /\ call' = [call EXCEPT ![p] = "enqueue"]
    /\ UNCHANGED <<muxVars, state, setVars, startMux, loopVars, ctlPc, calls,
                   told, histVars>>

\* Before the first prepareAsync the configured size is 0, which no frame has.
Unconfigured(p) ==
    /\ putPc[p] = "enqueue"
    /\ ~configured
    /\ Enc!Reject(p)

\* The steps of VEncoder_enqueue.
Enqueue(p) ==
    /\ \/ /\ \/ configured /\ Enc!EnqueueChecked(p)
             \/ Unconfigured(p) \/ Enc!EnqueueRefused(p) \/ Enc!QueuePutFails(p)
          /\ UNCHANGED accepted
       \/ Enc!QueuePut(p) /\ accepted' = Append(accepted, putFrame[p])
    /\ UNCHANGED <<muxVars, state, setVars, startMux, loopVars, appVars, told,
                   prepared>>

\* xmmr_encoder_enqueue reads start_mux without the mutex.
Enqueued(p) ==
    /\ putPc[p] = "accepted"
    /\ Enc!PutReturn(p)
    /\ call' = [call EXCEPT ![p] = IF startMux THEN "claim" ELSE "idle"]
    /\ UNCHANGED <<muxVars, state, setVars, startMux, loopVars, ctlPc, calls,
                   told, histVars>>

NotEnqueued(p) ==
    /\ putPc[p] = "rejected"
    /\ Enc!PutReturn(p)
    /\ call' = [call EXCEPT ![p] = "refused"]
    /\ UNCHANGED <<muxVars, state, setVars, startMux, loopVars, ctlPc, calls,
                   told, histVars>>

\* A refused frame is an error of the recorder, unless the state has changed.
PutRefused(p) ==
    /\ call[p] = "refused"
    /\ IF MayPut THEN Post("ERROR") ELSE UNCHANGED msgq
    /\ call' = [call EXCEPT ![p] = "idle"]
    /\ UNCHANGED <<encVars, muxVars, videoq, state, setVars, startMux,
                   loopVars, ctlPc, calls, told, histVars>>

\* Mutant: start_mux is not cleared.
ClaimMuxAgain(p) ==
    /\ call[p] = "claim"
    /\ MutexFree
    /\ call' = [call EXCEPT ![p] = "create"]
    /\ UNCHANGED <<encVars, muxVars, videoq, msgq, state, setVars, startMux,
                   loopVars, ctlPc, calls, told, histVars>>

\* The first accepted frame clears start_mux under the mutex, ...
ClaimMux(p) ==
    /\ call[p] = "claim"
    /\ MutexFree
    /\ startMux' = FALSE
    /\ call' = [call EXCEPT ![p] = "create"]
    /\ UNCHANGED <<encVars, muxVars, videoq, msgq, state, setVars, loopVars,
                   ctlPc, calls, told, histVars>>

\* ... and creates the mux thread after it released the mutex, ...
CreateMux(p) ==
    /\ call[p] = "create"
    /\ Mux!MuxStart
    /\ call' = [call EXCEPT ![p] = "idle"]
    /\ UNCHANGED <<encVars, state, setVars, startMux, loopVars, ctlPc, calls,
                   told, histVars>>

\* ... even when one is alive, which is then a stray.
CreateMuxAgain(p) ==
    /\ call[p] = "create"
    /\ muxPc # "none"
    /\ muxStarts < MaxFrames
    /\ muxStarts' = muxStarts + 1
    /\ muxStrays' = [muxStrays EXCEPT ![muxStarts] = [pc |-> muxPc, packet |-> packet]]
    /\ muxPc' = "created"
    /\ packet' = 0
    /\ call' = [call EXCEPT ![p] = "idle"]
    /\ UNCHANGED <<encVars, abortMuxer, videoqAbort, mRunning, written, file, mstopPc,
                   videoq, msgq, state, msgThread, configured, strays, startMux,
                   loopVars, ctlPc, calls, told, histVars>>

PutStep(p) ==
    \/ PutSize(p) \/ PutNoMemory(p) \/ PutCopy(p)
    \/ Enqueue(p) \/ Enqueued(p) \/ NotEnqueued(p)
    \/ PutRefused(p) \/ ClaimMux(p) \/ CreateMux(p) \/ CreateMuxAgain(p)
-----------------------------------------------------------------------------
(* The threads of the parts. *)

EncoderThread ==
    /\ Enc!EncoderStep
    /\ UNCHANGED <<muxVars, recVars>>

EncoderStop ==
    /\ Enc!StopStep
    /\ UNCHANGED <<muxVars, recVars>>

MuxThread ==
    /\ Mux!MuxStep
    /\ UNCHANGED <<encVars, recVars>>

MuxStop ==
    /\ Mux!MStopStep
    /\ UNCHANGED <<encVars, recVars>>

\* Where a step from pc leads, and what a stray may hold then.
Onward(pc) ==
    IF pc \in Enc!ReadyPcs THEN Enc!ReadyPcs \cup {"loop", "exit"}
    ELSE IF pc \in Enc!LoopPcs THEN Enc!LoopPcs \cup {"flush", "reset"}
    ELSE Enc!EndPcs \cup {"none"}
StrayHand(s) ==
    IF strays[s].pc = "get" /\ rgbaq # <<>> THEN {0, Head(rgbaq)} ELSE {0, strays[s].hand}

\* A thread that nobody will join goes on all the same.
StrayEncoder(s) ==
    /\ strays[s].pc # "none"
    /\ \E pc \in Onward(strays[s].pc), frame \in StrayHand(s) :
          strays' = [strays EXCEPT ![s] = [pc |-> pc, hand |-> frame]]
    /\ Stray(s)!EncoderStep
    /\ UNCHANGED <<encPc, hand, muxVars, state, msgThread, configured, muxStrays,
                   startMux, loopVars, appVars, told, histVars>>

StrayMux(s) ==
    /\ muxStrays[s].pc # "none"
    /\ \E pc \in Mux!MuxPcs, next \in {0, muxStrays[s].packet} \cup Range(videoq) :
          muxStrays' = [muxStrays EXCEPT ![s] = [pc |-> pc, packet |-> next]]
    /\ MuxStray(s)!MuxStep
    /\ UNCHANGED <<muxPc, packet, encVars, state, msgThread, configured, strays,
                   startMux, loopVars, appVars, told, histVars>>

StrayStep ==
    \/ \E s \in 1..MaxStarts : StrayEncoder(s)
    \/ \E s \in 1..MaxFrames : StrayMux(s)

Next ==
    \/ PrepareFirst \/ PrepareAgain \/ PrepareRefused
    \/ CallStart \/ CallStop \/ PostRequest
    \/ LoopStep
    \/ \E p \in Putters : PutCall(p) \/ PutStep(p)
    \/ EncoderThread \/ EncoderStop \/ MuxThread \/ MuxStop
    \/ StrayStep

Spec == Init /\ [][Next]_vars

\* Every thread goes on, and a call that is begun is finished; the
\* application need not call.
Fairness ==
    /\ WF_vars(PostRequest)
    /\ WF_vars(LoopStep)
    /\ \A p \in Putters : WF_vars(PutStep(p))
    /\ WF_vars(EncoderThread) /\ WF_vars(EncoderStop)
    /\ WF_vars(MuxThread) /\ WF_vars(MuxStop)
    /\ \A s \in 1..MaxStarts : WF_vars(StrayEncoder(s))
    /\ \A s \in 1..MaxFrames : WF_vars(StrayMux(s))

FairSpec == Spec /\ Fairness
-----------------------------------------------------------------------------
(* Properties. *)

\* The variables of the recorder have the types of the code's fields; those of
\* the parts have the types the parts give them.
TypeOK ==
    /\ state \in States
    /\ msgq \in Seq(Events \cup Requests)
    /\ msgThread \in BOOLEAN
    /\ configured \in BOOLEAN
    /\ startMux \in BOOLEAN
    /\ loopPc \in {"wait", "handle", "arm", "stopEncoder", "stopMuxer"}
    /\ message \in Events \cup Requests
    /\ strays \in [1..MaxStarts -> [pc : Enc!EncPcs, hand : 0..MaxFrames]]
    /\ muxStrays \in [1..MaxFrames -> [pc : Mux!MuxPcs, packet : 0..MaxFrames]]
    /\ ctlPc \in {"idle"} \cup Requests
    /\ call \in [Putters -> CallPcs]
    /\ told \in Events
    /\ calls \in 0..MaxCalls
    /\ accepted \in Seq(1..MaxFrames)
    /\ prepared \in BOOLEAN

\* Where the threads of each kind are.
EncodersAt == {encPc} \cup {strays[s].pc : s \in 1..MaxStarts}
MuxersAt == {muxPc} \cup {muxStrays[s].pc : s \in 1..MaxFrames}

\* When the application is told STOPPED nothing of the session is left: no
\* thread runs, no frame or packet is queued and no buffer is held.  (The mux
\* thread may still be closing the file, which it does after it clears mRunning:
\* xm_media_muxer.c:361-362.)
QuietWhenStopped ==
    told = "STOPPED" =>
        /\ EncodersAt = {"none"} /\ MuxersAt \subseteq {"close", "none"}
        /\ rgbaq = <<>> /\ videoq = <<>> /\ live = {}

\* One thread of a kind at a time: the recorder is never about to create an
\* encoder thread or a mux thread while one of the kind is alive (start_mux,
\* xm_media_recorder.c:274-282, and the states start accepts).
NoClash ==
    /\ ~(loopPc = "handle" /\ message = "REQ_START" /\ MayStart /\ encPc # "none")
    /\ \A p \in Putters : ~(call[p] = "create" /\ muxPc # "none")

\* The frames of a session that are in the file when STOPPED is told are all
\* those that were accepted, in the order of acceptance, apart from the first
\* ones, which muxer_start may have flushed.
FileIsSuffix ==
    told = "STOPPED" /\ ~startMux /\ accepted # <<>> =>
        /\ file = "complete"
        /\ \E n \in 0..Len(accepted) :
              written = SubSeq(accepted, n + 1, Len(accepted))

\* A session of a patient application on which nothing fails is not an error:
\* no message is refused and no frame is, although the states change under put
\* and STARTED is posted before the encoder is ready.
NoError == told # "ERROR"

\* The queue of frames is bounded, however the putters interleave with each other
\* and with the encoder threads: the test is `> MaxQueue' before the frame is put,
\* and every putter that has passed it may still add one, so that each putter adds
\* one at most to the limit (XMMR_MAX_QUEUE_SIZES, xm_media_recorder.c:481).
Passed == {p \in Putters : call[p] = "copy" \/ putPc[p] \in {"enqueue", "put"}}
QueueBounded == Len(rgbaq) + Cardinality(Passed) <= MaxQueue + Cardinality(Putters)

\* Whatever the application calls and when, every frame buffer has one owner: a
\* place in the queue, a putter, or one of the encoder threads, although a second
\* start makes a second one, which takes from the same queue and clears the same
\* abort (xm_media_recorder.c:534, xm_video_encoder.c:106).
Hands == {hand} \cup {strays[s].hand : s \in 1..MaxStarts}
FramesOwned ==
    /\ live = Range(rgbaq) \cup ((Hands \cup {putFrame[p] : p \in Putters}) \ {0})
    /\ IsInjective(rgbaq)
    /\ Hands \cap Range(rgbaq) = {}
    /\ \A s \in 1..MaxStarts : strays[s].hand # 0 =>
          /\ strays[s].hand # hand
          /\ \A t \in 1..MaxStarts \ {s} : strays[t].hand # strays[s].hand
    /\ \A p \in Putters : putFrame[p] # 0 =>
          /\ putFrame[p] \notin Range(rgbaq) \cup Hands
          /\ \A q \in Putters \ {p} : putFrame[q] # putFrame[p]

\* start is answered: the application that asked for it is told STARTED or
\* ERROR (xm_media_recorder.c:191-205, xm_iencoder.c:110).
StartAnswered == ctlPc = "REQ_START" ~> told \in {"STARTED", "ERROR"}

\* The encoder's part of a stop ends: frames are drained and its thread joined
\* while the message thread holds mr->mutex, which keeps the putters out.
EncoderStops == loopPc = "stopEncoder" ~> loopPc = "stopMuxer"

\* A muxer that fails is not silent: the application is told.
MuxErrorTold == muxPc = "fail" ~> told = "ERROR"

\* An application that waits for the events never has an encoder started on a
\* recorder that was not prepared for it: "MR_REQ_START: expecting mr_state ==
\* prepared" (xm_media_recorder.c:202), although start itself sets a state that
\* the check accepts.
StartNeedsPrepared == [][starts' # starts => prepared]_vars

\* What the README says and a run refutes.

\* "receives rgba data, outputs h264 mp4" (src/README.md): the file has every
\* frame of the session that was accepted.
FileComplete ==
    told = "STOPPED" /\ ~startMux /\ accepted # <<>> => written = accepted
=============================================================================
