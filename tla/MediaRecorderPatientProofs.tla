--------------------- MODULE MediaRecorderPatientProofs ---------------------
(***************************************************************************)
(* The theorems about the recorder under a patient application: one that   *)
(* keeps to the rules of ClientKind, except that it may call prepareAsync  *)
(* where that is refused.  Nothing fails, or only what nobody is told of:  *)
(* a packet that is refused, a codec that is not flushed.                  *)
(*                                                                         *)
(* The argument is that one thing is under way at a time.  The state says  *)
(* which: a request that is on its way to the message thread, the answer   *)
(* that comes back, or, while the application was told STARTED, one put.   *)
(*                                                                         *)
(* What the file holds follows when nothing fails at all: the frames of a  *)
(* session are numbered in the order of their puts, and the file, the      *)
(* queues and the codec hold adjoining runs of these numbers.              *)
(***************************************************************************)
EXTENDS MediaRecorderProofs

Patient ==
    /\ ClientKind \ {"in_order"} \subseteq Client
    /\ Faults \subseteq {"packet", "flush"}
    /\ MuxFaults = {}
-----------------------------------------------------------------------------
(* The invariant. *)

\* m is the one message there is, queued or in hand.
Carried(m) ==
    /\ ctlPc = "idle"
    /\ \/ loopPc = "wait" /\ msgq = <<m>>
       \/ loopPc = "handle" /\ message = m /\ msgq = <<>>

\* The application is in start or stop, or has left it.
Asked(m) ==
    \/ ctlPc = m /\ loopPc = "wait" /\ msgq = <<>>
    \/ Carried(m)

Resting == ctlPc = "idle" /\ loopPc = "wait" /\ msgq = <<>>

\* The stop has come to the muxer, or is over.
EncoderIsStopped == loopPc = "stopMuxer" \/ Carried("STOPPED")

\* What is under way in each state.
Flow ==
    /\ told = IF state \in {"PREPARED", "STARTED", "STOPPED"} THEN state ELSE "FLUSH"
    /\ state # "ERROR"
    /\ msgThread <=> state # "INITIALIZED"
    /\ msgThread => configured
    /\ state \in {"INITIALIZED", "PREPARED", "STARTED", "STOPPED"} => Resting
    /\ state = "ASYNC_PREPARING" => Carried("FLUSH") \/ Carried("PREPARED")
    /\ state = "REQ_START" =>
          \/ encPc = "none" /\ Asked("REQ_START")
          \/ /\ encPc \in {"created", "notify"}
             /\ ctlPc = "idle" /\ loopPc \in {"arm", "wait"} /\ msgq = <<>>
          \/ /\ encPc \notin {"none", "created", "notify"}
             /\ \/ ctlPc = "idle" /\ loopPc = "arm" /\ msgq = <<"STARTED">>
                \/ Carried("STARTED")
    /\ state = "REQ_STOP" =>
          \/ Asked("REQ_STOP")
          \/ ctlPc = "idle" /\ loopPc \in {"stopEncoder", "stopMuxer"} /\ msgq = <<>>
          \/ Carried("STOPPED")

\* The encoder is up from the request to the stop, and only then.
EncoderUp ==
    /\ state \in {"INITIALIZED", "ASYNC_PREPARING", "PREPARED", "STOPPED"}
          => encPc = "none"
    /\ state = "REQ_START" => encPc \in {"none"} \cup Enc!ReadyPcs \cup Enc!LoopPcs
    /\ state = "STARTED"
          => encPc \in (Enc!ReadyPcs \ {"created", "notify"}) \cup Enc!LoopPcs
    /\ state = "REQ_STOP" /\ Asked("REQ_STOP") => encPc \in Enc!LoopPcs
    /\ loopPc = "stopEncoder" => encPc \notin Enc!ReadyPcs
    /\ state = "REQ_STOP" /\ EncoderIsStopped => encPc = "none"

\* It is aborted by a stop alone, which ends when it has.
EncoderStopped ==
    /\ stopPc # "idle" => loopPc = "stopEncoder"
    /\ loopPc = "stopEncoder" /\ stopPc = "idle" => encPc = "none"
    /\ Enc!RunningTracksThread
    /\ loopPc # "stopEncoder" =>
          /\ encPc \in {"prepareQ", "open"} \cup Enc!LoopPcs => ~abort
          /\ encPc \in {"open"} \cup Enc!LoopPcs => ~rgbaAbort
          /\ encPc \notin {"size", "abortq"}

\* At most one put, and it is accepted.
OnePut ==
    \A p \in Putters : call[p] # "idle" =>
        /\ state = "STARTED" /\ encPc \in Enc!LoopPcs
        /\ \A q \in Putters \ {p} : call[q] = "idle"
        /\ call[p] # "refused" /\ putPc[p] # "rejected"
        /\ startMux => muxPc # "close"
        /\ call[p] = "claim" => startMux
        /\ call[p] = "create" => ~startMux

Creating == \E p \in Putters : call[p] = "create"

\* The first frame of a session is yet to come.
Unclaimed == startMux /\ \A p \in Putters : putPc[p] # "accepted" /\ call[p] # "claim"

\* The muxer is up from the first frame to the stop.
MuxerUp ==
    /\ state \in {"INITIALIZED", "ASYNC_PREPARING", "PREPARED", "REQ_START", "STOPPED"}
          => muxPc \in {"close", "none"}
    /\ state = "REQ_START" /\ encPc # "none" /\ loopPc # "arm" => startMux
    /\ state = "STARTED" =>
          muxPc \in IF startMux \/ Creating THEN {"close", "none"}
                    ELSE Mux!StartPcs \cup Mux!OpenPcs \cup Mux!WritePcs
    /\ Creating => muxPc = "none"
    /\ state = "REQ_STOP" /\ ~EncoderIsStopped =>
          muxPc \in IF startMux THEN {"none"} ELSE Mux!WritePcs
    /\ state = "REQ_STOP" /\ EncoderIsStopped =>
          /\ muxPc \notin Mux!StartPcs \cup Mux!OpenPcs
          /\ mstopPc = "idle" => muxPc \in {"close", "none"}
          /\ startMux => muxPc = "none"

\* It is aborted by a stop alone, which ends when it has.
MuxerStopped ==
    /\ mstopPc # "idle" => loopPc = "stopMuxer"
    /\ Mux!MuxRunningTracksThread
    /\ muxPc # "fail"
    /\ mstopPc = "idle" =>
          /\ muxPc \in {"clear"} \cup Mux!OpenPcs \cup Mux!WritePcs => ~videoqAbort
          /\ muxPc \in Mux!OpenPcs \cup Mux!WritePcs => ~abortMuxer
    /\ muxPc \in {"size", "abortq"} => abortMuxer

\* Nothing of a session is left over: not for the next one, and not by
\* a session without a frame, which has no mux thread to drop it.
NothingLeft ==
    /\ encPc \in {"rearm", "rearmQ", "exit", "none"} => rgbaq = <<>>
    /\ encPc \in {"clear", "rearm", "rearmQ", "exit", "none"} => codec = <<>>
    /\ accepted = <<>> => rgbaq = <<>> /\ hand = 0 /\ codec = <<>> /\ videoq = <<>>
    /\ Unclaimed => accepted = <<>>
    /\ state \in {"INITIALIZED", "ASYNC_PREPARING", "PREPARED", "REQ_START"}
          => accepted = <<>>
    /\ state = "REQ_STOP" /\ EncoderIsStopped
         /\ muxPc \in {"trailer", "exit", "close", "none"} => videoq = <<>>
    /\ state = "STOPPED" => videoq = <<>>

\* The recorder is prepared until its encoder is started.
StillPrepared ==
    state = "PREPARED" \/ (state = "REQ_START" /\ encPc = "none") => prepared

PatientInv ==
    /\ Flow
    /\ EncoderUp
    /\ EncoderStopped
    /\ OnePut
    /\ MuxerUp
    /\ MuxerStopped
    /\ NothingLeft
    /\ StillPrepared

LEMMA PatientInit == Init => PatientInv
<1> SUFFICES ASSUME Init PROVE PatientInv
    OBVIOUS
<1> USE DEF Init, Enc!Init, Mux!Init
<1>1. Flow /\ EncoderUp /\ EncoderStopped
    BY DEF Flow, EncoderUp, EncoderStopped, Resting, EncoderIsStopped, Carried,
           Enc!RunningTracksThread, Enc!LoopPcs
<1>2. OnePut /\ MuxerUp /\ MuxerStopped
    BY DEF OnePut, MuxerUp, MuxerStopped, Creating, EncoderIsStopped, Carried,
           Mux!MuxRunningTracksThread, Mux!OpenPcs, Mux!WritePcs
<1>3. NothingLeft /\ StillPrepared
    BY DEF NothingLeft, StillPrepared, Enc!None
<1> QED BY <1>1, <1>2, <1>3 DEF PatientInv
-----------------------------------------------------------------------------
(* There is one thread of a kind at a time, so no thread is ever a stray. *)

NoStrays ==
    /\ \A s \in 1..MaxStarts : strays[s].pc = "none"
    /\ \A s \in 1..MaxFrames : muxStrays[s].pc = "none"

LEMMA NoStraysInit == Init => NoStrays
    BY DEF Init, NoStrays

\* The encoder of the last session has been joined when a start is taken, and the
\* mux thread has ended when a put creates the next.
LEMMA NoSecondThread ==
    ASSUME RecInv, PatientInv
    PROVE  NoClash /\ ~HandleStartAgain /\ \A p \in Putters : ~CreateMuxAgain(p)
<1>1. /\ Flow /\ MuxerUp
      /\ state \in {"INITIALIZED", "ASYNC_PREPARING", "PREPARED", "REQ_START", "STARTED",
                    "REQ_STOP", "STOPPED", "ERROR"}
    BY DEF PatientInv, RecInv, TypeOK, States
<1>2. loopPc = "handle" /\ message = "REQ_START" => encPc = "none"
    BY <1>1 DEF Flow, Resting, Carried, Asked
<1>3. \A p \in Putters : call[p] = "create" => muxPc = "none"
    BY <1>1 DEF MuxerUp, Creating
<1> QED BY <1>2, <1>3 DEF NoClash, HandleStartAgain, CreateMuxAgain

LEMMA NoStrayStep ==
    ASSUME NoStrays
    PROVE  ~StrayStep
    BY DEF NoStrays, StrayStep, StrayEncoder, StrayMux

\* Nothing else touches the strays.
LEMMA StraysKept ==
    ASSUME Next, ~HandleStartAgain, \A p \in Putters : ~CreateMuxAgain(p), ~StrayStep
    PROVE  UNCHANGED strayVars
<1> USE DEF setVars, recVars
<1>1. CASE PrepareFirst \/ PrepareAgain \/ PrepareRefused \/ CallStart \/ CallStop \/ PostRequest
    BY <1>1 DEF PrepareFirst, PrepareAgain, PrepareRefused, CallStart, CallStop,
          PostRequest
<1>2. CASE LoopStep
    BY <1>2 DEF LoopStep, TakeMessage, HandleFlush, HandlePrepared, HandleEvent,
          HandleStart, ArmMux, RefuseStart, HandleStop, StopMuxer, StopDone, RefuseStop
<1>3. ASSUME NEW p \in Putters, PutCall(p) \/ PutStep(p)
      PROVE  UNCHANGED strayVars
    BY <1>3 DEF PutStep, PutCall, PutSize, PutNoMemory, PutCopy, Enqueue, Enqueued,
          NotEnqueued, PutRefused, ClaimMux, CreateMux
<1>4. CASE EncoderThread \/ EncoderStop \/ MuxThread \/ MuxStop
    BY <1>4 DEF EncoderThread, EncoderStop, MuxThread, MuxStop
<1> QED BY <1>1, <1>2, <1>3, <1>4 DEF Next

LEMMA NoStraysStep ==
    ASSUME RecInv, PatientInv, NoStrays, [Next]_vars
    PROVE  NoStrays'
<1>1. UNCHANGED strayVars
    <2>1. CASE UNCHANGED vars
        BY <2>1 DEF vars, recVars, setVars
    <2>2. CASE Next
        BY <2>2, NoSecondThread, NoStrayStep, StraysKept
    <2> QED BY <2>1, <2>2
<1> QED BY <1>1 DEF NoStrays, strayVars
-----------------------------------------------------------------------------
(* The application's calls. *)

\* Outside of put nobody is in VEncoder_enqueue.
LEMMA NoPut ==
    ASSUME RecInv, PatientInv, state # "STARTED"
    PROVE  \A p \in Putters : call[p] = "idle" /\ putPc[p] = "idle"
    BY DEF RecInv, PutCalls, PatientInv, OnePut

\* What the calls leave alone.
KeptByCalls ==
    UNCHANGED <<encPc, stopPc, vRunning, abort, rgbaAbort, call, putPc, startMux, muxPc,
                mstopPc, mRunning, videoqAbort, abortMuxer, rgbaq, hand, codec, videoq,
                loopPc, message>>

LEMMA CallFrame ==
    ASSUME PrepareFirst \/ PrepareAgain \/ CallStart \/ CallStop \/ PostRequest
    PROVE  KeptByCalls
    BY DEF PrepareFirst, PrepareAgain, CallStart, CallStop, PostRequest, InitEncoder,
           encVars, muxVars, setVars, loopVars, histVars, KeptByCalls

LEMMA CallPatient ==
    ASSUME Patient, RecInv, PatientInv,
           PrepareFirst \/ PrepareAgain \/ CallStart \/ CallStop \/ PostRequest
    PROVE  PatientInv'
<1>0. KeptByCalls
    BY CallFrame
<1> USE <1>0 DEF KeptByCalls
<1>1. /\ Flow /\ EncoderUp /\ EncoderStopped /\ OnePut /\ MuxerUp /\ MuxerStopped
      /\ NothingLeft /\ StillPrepared
    BY DEF PatientInv
<1>2. EncoderStopped' /\ MuxerStopped'
    BY <1>1 DEF EncoderStopped, MuxerStopped, Enc!RunningTracksThread,
                Mux!MuxRunningTracksThread
<1>3. CASE PrepareFirst
    <2>1. /\ state = "INITIALIZED" /\ state' = "ASYNC_PREPARING" /\ Resting
          /\ told' = "FLUSH" /\ msgThread' /\ configured' /\ msgq' = <<"FLUSH">>
          /\ UNCHANGED <<ctlPc, accepted, prepared>>
        BY <1>1, <1>3 DEF PrepareFirst, Flow, Resting, histVars
    <2>2. \A p \in Putters : call[p] = "idle"
        BY <2>1, NoPut
    <2>3. Flow'
        BY <1>1, <2>1 DEF Flow, Resting, Carried, Asked
    <2>4. EncoderUp'
        BY <1>1, <2>1 DEF EncoderUp, EncoderIsStopped, Resting, Carried, Asked
    <2>5. OnePut' /\ MuxerUp'
        BY <1>1, <2>1, <2>2 DEF OnePut, MuxerUp, Creating, EncoderIsStopped, Resting,
              Carried, Asked
    <2>6. NothingLeft' /\ StillPrepared'
        BY <1>1, <2>1, <2>2 DEF NothingLeft, StillPrepared, Unclaimed, EncoderIsStopped,
              Resting, Carried, Asked
    <2> QED BY <1>2, <2>3, <2>4, <2>5, <2>6 DEF PatientInv
<1>4. CASE PrepareAgain
    <2>0. /\ told = "STOPPED" /\ state' = "ASYNC_PREPARING"
          /\ told' = "FLUSH" /\ configured'
          /\ accepted' = <<>> /\ UNCHANGED <<ctlPc, msgThread, prepared>>
          /\ msgq' = IF msgThread THEN Append(msgq, "FLUSH") ELSE msgq
        BY <1>1, <1>4 DEF PrepareAgain, Patient, ClientKind, MayCall, Post
    <2>1. /\ state = "STOPPED" /\ Resting /\ msgThread /\ msgq' = <<"FLUSH">>
          /\ state' = "ASYNC_PREPARING" /\ told' = "FLUSH" /\ configured'
          /\ accepted' = <<>> /\ UNCHANGED <<ctlPc, msgThread, prepared>>
          /\ encPc = "none" /\ hand = 0
        <3>1. state = "STOPPED"
            BY <1>1, <2>0 DEF Flow
        <3>2. encPc = "none" /\ hand = 0
            BY <1>1, <3>1, Holds DEF EncoderUp, RecInv
        <3> QED BY <1>1, <2>0, <3>1, <3>2 DEF Flow, Resting
    <2>2. \A p \in Putters : call[p] = "idle"
        BY <2>1, NoPut
    <2>3. Flow'
        BY <1>1, <2>1 DEF Flow, Resting, Carried, Asked
    <2>4. EncoderUp'
        BY <1>1, <2>1 DEF EncoderUp, EncoderIsStopped, Resting, Carried, Asked
    <2>5. OnePut' /\ MuxerUp'
        BY <1>1, <2>1, <2>2 DEF OnePut, MuxerUp, Creating, EncoderIsStopped, Resting,
              Carried, Asked
    <2>6. NothingLeft' /\ StillPrepared'
        BY <1>1, <2>1, <2>2 DEF NothingLeft, StillPrepared, Unclaimed, EncoderIsStopped,
              Resting, Carried, Asked
    <2> QED BY <1>2, <2>3, <2>4, <2>5, <2>6 DEF PatientInv
<1>5. CASE CallStart
    <2>0. /\ told = "PREPARED" /\ state' = "REQ_START" /\ ctlPc' = "REQ_START"
          /\ told' = "FLUSH" /\ UNCHANGED <<msgThread, configured, msgq, accepted, prepared>>
        BY <1>1, <1>5 DEF CallStart, Patient, ClientKind, MayCall, setVars, histVars
    <2>1. /\ state = "PREPARED" /\ Resting /\ encPc = "none"
          /\ state' = "REQ_START" /\ ctlPc' = "REQ_START"
          /\ told' = "FLUSH" /\ UNCHANGED <<msgThread, configured, msgq, accepted, prepared>>
        BY <1>1, <2>0 DEF Flow, EncoderUp
    <2>2. \A p \in Putters : call[p] = "idle"
        BY <2>1, NoPut
    <2>3. Flow'
        BY <1>1, <2>1 DEF Flow, Resting, Carried, Asked
    <2>4. EncoderUp'
        BY <1>1, <2>1 DEF EncoderUp, EncoderIsStopped, Resting, Carried, Asked
    <2>5. OnePut' /\ MuxerUp'
        BY <1>1, <2>1, <2>2 DEF OnePut, MuxerUp, Creating, EncoderIsStopped, Resting,
              Carried, Asked
    <2>6. NothingLeft' /\ StillPrepared'
        BY <1>1, <2>1, <2>2 DEF NothingLeft, StillPrepared, Unclaimed, EncoderIsStopped,
              Resting, Carried, Asked
    <2> QED BY <1>2, <2>3, <2>4, <2>5, <2>6 DEF PatientInv
<1>6. CASE CallStop
    <2>0. /\ told \in {"STARTED", "ERROR"} /\ state' = "REQ_STOP" /\ ctlPc' = "REQ_STOP"
          /\ told' = "FLUSH" /\ UNCHANGED <<msgThread, configured, msgq, accepted, prepared>>
          /\ PutsDone /\ Settled
        BY <1>1, <1>6 DEF CallStop, Patient, ClientKind, MayCall, setVars, histVars
    <2>1. /\ state = "STARTED" /\ Resting /\ encPc \in Enc!LoopPcs
          /\ muxPc \in IF startMux THEN {"none"} ELSE Mux!WritePcs
          /\ state' = "REQ_STOP" /\ ctlPc' = "REQ_STOP"
          /\ told' = "FLUSH" /\ UNCHANGED <<msgThread, configured, msgq, accepted, prepared>>
        <3>1. state = "STARTED" /\ Resting
            BY <1>1, <2>0 DEF Flow
        <3>2. encPc \in Enc!LoopPcs
            BY <1>1, <2>0, <3>1 DEF EncoderUp, Settled
        <3>3. muxPc \in IF startMux THEN {"none"} ELSE Mux!WritePcs
            BY <1>1, <2>0, <3>1 DEF MuxerUp, Settled, PutsDone, Creating, Mux!WritePcs,
                  Mux!StartPcs, Mux!OpenPcs
        <3> QED BY <2>0, <3>1, <3>2, <3>3
    <2>2. \A p \in Putters : call[p] = "idle"
        BY <2>0 DEF PutsDone
    <2>3. Flow'
        BY <1>1, <2>1 DEF Flow, Resting, Carried, Asked
    <2>4. EncoderUp'
        BY <1>1, <2>1 DEF EncoderUp, EncoderIsStopped, Resting, Carried, Asked
    <2>5. OnePut' /\ MuxerUp'
        BY <1>1, <2>1, <2>2 DEF OnePut, MuxerUp, Creating, EncoderIsStopped, Resting,
              Carried, Asked
    <2>6. NothingLeft' /\ StillPrepared'
        BY <1>1, <2>1, <2>2 DEF NothingLeft, StillPrepared, Unclaimed, EncoderIsStopped,
              Resting, Carried, Asked
    <2> QED BY <1>2, <2>3, <2>4, <2>5, <2>6 DEF PatientInv
<1>7. CASE PostRequest
    <2>0. /\ ctlPc \in {"REQ_START", "REQ_STOP"} /\ ctlPc' = "idle"
          /\ msgq' = IF msgThread THEN Append(msgq, ctlPc) ELSE msgq
          /\ UNCHANGED <<state, told, msgThread, configured, accepted, prepared>>
        BY <1>7 DEF PostRequest, Post, Requests, setVars, histVars
    <2>1. /\ state = ctlPc /\ ctlPc \in {"REQ_START", "REQ_STOP"} /\ ctlPc' = "idle"
          /\ msgThread /\ loopPc = "wait" /\ msgq = <<>> /\ msgq' = <<ctlPc>>
          /\ UNCHANGED <<state, told, msgThread, configured, accepted, prepared>>
        <3>1. state \in {"INITIALIZED", "ASYNC_PREPARING", "PREPARED", "REQ_START",
                         "STARTED", "REQ_STOP", "STOPPED", "ERROR"}
            BY DEF RecInv, TypeOK, States
        <3>2. state = ctlPc /\ msgThread /\ loopPc = "wait" /\ msgq = <<>>
            BY <1>1, <2>0, <3>1 DEF Flow, Resting, Carried, Asked
        <3>3. msgq' = <<ctlPc>>
            BY <2>0, <3>2
        <3> QED BY <2>0, <3>2, <3>3
    <2>2. \A p \in Putters : call[p] = "idle"
        BY <2>1, NoPut
    <2>3. Flow'
        BY <1>1, <2>1 DEF Flow, Resting, Carried, Asked
    <2>4. EncoderUp'
        BY <1>1, <2>1 DEF EncoderUp, EncoderIsStopped, Resting, Carried, Asked
    <2>5. OnePut' /\ MuxerUp'
        BY <1>1, <2>1, <2>2 DEF OnePut, MuxerUp, Creating, EncoderIsStopped, Resting,
              Carried, Asked
    <2>6. NothingLeft' /\ StillPrepared'
        BY <1>1, <2>1, <2>2 DEF NothingLeft, StillPrepared, Unclaimed, EncoderIsStopped,
              Resting, Carried, Asked
    <2> QED BY <1>2, <2>3, <2>4, <2>5, <2>6 DEF PatientInv
<1> QED BY <1>3, <1>4, <1>5, <1>6, <1>7
-----------------------------------------------------------------------------
(* The message thread. *)

\* What the message thread leaves alone.
KeptByLoop ==
    UNCHANGED <<msgThread, configured, strayVars, ctlPc, accepted, vRunning, abort,
                rgbaAbort, call, putPc, muxPc, mRunning, videoqAbort,
                abortMuxer, rgbaq, hand, codec, videoq>>

LEMMA LoopFrame ==
    ASSUME LoopStep, ~HandleStartAgain
    PROVE  KeptByLoop
<1> USE DEF KeptByLoop, encVars, muxVars, setVars, appVars, histVars
<1>1. CASE TakeMessage \/ HandleFlush \/ HandlePrepared \/ HandleEvent \/ ArmMux
    BY <1>1 DEF TakeMessage, HandleFlush, HandlePrepared, HandleEvent, ArmMux
<1>2. CASE RefuseStart \/ RefuseStop \/ StopDone
    BY <1>2 DEF RefuseStart, RefuseStop, StopDone
<1>3. CASE HandleStart \/ HandleStop \/ StopMuxer
    BY <1>3 DEF HandleStart, HandleStop, StopMuxer, Enc!Start, Enc!StopBegin, Enc!encVars,
          Enc!queueVars, Enc!putVars, Mux!MStopBegin, Mux!videoqVars, Mux!muxVars
<1> QED BY <1>1, <1>2, <1>3 DEF LoopStep

LEMMA LoopPatient ==
    ASSUME Patient, RecInv, PatientInv, LoopStep
    PROVE  PatientInv'
<1>0. ~HandleStartAgain /\ KeptByLoop
    BY NoSecondThread, LoopFrame
<1> USE <1>0 DEF KeptByLoop
<1>1. /\ Flow /\ EncoderUp /\ EncoderStopped /\ OnePut /\ MuxerUp /\ MuxerStopped
      /\ NothingLeft /\ StillPrepared
    BY DEF PatientInv
<1>2. state \in {"INITIALIZED", "ASYNC_PREPARING", "PREPARED", "REQ_START", "STARTED",
                 "REQ_STOP", "STOPPED", "ERROR"}
    BY DEF RecInv, TypeOK, States
<1>3. ASSUME loopPc = "handle"
      PROVE  /\ ctlPc = "idle" /\ msgq = <<>> /\ msgThread
             /\ \/ state = "ASYNC_PREPARING" /\ message \in {"FLUSH", "PREPARED"}
                \/ state = "REQ_START" /\ message = "REQ_START" /\ encPc = "none"
                \/ /\ state = "REQ_START" /\ message = "STARTED"
                   /\ encPc \notin {"none", "created", "notify"}
                \/ state = "REQ_STOP" /\ message \in {"REQ_STOP", "STOPPED"}
    BY <1>1, <1>2, <1>3 DEF Flow, Resting, Carried, Asked
<1>4. CASE TakeMessage
    <2>0. /\ loopPc = "wait" /\ loopPc' = "handle" /\ msgq # <<>>
          /\ message' = Head(msgq) /\ msgq' = Tail(msgq)
          /\ UNCHANGED <<told, state, prepared, startMux, encPc, stopPc, mstopPc>>
        BY <1>4 DEF TakeMessage, encVars, muxVars, setVars, appVars, histVars
    <2>1. PICK m : msgq = <<m>> /\ ctlPc = "idle"
        BY <1>1, <1>2, <2>0 DEF Flow, Resting, Carried, Asked
    <2>2. message' = m /\ msgq' = <<>>
        BY <2>0, <2>1
    <2>3. \A k : Carried(k)' <=> Carried(k)
        BY <2>0, <2>1, <2>2 DEF Carried
    <2>4. \A k : Asked(k) => Asked(k)'
        BY <2>0, <2>1, <2>2, <2>3 DEF Asked
    <2>5. Flow'
        BY <1>1, <2>0, <2>1, <2>3, <2>4 DEF Flow, Resting
    <2>6. EncoderUp' /\ EncoderStopped'
        BY <1>1, <2>0, <2>1, <2>2 DEF EncoderUp, EncoderStopped, EncoderIsStopped,
              Carried, Asked, Enc!RunningTracksThread
    <2>7. OnePut' /\ MuxerUp' /\ MuxerStopped'
        BY <1>1, <2>0, <2>3 DEF OnePut, MuxerUp, MuxerStopped, Creating,
              EncoderIsStopped, Mux!MuxRunningTracksThread
    <2>8. NothingLeft' /\ StillPrepared'
        BY <1>1, <2>0, <2>3 DEF NothingLeft, StillPrepared, Unclaimed, EncoderIsStopped
    <2> QED BY <2>5, <2>6, <2>7, <2>8 DEF PatientInv
<1>5. CASE HandleFlush
    <2>0. /\ loopPc = "handle" /\ message = "FLUSH" /\ loopPc' = "wait"
          /\ msgq' = IF msgThread
                     THEN Append(msgq, IF state = "ASYNC_PREPARING" THEN "PREPARED" ELSE "ERROR")
                     ELSE msgq
          /\ UNCHANGED <<told, state, prepared, startMux, encPc, stopPc, mstopPc, message>>
        BY <1>5 DEF HandleFlush, Post, encVars, muxVars, setVars, appVars, histVars
    <2>1. /\ state = "ASYNC_PREPARING" /\ msgq' = <<"PREPARED">> /\ loopPc = "handle" /\ loopPc' = "wait"
          /\ ctlPc = "idle" /\ message = "FLUSH" /\ msgq = <<>>
          /\ UNCHANGED <<told, state, prepared, startMux, encPc, stopPc, mstopPc, message>>
        BY <1>3, <2>0
    <2>2. \A p \in Putters : call[p] = "idle" /\ putPc[p] = "idle"
        BY <2>1, NoPut
    <2>3. Flow'
        BY <1>1, <2>1 DEF Flow, Resting, Carried, Asked
    <2>4. EncoderUp' /\ EncoderStopped'
        BY <1>1, <2>1 DEF EncoderUp, EncoderStopped, EncoderIsStopped, Resting, Carried,
              Asked, Enc!RunningTracksThread, Enc!ReadyPcs, Enc!LoopPcs
    <2>5. OnePut' /\ MuxerUp' /\ MuxerStopped'
        BY <1>1, <2>1, <2>2 DEF OnePut, MuxerUp, MuxerStopped, Creating, EncoderIsStopped,
              Resting, Carried, Asked, Mux!MuxRunningTracksThread
    <2>6. NothingLeft' /\ StillPrepared'
        BY <1>1, <2>1, <2>2 DEF NothingLeft, StillPrepared, Unclaimed, EncoderIsStopped,
              Resting, Carried, Asked
    <2> QED BY <2>3, <2>4, <2>5, <2>6 DEF PatientInv
<1>6. CASE HandlePrepared
    <2>0. /\ loopPc = "handle" /\ message = "PREPARED" /\ loopPc' = "wait"
          /\ told' = "PREPARED"
          /\ state = "ASYNC_PREPARING" => state' = "PREPARED" /\ prepared' /\ msgq' = msgq
          /\ UNCHANGED <<startMux, encPc, stopPc, mstopPc, message>>
        BY <1>6 DEF HandlePrepared, encVars, muxVars, setVars, appVars, histVars
    <2>1. /\ state = "ASYNC_PREPARING" /\ state' = "PREPARED" /\ told' = "PREPARED" /\ prepared'
          /\ loopPc = "handle" /\ loopPc' = "wait" /\ message = "PREPARED"
          /\ ctlPc = "idle" /\ msgq' = <<>> /\ msgq = <<>>
          /\ UNCHANGED <<startMux, encPc, stopPc, mstopPc, message>>
        BY <1>3, <2>0
    <2>2. \A p \in Putters : call[p] = "idle" /\ putPc[p] = "idle"
        BY <2>1, NoPut
    <2>3. Flow'
        BY <1>1, <2>1 DEF Flow, Resting, Carried, Asked
    <2>4. EncoderUp' /\ EncoderStopped'
        BY <1>1, <2>1 DEF EncoderUp, EncoderStopped, EncoderIsStopped, Resting, Carried,
              Asked, Enc!RunningTracksThread, Enc!ReadyPcs, Enc!LoopPcs
    <2>5. OnePut' /\ MuxerUp' /\ MuxerStopped'
        BY <1>1, <2>1, <2>2 DEF OnePut, MuxerUp, MuxerStopped, Creating, EncoderIsStopped,
              Resting, Carried, Asked, Mux!MuxRunningTracksThread
    <2>6. NothingLeft' /\ StillPrepared'
        BY <1>1, <2>1, <2>2 DEF NothingLeft, StillPrepared, Unclaimed, EncoderIsStopped,
              Resting, Carried, Asked
    <2> QED BY <2>3, <2>4, <2>5, <2>6 DEF PatientInv
<1>7. CASE HandleEvent
    <2>0. /\ loopPc = "handle" /\ message \in {"STARTED", "STOPPED", "ERROR"} /\ loopPc' = "wait"
          /\ told' = message /\ state' = message
          /\ UNCHANGED <<prepared, startMux, encPc, stopPc, mstopPc, message, msgq>>
        BY <1>7 DEF HandleEvent, encVars, muxVars, setVars, appVars, histVars
    <2>1. /\ loopPc = "handle" /\ loopPc' = "wait" /\ ctlPc = "idle" /\ msgq = <<>> /\ state # "STARTED"
          /\ told' = message /\ state' = message
          /\ \/ /\ state = "REQ_START" /\ message = "STARTED"
                /\ encPc \notin {"none", "created", "notify"}
             \/ state = "REQ_STOP" /\ message = "STOPPED"
          /\ UNCHANGED <<prepared, startMux, encPc, stopPc, mstopPc, message, msgq>>
        BY <1>3, <2>0
    <2>2. \A p \in Putters : call[p] = "idle" /\ putPc[p] = "idle"
        BY <2>1, NoPut
    <2>3. Flow'
        BY <1>1, <2>1 DEF Flow, Resting, Carried, Asked
    <2>4. EncoderUp' /\ EncoderStopped'
        BY <1>1, <2>1 DEF EncoderUp, EncoderStopped, EncoderIsStopped, Resting, Carried,
              Asked, Enc!RunningTracksThread, Enc!ReadyPcs, Enc!LoopPcs
    <2>5. OnePut' /\ MuxerUp' /\ MuxerStopped'
        BY <1>1, <2>1, <2>2 DEF OnePut, MuxerUp, MuxerStopped, Creating, EncoderIsStopped,
              Resting, Carried, Asked, Mux!MuxRunningTracksThread
    <2>6. state = "REQ_STOP" => videoq = <<>>
        BY <1>1, <2>1 DEF NothingLeft, MuxerUp, MuxerStopped, EncoderIsStopped, Carried
    <2>7. NothingLeft' /\ StillPrepared'
        BY <1>1, <2>1, <2>2, <2>6 DEF NothingLeft, StillPrepared, Unclaimed,
              EncoderIsStopped, Carried
    <2> QED BY <2>3, <2>4, <2>5, <2>7 DEF PatientInv
<1>8. CASE HandleStart
    <2>0. /\ loopPc = "handle" /\ message = "REQ_START" /\ loopPc' = "arm"
          /\ encPc = "none" /\ encPc' = "created" /\ prepared' = FALSE
          /\ UNCHANGED <<told, state, startMux, stopPc, mstopPc, message, msgq>>
        BY <1>8 DEF HandleStart, Enc!Start, Enc!queueVars, Enc!putVars, encVars, muxVars,
              setVars, appVars, histVars
    <2>1. /\ loopPc = "handle" /\ message = "REQ_START" /\ loopPc' = "arm"
          /\ encPc = "none" /\ encPc' = "created" /\ prepared' = FALSE
          /\ state = "REQ_START" /\ ctlPc = "idle" /\ msgq = <<>>
          /\ UNCHANGED <<told, state, startMux, stopPc, mstopPc, message, msgq>>
        BY <1>3, <2>0
    <2>2. \A p \in Putters : call[p] = "idle" /\ putPc[p] = "idle"
        BY <2>1, NoPut
    <2>3. Flow'
        BY <1>1, <2>1 DEF Flow, Resting, Carried, Asked
    <2>4. EncoderUp' /\ EncoderStopped'
        BY <1>1, <2>1 DEF EncoderUp, EncoderStopped, EncoderIsStopped, Resting, Carried,
              Asked, Enc!RunningTracksThread, Enc!ReadyPcs, Enc!LoopPcs
    <2>5. OnePut' /\ MuxerUp' /\ MuxerStopped'
        BY <1>1, <2>1, <2>2 DEF OnePut, MuxerUp, MuxerStopped, Creating, EncoderIsStopped,
              Resting, Carried, Asked, Mux!MuxRunningTracksThread
    <2>6. NothingLeft' /\ StillPrepared'
        BY <1>1, <2>1, <2>2 DEF NothingLeft, StillPrepared, Unclaimed, EncoderIsStopped,
              Resting, Carried, Asked
    <2> QED BY <2>3, <2>4, <2>5, <2>6 DEF PatientInv
<1>9. CASE ArmMux
    <2>0. /\ loopPc = "arm" /\ loopPc' = "wait" /\ startMux'
          /\ UNCHANGED <<told, state, prepared, encPc, stopPc, mstopPc, message, msgq>>
        BY <1>9 DEF ArmMux, encVars, muxVars, setVars, appVars, histVars
    <2>1. /\ loopPc = "arm" /\ loopPc' = "wait" /\ startMux'
          /\ state = "REQ_START" /\ encPc # "none" /\ ctlPc = "idle"
          /\ \/ encPc \in {"created", "notify"} /\ msgq = <<>>
             \/ encPc \notin {"created", "notify"} /\ msgq = <<"STARTED">>
          /\ UNCHANGED <<told, state, prepared, encPc, stopPc, mstopPc, message, msgq>>
        BY <1>1, <1>2, <2>0 DEF Flow, Resting, Carried, Asked
    <2>2. \A p \in Putters : call[p] = "idle" /\ putPc[p] = "idle"
        BY <2>1, NoPut
    <2>3. Flow'
        BY <1>1, <2>1 DEF Flow, Resting, Carried, Asked
    <2>4. EncoderUp' /\ EncoderStopped'
        BY <1>1, <2>1 DEF EncoderUp, EncoderStopped, EncoderIsStopped, Resting, Carried,
              Asked, Enc!RunningTracksThread, Enc!ReadyPcs, Enc!LoopPcs
    <2>5. OnePut' /\ MuxerUp' /\ MuxerStopped'
        BY <1>1, <2>1, <2>2 DEF OnePut, MuxerUp, MuxerStopped, Creating, EncoderIsStopped,
              Resting, Carried, Asked, Mux!MuxRunningTracksThread
    <2>6. NothingLeft' /\ StillPrepared'
        BY <1>1, <2>1, <2>2 DEF NothingLeft, StillPrepared, Unclaimed, EncoderIsStopped,
              Resting, Carried, Asked
    <2> QED BY <2>3, <2>4, <2>5, <2>6 DEF PatientInv
<1>10. CASE RefuseStart \/ RefuseStop
    BY <1>3, <1>10 DEF RefuseStart, RefuseStop, MayStart, MayStop
<1>11. CASE HandleStop
    <2>0. /\ loopPc = "handle" /\ message = "REQ_STOP" /\ loopPc' = "stopEncoder"
          /\ stopPc' = "abort"
          /\ UNCHANGED <<told, state, prepared, startMux, encPc, mstopPc, message, msgq>>
        BY <1>11 DEF HandleStop, Enc!StopBegin, Enc!queueVars, Enc!putVars, Enc!encVars,
              encVars, muxVars, setVars, appVars, histVars
    <2>1. /\ loopPc = "handle" /\ message = "REQ_STOP" /\ loopPc' = "stopEncoder"
          /\ stopPc' = "abort" /\ state = "REQ_STOP" /\ ctlPc = "idle" /\ msgq = <<>>
          /\ UNCHANGED <<told, state, prepared, startMux, encPc, mstopPc, message, msgq>>
        BY <1>3, <2>0
    <2>2. \A p \in Putters : call[p] = "idle" /\ putPc[p] = "idle"
        BY <2>1, NoPut
    <2>3. Flow'
        BY <1>1, <2>1 DEF Flow, Resting, Carried, Asked
    <2>4. EncoderUp' /\ EncoderStopped'
        BY <1>1, <2>1 DEF EncoderUp, EncoderStopped, EncoderIsStopped, Resting, Carried,
              Asked, Enc!RunningTracksThread, Enc!ReadyPcs, Enc!LoopPcs
    <2>5. OnePut' /\ MuxerUp' /\ MuxerStopped'
        BY <1>1, <2>1, <2>2 DEF OnePut, MuxerUp, MuxerStopped, Creating, EncoderIsStopped,
              Resting, Carried, Asked, Mux!MuxRunningTracksThread
    <2>6. NothingLeft' /\ StillPrepared'
        BY <1>1, <2>1, <2>2 DEF NothingLeft, StillPrepared, Unclaimed, EncoderIsStopped,
              Resting, Carried, Asked
    <2> QED BY <2>3, <2>4, <2>5, <2>6 DEF PatientInv
<1>12. CASE StopMuxer
    <2>0. /\ loopPc = "stopEncoder" /\ loopPc' = "stopMuxer" /\ stopPc = "idle"
          /\ mstopPc = "idle" /\ mstopPc' = "size"
          /\ UNCHANGED <<told, state, prepared, startMux, encPc, stopPc, message, msgq>>
        BY <1>12 DEF StopMuxer, Mux!MStopBegin, Mux!videoqVars, Mux!muxVars, encVars,
              muxVars, setVars, appVars, histVars
    <2>1. /\ loopPc = "stopEncoder" /\ loopPc' = "stopMuxer" /\ stopPc = "idle"
          /\ mstopPc = "idle" /\ mstopPc' = "size"
          /\ state = "REQ_STOP" /\ ctlPc = "idle" /\ msgq = <<>>
          /\ UNCHANGED <<told, state, prepared, startMux, encPc, stopPc, message, msgq>>
        BY <1>1, <1>2, <2>0 DEF Flow, Resting, Carried, Asked
    <2>2. \A p \in Putters : call[p] = "idle" /\ putPc[p] = "idle"
        BY <2>1, NoPut
    <2>3. Flow'
        BY <1>1, <2>1 DEF Flow, Resting, Carried, Asked
    <2>4. EncoderUp' /\ EncoderStopped'
        BY <1>1, <2>1 DEF EncoderUp, EncoderStopped, EncoderIsStopped, Resting, Carried,
              Asked, Enc!RunningTracksThread, Enc!ReadyPcs, Enc!LoopPcs
    <2>5. /\ encPc = "none" /\ ~EncoderIsStopped /\ EncoderIsStopped'
          /\ muxPc \in IF startMux THEN {"none"} ELSE Mux!WritePcs
        BY <1>1, <2>1 DEF EncoderStopped, MuxerUp, EncoderIsStopped, Carried
    <2>6. OnePut' /\ MuxerUp' /\ MuxerStopped'
        BY <1>1, <2>1, <2>2, <2>5 DEF OnePut, MuxerUp, MuxerStopped, Creating,
              Mux!MuxRunningTracksThread, Mux!StartPcs, Mux!OpenPcs, Mux!WritePcs
    <2>7. muxPc \in {"trailer", "exit", "close", "none"} => videoq = <<>>
        BY <1>1, <2>1, <2>2, <2>5 DEF NothingLeft, Unclaimed, Mux!WritePcs
    <2>8. NothingLeft' /\ StillPrepared'
        BY <1>1, <2>1, <2>2, <2>5, <2>7 DEF NothingLeft, StillPrepared, Unclaimed
    <2> QED BY <2>3, <2>4, <2>6, <2>8 DEF PatientInv
<1>13. CASE StopDone
    <2>0. /\ loopPc = "stopMuxer" /\ loopPc' = "wait" /\ mstopPc = "idle"
          /\ msgq' = IF msgThread THEN Append(msgq, "STOPPED") ELSE msgq
          /\ UNCHANGED <<told, state, prepared, startMux, encPc, stopPc, mstopPc, message>>
        BY <1>13 DEF StopDone, Post, encVars, muxVars, setVars, appVars, histVars
    <2>1. /\ loopPc = "stopMuxer" /\ loopPc' = "wait" /\ mstopPc = "idle"
          /\ state = "REQ_STOP" /\ ctlPc = "idle" /\ msgq' = <<"STOPPED">>
          /\ UNCHANGED <<told, state, prepared, startMux, encPc, stopPc, mstopPc, message>>
        <3>1. state = "REQ_STOP" /\ ctlPc = "idle" /\ msgq = <<>> /\ msgThread
            BY <1>1, <1>2, <2>0 DEF Flow, Resting, Carried, Asked
        <3> QED BY <2>0, <3>1
    <2>2. \A p \in Putters : call[p] = "idle" /\ putPc[p] = "idle"
        BY <2>1, NoPut
    <2>3. Flow'
        BY <1>1, <2>1 DEF Flow, Resting, Carried, Asked
    <2>4. EncoderUp' /\ EncoderStopped'
        BY <1>1, <2>1 DEF EncoderUp, EncoderStopped, EncoderIsStopped, Resting, Carried,
              Asked, Enc!RunningTracksThread, Enc!ReadyPcs, Enc!LoopPcs
    <2>5. OnePut' /\ MuxerUp' /\ MuxerStopped'
        BY <1>1, <2>1, <2>2 DEF OnePut, MuxerUp, MuxerStopped, Creating, EncoderIsStopped,
              Resting, Carried, Asked, Mux!MuxRunningTracksThread
    <2>6. NothingLeft' /\ StillPrepared'
        BY <1>1, <2>1, <2>2 DEF NothingLeft, StillPrepared, Unclaimed, EncoderIsStopped,
              Resting, Carried, Asked
    <2> QED BY <2>3, <2>4, <2>5, <2>6 DEF PatientInv
<1> QED BY <1>0, <1>4, <1>5, <1>6, <1>7, <1>8, <1>9, <1>10, <1>11, <1>12, <1>13
        DEF LoopStep
-----------------------------------------------------------------------------
(* put. *)

\* What a put leaves alone.
KeptByPut ==
    UNCHANGED <<told, state, msgThread, configured, ctlPc, loopPc, message, msgq,
                encPc, stopPc, vRunning, abort, rgbaAbort, mstopPc, mRunning,
                videoqAbort, abortMuxer, hand, codec, videoq, prepared>>

LEMMA PutFrame ==
    ASSUME NEW p \in Putters, Patient, PutCall(p) \/ PutStep(p)
    PROVE  (msgq' = msgq => KeptByPut)
<1> USE DEF KeptByPut, encVars, muxVars, setVars, loopVars, appVars,
            histVars
<1>1. CASE PutCall(p) \/ PutSize(p) \/ PutRefused(p) \/ ClaimMux(p)
    BY <1>1 DEF PutCall, PutSize, PutRefused, ClaimMux
<1>2. CASE PutNoMemory(p)
    BY <1>2 DEF PutNoMemory
<1>3. CASE PutCopy(p) \/ Enqueued(p) \/ NotEnqueued(p)
    BY <1>3 DEF PutCopy, Enqueued, NotEnqueued, Enc!PutBegin, Enc!PutReturn,
                Enc!encVars, Enc!queueVars
<1>4. CASE Enqueue(p)
    BY <1>4 DEF Enqueue, Unconfigured, Enc!EnqueueChecked, Enc!EnqueueRefused,
                Enc!QueuePut, Enc!QueuePutFails, Enc!Reject, Enc!encVars, Enc!queueVars
<1>5. CASE CreateMux(p) \/ CreateMuxAgain(p)
    BY <1>5 DEF CreateMux, CreateMuxAgain, Mux!MuxStart, Mux!videoqVars
<1> QED BY <1>1, <1>2, <1>3, <1>4, <1>5 DEF PutStep

\* The steps of put that are possible.
PutMove(p) ==
    \/ /\ call'[p] \in {"idle", "size", "copy"}
       /\ call[p] \notin {"claim", "create"}
       /\ putPc[p] = "idle" /\ putPc'[p] = "idle"
       /\ UNCHANGED <<startMux, muxPc, accepted, rgbaq>>
    \/ /\ call[p] \in {"copy", "enqueue"} /\ call'[p] = "enqueue"
       /\ putPc[p] \in {"idle", "enqueue"} /\ putPc'[p] \in {"enqueue", "put"}
       /\ UNCHANGED <<startMux, muxPc, accepted, rgbaq>>
    \/ /\ call[p] = "enqueue" /\ call'[p] = "enqueue"
       /\ putPc[p] = "put" /\ putPc'[p] = "accepted" /\ accepted' # <<>>
       /\ UNCHANGED <<startMux, muxPc>>
    \/ /\ call[p] = "enqueue"
       /\ call'[p] = IF startMux THEN "claim" ELSE "idle"
       /\ putPc[p] = "accepted" /\ putPc'[p] = "idle"
       /\ UNCHANGED <<startMux, muxPc, accepted, rgbaq>>
    \/ /\ call[p] = "claim" /\ call'[p] = "create"
       /\ startMux /\ startMux' = FALSE
       /\ putPc[p] = "idle" /\ putPc'[p] = "idle"
       /\ UNCHANGED <<muxPc, accepted, rgbaq>>
    \/ /\ call[p] = "create" /\ call'[p] = "idle"
       /\ muxPc = "none" /\ muxPc' = "created" /\ ~startMux
       /\ putPc[p] = "idle" /\ putPc'[p] = "idle"
       /\ UNCHANGED <<startMux, accepted, rgbaq>>

LEMMA PutMoves ==
    ASSUME Patient, RecInv, PatientInv, NEW p \in Putters, PutCall(p) \/ PutStep(p)
    PROVE  /\ state = "STARTED" /\ encPc \in Enc!LoopPcs
           /\ KeptByPut
           /\ startMux => muxPc # "close"
           /\ \A q \in Putters \ {p} :
                 /\ call[q] = "idle" /\ putPc[q] = "idle"
                 /\ call'[q] = "idle" /\ putPc'[q] = "idle"
           /\ PutMove(p)
<1>0. ~CreateMuxAgain(p)
    BY NoSecondThread
<1>1. /\ Flow /\ EncoderStopped /\ OnePut /\ PutCalls
      /\ call \in [Putters -> CallPcs] /\ putPc \in [Putters -> Enc!PutPcs]
      /\ accepted \in Seq(1..MaxFrames)
    BY DEF PatientInv, RecInv, TypeOK, EncInv, EncTypes
<1>2. CASE PutCall(p)
    <2>1. /\ told = "STARTED" /\ \A q \in Putters : call[q] = "idle"
          /\ encPc \in Enc!LoopPcs
          /\ startMux => muxPc # "close"
          /\ \E v \in {"copy", "size"} : call' = [call EXCEPT ![p] = v]
          /\ UNCHANGED <<msgq, putPc, startMux, muxPc, accepted, rgbaq>>
        BY <1>2 DEF PutCall, Patient, ClientKind, PutsDone, Ready, encVars, muxVars,
              histVars
    <2>2. state = "STARTED"
        BY <1>1, <2>1 DEF Flow
    <2>3. KeptByPut
        BY <1>2, <2>1, PutFrame
    <2>4. \A q \in Putters : putPc[q] = "idle"
        BY <1>1, <2>1 DEF PutCalls
    <2>5. \A q \in Putters : call'[q] = IF q = p THEN call'[p] ELSE "idle"
        BY <1>1, <2>1
    <2>6. call[p] = "idle" /\ call'[p] \in {"size", "copy"}
        BY <1>1, <2>1
    <2> QED BY <2>1, <2>2, <2>3, <2>4, <2>5, <2>6 DEF PutMove
<1>3. ASSUME call[p] # "idle"
      PROVE  /\ state = "STARTED" /\ encPc \in Enc!LoopPcs /\ configured /\ ~abort
             /\ startMux => muxPc # "close"
             /\ \A q \in Putters \ {p} : call[q] = "idle" /\ putPc[q] = "idle"
             /\ call[p] # "refused" /\ putPc[p] # "rejected"
             /\ call[p] = "claim" => startMux
             /\ call[p] = "create" => ~startMux
    <2>1. state = "STARTED" /\ encPc \in Enc!LoopPcs
        BY <1>1, <1>3 DEF OnePut
    <2>2. ~abort /\ configured
        BY <1>1, <2>1 DEF Flow, Resting, EncoderStopped
    <2> QED BY <1>1, <1>3, <2>1, <2>2 DEF OnePut, PutCalls
<1>4. ASSUME PutStep(p)
      PROVE  call[p] # "idle"
    BY <1>1, <1>4 DEF PutStep, PutCalls, PutSize, PutNoMemory, PutCopy, Enqueue, Enqueued,
          NotEnqueued, PutRefused, ClaimMux, CreateMux, CreateMuxAgain, Unconfigured,
          Enc!EnqueueChecked, Enc!EnqueueRefused, Enc!QueuePut, Enc!QueuePutFails
<1>5. CASE PutSize(p)
    <2>1. /\ \E v \in {"copy", "idle"} : call' = [call EXCEPT ![p] = v]
          /\ call[p] = "size"
          /\ UNCHANGED <<msgq, putPc, startMux, muxPc, accepted, rgbaq>>
        BY <1>5 DEF PutSize, encVars, muxVars, histVars
    <2>2. KeptByPut
        BY <1>5, <2>1, PutFrame DEF PutStep
    <2>3. putPc[p] = "idle"
        BY <1>1, <2>1 DEF PutCalls
    <2> QED BY <1>1, <1>3, <2>1, <2>2, <2>3 DEF PutMove
<1>6. CASE PutCopy(p)
    <2>1. /\ call' = [call EXCEPT ![p] = "enqueue"] /\ call[p] = "copy"
          /\ putPc' = [putPc EXCEPT ![p] = "enqueue"] /\ putPc[p] = "idle"
          /\ UNCHANGED <<msgq, startMux, muxPc, accepted, rgbaq>>
        BY <1>6 DEF PutCopy, Enc!PutBegin, muxVars, histVars
    <2>2. KeptByPut
        BY <1>6, <2>1, PutFrame DEF PutStep
    <2> QED BY <1>1, <1>3, <2>1, <2>2 DEF PutMove
<1>7. CASE Enqueue(p)
    <2>0. call[p] # "idle" /\ "size" \notin Faults /\ "malloc" \notin Faults
        BY <1>4, <1>7 DEF PutStep, Patient
    <2>1. ~Unconfigured(p) /\ ~Enc!EnqueueRefused(p) /\ ~Enc!QueuePutFails(p)
        BY <1>3, <2>0 DEF Unconfigured, Enc!EnqueueRefused, Enc!QueuePutFails
    <2>2. CASE Enc!EnqueueChecked(p) /\ accepted' = accepted
        <3>1. /\ putPc' = [putPc EXCEPT ![p] = "put"] /\ putPc[p] = "enqueue"
              /\ UNCHANGED <<call, msgq, startMux, muxPc, accepted, rgbaq>>
            BY <1>7, <2>2 DEF Enqueue, Enc!EnqueueChecked, Enc!queueVars, muxVars, appVars
        <3>2. KeptByPut
            BY <1>7, <3>1, PutFrame DEF PutStep
        <3>3. call[p] = "enqueue"
            BY <1>1, <3>1 DEF PutCalls
        <3> QED BY <1>1, <1>3, <3>1, <3>2, <3>3 DEF PutMove
    <2>3. CASE Enc!QueuePut(p) /\ accepted' = Append(accepted, putFrame[p])
        <3>1. /\ putPc' = [putPc EXCEPT ![p] = "accepted"] /\ putPc[p] = "put"
              /\ UNCHANGED <<call, msgq, startMux, muxPc>>
            BY <1>7, <2>3 DEF Enqueue, Enc!QueuePut, Enc!queueVars, muxVars, appVars
        <3>2. KeptByPut
            BY <1>7, <3>1, PutFrame DEF PutStep
        <3>3. call[p] = "enqueue"
            BY <1>1, <3>1 DEF PutCalls
        <3>4. accepted' # <<>>
            BY <1>1, <2>3
        <3> QED BY <1>1, <1>3, <3>1, <3>2, <3>3, <3>4 DEF PutMove
    <2> QED BY <1>7, <2>1, <2>2, <2>3 DEF Enqueue
<1>8. CASE Enqueued(p)
    <2>1. /\ call' = [call EXCEPT ![p] = IF startMux THEN "claim" ELSE "idle"]
          /\ putPc' = [putPc EXCEPT ![p] = "idle"] /\ putPc[p] = "accepted"
          /\ UNCHANGED <<msgq, startMux, muxPc, accepted, rgbaq>>
        BY <1>8 DEF Enqueued, Enc!PutReturn, Enc!queueVars, muxVars, histVars
    <2>2. KeptByPut
        BY <1>8, <2>1, PutFrame DEF PutStep
    <2>3. call[p] = "enqueue"
        BY <1>1, <2>1 DEF PutCalls
    <2> QED BY <1>1, <1>3, <2>1, <2>2, <2>3 DEF PutMove
<1>9. CASE PutNoMemory(p) \/ NotEnqueued(p) \/ PutRefused(p)
    <2>1. call[p] # "idle" /\ "malloc" \notin Faults
        BY <1>4, <1>9 DEF PutStep, Patient
    <2> QED BY <1>3, <1>9, <2>1 DEF PutNoMemory, NotEnqueued, PutRefused
<1>10. CASE ClaimMux(p)
    <2>1. /\ call' = [call EXCEPT ![p] = "create"] /\ call[p] = "claim"
          /\ startMux' = FALSE /\ UNCHANGED <<msgq, putPc, muxPc, accepted, rgbaq>>
        BY <1>10 DEF ClaimMux, encVars, muxVars, histVars
    <2>2. KeptByPut
        BY <1>10, <2>1, PutFrame DEF PutStep
    <2>3. putPc[p] = "idle"
        BY <1>1, <2>1 DEF PutCalls
    <2> QED BY <1>1, <1>3, <2>1, <2>2, <2>3 DEF PutMove
<1>11. CASE CreateMux(p)
    <2>1. /\ call' = [call EXCEPT ![p] = "idle"] /\ call[p] = "create"
          /\ muxPc = "none" /\ muxPc' = "created"
          /\ UNCHANGED <<msgq, putPc, startMux, accepted, rgbaq>>
        BY <1>11 DEF CreateMux, Mux!MuxStart, Mux!videoqVars, encVars, histVars
    <2>2. KeptByPut
        BY <1>11, <2>1, PutFrame DEF PutStep
    <2>3. putPc[p] = "idle"
        BY <1>1, <2>1 DEF PutCalls
    <2> QED BY <1>1, <1>3, <2>1, <2>2, <2>3 DEF PutMove
<1> QED BY <1>0, <1>2, <1>5, <1>6, <1>7, <1>8, <1>9, <1>10, <1>11 DEF PutStep

LEMMA PutPatient ==
    ASSUME Patient, RecInv, PatientInv, NEW p \in Putters, PutCall(p) \/ PutStep(p)
    PROVE  PatientInv'
<1>1. /\ Flow /\ EncoderUp /\ EncoderStopped /\ OnePut /\ MuxerUp /\ MuxerStopped
      /\ NothingLeft /\ StillPrepared
    BY DEF PatientInv
<1>2. /\ state = "STARTED" /\ encPc \in Enc!LoopPcs /\ Resting
      /\ KeptByPut
      /\ startMux => muxPc # "close"
      /\ PutMove(p)
      /\ \A q \in Putters \ {p} :
            /\ call[q] = "idle" /\ putPc[q] = "idle"
            /\ call'[q] = "idle" /\ putPc'[q] = "idle"
    BY <1>1, PutMoves DEF Flow
<1> USE <1>2 DEF KeptByPut
<1>3. Flow' /\ EncoderUp' /\ EncoderStopped' /\ StillPrepared'
    BY <1>1 DEF Flow, EncoderUp, EncoderStopped, StillPrepared, EncoderIsStopped,
          Carried, Asked, Resting, Enc!RunningTracksThread
<1>4. OnePut'
    BY <1>1 DEF PutMove, OnePut, MuxerUp, Creating
<1>5. MuxerUp' /\ MuxerStopped'
    <2>1. ~EncoderIsStopped'
        BY DEF EncoderIsStopped, Carried, Resting
    <2>2. Creating <=> call[p] = "create"
        BY DEF PutMove, Creating
    <2>3. Creating' <=> call'[p] = "create"
        BY DEF PutMove, Creating
    <2>4. MuxerUp'
        <3> DEFINE Up == Mux!StartPcs \cup Mux!OpenPcs \cup Mux!WritePcs
        <3>1. /\ muxPc \in IF startMux \/ call[p] = "create" THEN {"close", "none"} ELSE Up
              /\ call[p] = "create" => muxPc = "none"
            BY <1>1, <2>2 DEF MuxerUp
        <3>2. "created" \in Up
            BY DEF Mux!StartPcs
        <3> HIDE DEF Up
        <3>3. /\ muxPc' \in IF startMux' \/ call'[p] = "create" THEN {"close", "none"} ELSE Up
              /\ call'[p] = "create" => muxPc' = "none"
            BY <3>1, <3>2 DEF PutMove
        <3> QED BY <2>1, <2>3, <3>3 DEF MuxerUp, Up
    <2>5. MuxerStopped'
        BY <1>1 DEF PutMove, MuxerStopped, Mux!MuxRunningTracksThread, Mux!OpenPcs,
              Mux!WritePcs
    <2> QED BY <2>4, <2>5
<1>6. NothingLeft'
    <2>1. Unclaimed' => accepted' = <<>>
        BY <1>1 DEF PutMove, NothingLeft, Unclaimed
    <2>2. encPc \notin {"clear", "rearm", "rearmQ", "exit", "none"}
        BY DEF Enc!LoopPcs
    <2>3. accepted' # <<>> \/ UNCHANGED <<accepted, rgbaq>>
        BY DEF PutMove
    <2> QED BY <1>1, <2>1, <2>2, <2>3 DEF NothingLeft
<1> QED BY <1>3, <1>4, <1>5, <1>6 DEF PatientInv
-----------------------------------------------------------------------------
(* The encoder's thread, and the stop of the encoder. *)

\* What the threads of the parts leave alone.
KeptByParts ==
    UNCHANGED <<told, state, msgThread, configured, ctlPc, loopPc, message, call,
                putPc, startMux, accepted, prepared>>

\* Where the thread goes, and that it only says that it has started.
EncoderMove ==
    \/ encPc = "created" /\ encPc' = "notify" /\ msgq' = msgq
    \/ encPc = "notify" /\ encPc' = "prepare" /\ msgq' = Append(msgq, "STARTED")
    \/ /\ encPc \in {"prepare", "prepareQ", "open"}
       /\ encPc' \in {"prepareQ", "open", "loop"} /\ msgq' = msgq
    \/ encPc \in Enc!LoopPcs /\ encPc' \in Enc!LoopPcs /\ msgq' = msgq
    \/ /\ encPc \in Enc!LoopPcs /\ rgbaAbort
       /\ encPc' \in {"flush", "reset"} /\ msgq' = msgq
    \/ encPc \in Enc!EndPcs /\ encPc' \in Enc!EndPcs \cup {"none"} /\ msgq' = msgq

LEMMA EncoderMoves ==
    ASSUME Patient, EncoderThread
    PROVE  /\ EncoderMove /\ KeptByParts
           /\ UNCHANGED <<stopPc, muxPc, mstopPc, mRunning, videoqAbort, abortMuxer>>
<1> USE DEF EncoderThread, EncoderMove, Enc!LoopPcs, Enc!EndPcs
<1>1. "open" \notin Faults /\ "process" \notin Faults
    BY DEF Patient
<1>2. KeptByParts /\ UNCHANGED <<muxPc, mstopPc, mRunning, videoqAbort, abortMuxer,
                                 stopPc>>
    <2>1. UNCHANGED <<stopPc, putPc>>
        BY DEF Enc!EncoderStep, Enc!SetRunning, Enc!NotifyStarted, Enc!ResetAbort,
              Enc!ResetQueue, Enc!OpenCodec, Enc!OpenFails, Enc!LoopTop, Enc!LoopSize,
              Enc!LoopAbortQueue, Enc!GetFrame, Enc!GetAborted, Enc!EncodeNoPacket,
              Enc!EncodePacket, Enc!EncodePacketRefused, Enc!Encoded, Enc!EncodeFails,
              Enc!FlushPacket, Enc!FlushEnds, Enc!FlushFails, Enc!ClearQueue,
              Enc!RearmAbort, Enc!RearmQueue, Enc!Exit, Enc!putVars, Enc!queueVars,
              Enc!encVars
    <2> QED BY <2>1 DEF KeptByParts, muxVars, recVars, setVars, loopVars, appVars,
            histVars
<1>3. EncoderMove
    <2>1. CASE Enc!SetRunning \/ Enc!NotifyStarted \/ Enc!ResetAbort \/ Enc!ResetQueue
                 \/ Enc!OpenCodec \/ Enc!OpenFails
        BY <1>1, <2>1 DEF Enc!SetRunning, Enc!NotifyStarted, Enc!ResetAbort,
              Enc!ResetQueue, Enc!OpenCodec, Enc!OpenFails
    <2>2. CASE Enc!LoopTop \/ Enc!LoopSize \/ Enc!LoopAbortQueue \/ Enc!GetFrame
                 \/ Enc!GetAborted
        BY <2>2 DEF Enc!LoopTop, Enc!LoopSize, Enc!LoopAbortQueue, Enc!GetFrame,
              Enc!GetAborted
    <2>3. CASE Enc!Encoded \/ Enc!EncodeFails
        BY <1>1, <2>3 DEF Enc!Encoded, Enc!EncodeFails
    <2>4. CASE Enc!FlushPacket \/ Enc!FlushEnds \/ Enc!FlushFails
        BY <2>4 DEF Enc!FlushPacket, Enc!FlushEnds, Enc!FlushFails
    <2>5. CASE Enc!ClearQueue \/ Enc!RearmAbort \/ Enc!RearmQueue \/ Enc!Exit
        BY <2>5 DEF Enc!ClearQueue, Enc!RearmAbort, Enc!RearmQueue, Enc!Exit
    <2> QED BY <2>1, <2>2, <2>3, <2>4, <2>5 DEF Enc!EncoderStep, Enc!EncodeNoPacket,
            Enc!EncodePacket, Enc!EncodePacketRefused
<1> QED BY <1>2, <1>3

LEMMA EncoderPatient ==
    ASSUME Patient, RecInv, PatientInv, EncoderThread
    PROVE  PatientInv'
<1>1. /\ Flow /\ EncoderUp /\ EncoderStopped /\ OnePut /\ MuxerUp /\ MuxerStopped
      /\ NothingLeft /\ StillPrepared
    BY DEF PatientInv
<1>2. /\ EncoderMove /\ KeptByParts
      /\ UNCHANGED <<stopPc, muxPc, mstopPc, mRunning, videoqAbort, abortMuxer>>
    BY EncoderMoves
<1>3. state \in {"INITIALIZED", "ASYNC_PREPARING", "PREPARED", "REQ_START", "STARTED",
                 "REQ_STOP", "STOPPED", "ERROR"}
    BY DEF RecInv, TypeOK, States
<1>4. \/ state = "REQ_START" /\ encPc # "none"
      \/ state = "STARTED" /\ encPc \notin {"none", "created", "notify"} /\ msgq' = msgq
      \/ state = "REQ_STOP" /\ ~EncoderIsStopped /\ encPc \notin Enc!ReadyPcs /\ msgq' = msgq
    <2>1. encPc # "none"
        BY <1>2 DEF EncoderMove, Enc!LoopPcs, Enc!EndPcs
    <2>2. encPc \notin {"created", "notify"} => msgq' = msgq
        BY <1>2 DEF EncoderMove
    <2>3. state \in {"REQ_START", "STARTED", "REQ_STOP"}
        BY <1>1, <1>3, <2>1 DEF EncoderUp, Flow
    <2>4. state = "REQ_STOP" => ~EncoderIsStopped /\ encPc \notin Enc!ReadyPcs
        BY <1>1, <2>1 DEF EncoderUp, Flow, EncoderIsStopped, Enc!ReadyPcs, Enc!LoopPcs
    <2>5. state = "STARTED" => encPc \notin {"created", "notify"}
        BY <1>1, <2>1 DEF EncoderUp, Enc!LoopPcs
    <2> QED BY <2>1, <2>2, <2>3, <2>4, <2>5 DEF Enc!ReadyPcs
<1>5. state = "REQ_START" => encPc' # "none"
    BY <1>1, <1>2, <1>4 DEF EncoderUp, EncoderMove, Enc!ReadyPcs, Enc!LoopPcs, Enc!EndPcs
<1> USE <1>2 DEF KeptByParts
<1>6. Flow' /\ (EncoderIsStopped' <=> EncoderIsStopped)
    <2>1. CASE state = "REQ_START"
        <3>1. CASE encPc = "created"
            <4>1. encPc' = "notify" /\ msgq' = msgq
                BY <1>2, <3>1 DEF EncoderMove, Enc!LoopPcs, Enc!EndPcs
            <4> QED BY <1>1, <2>1, <3>1, <4>1 DEF Flow, EncoderIsStopped, Carried
        <3>2. CASE encPc = "notify"
            <4>1. encPc' = "prepare" /\ msgq' = Append(msgq, "STARTED")
                BY <1>2, <3>2 DEF EncoderMove, Enc!LoopPcs, Enc!EndPcs
            <4>2. msgq = <<>> /\ ctlPc = "idle" /\ loopPc \in {"arm", "wait"}
                BY <1>1, <2>1, <3>2 DEF Flow
            <4>3. msgq' = <<"STARTED">>
                BY <4>1, <4>2
            <4> QED BY <1>1, <2>1, <3>2, <4>1, <4>2, <4>3 DEF Flow, EncoderIsStopped,
                    Carried
        <3>3. CASE encPc \notin {"created", "notify"}
            <4>1. encPc' \notin {"none", "created", "notify"} /\ msgq' = msgq
                BY <1>2, <1>4, <2>1, <3>3, <1>5 DEF EncoderMove, Enc!LoopPcs, Enc!EndPcs
            <4> QED BY <1>1, <1>4, <2>1, <3>3, <4>1 DEF Flow, EncoderIsStopped, Carried
        <3> QED BY <3>1, <3>2, <3>3
    <2>2. CASE state # "REQ_START"
        BY <1>1, <1>4, <2>2 DEF Flow, EncoderIsStopped, Carried, Asked, Resting
    <2> QED BY <2>1, <2>2
<1>7. loopPc # "stopEncoder" /\ encPc \in Enc!LoopPcs => ~rgbaAbort
    BY <1>1 DEF EncoderStopped
<1>8. EncoderUp'
    <2>1. CASE state = "REQ_START"
        BY <1>1, <1>4, <1>7, <2>1 DEF Flow, EncoderUp, EncoderMove, EncoderIsStopped,
              Carried, Asked, Resting, Enc!ReadyPcs, Enc!LoopPcs, Enc!EndPcs
    <2>2. CASE state = "STARTED"
        BY <1>1, <1>4, <1>7, <2>2 DEF Flow, EncoderUp, EncoderMove, EncoderIsStopped,
              Carried, Asked, Resting, Enc!ReadyPcs, Enc!LoopPcs, Enc!EndPcs
    <2>3. CASE state = "REQ_STOP"
        BY <1>1, <1>4, <1>6, <1>7, <2>3 DEF Flow, EncoderUp, EncoderMove,
              EncoderIsStopped, Carried, Asked, Resting, Enc!ReadyPcs, Enc!LoopPcs,
              Enc!EndPcs
    <2> QED BY <1>4, <2>1, <2>2, <2>3
<1>9. OnePut' /\ MuxerUp' /\ MuxerStopped' /\ StillPrepared'
    <2>1. \A p \in Putters : call[p] # "idle" => encPc' \in Enc!LoopPcs
        BY <1>1, <1>7 DEF OnePut, Flow, Resting, EncoderMove, Enc!LoopPcs, Enc!EndPcs
    <2>2. OnePut'
        BY <1>1, <2>1 DEF OnePut
    <2>3. encPc # "none"
        BY DEF EncoderMove, Enc!LoopPcs, Enc!EndPcs
    <2>4. MuxerUp' /\ MuxerStopped'
        BY <1>1, <1>6, <2>3 DEF MuxerUp, MuxerStopped, Creating,
              Mux!MuxRunningTracksThread
    <2>5. StillPrepared'
        BY <1>1, <1>4, <1>5 DEF StillPrepared
    <2> QED BY <2>2, <2>4, <2>5
<1>10. EncoderStopped'
    <2> USE <1>1 DEF EncoderThread, EncoderStopped, Enc!RunningTracksThread, Enc!LoopPcs, Enc!putVars,
            Enc!encVars, Enc!queueVars
    <2>1. CASE Enc!SetRunning \/ Enc!NotifyStarted \/ Enc!ResetAbort \/ Enc!ResetQueue
                 \/ Enc!OpenCodec \/ Enc!OpenFails
        BY <2>1 DEF Enc!SetRunning, Enc!NotifyStarted, Enc!ResetAbort,
              Enc!ResetQueue, Enc!OpenCodec, Enc!OpenFails
    <2>2. CASE Enc!LoopTop \/ Enc!LoopSize \/ Enc!LoopAbortQueue \/ Enc!GetFrame
                 \/ Enc!GetAborted
        BY <2>2 DEF Enc!LoopTop, Enc!LoopSize, Enc!LoopAbortQueue, Enc!GetFrame,
              Enc!GetAborted
    <2>3. CASE Enc!EncodeNoPacket \/ Enc!EncodePacket \/ Enc!EncodePacketRefused \/ Enc!EncodeFails
        BY <2>3 DEF Enc!Encoded, Enc!EncodeFails, Enc!EncodeNoPacket, Enc!EncodePacket,
              Enc!EncodePacketRefused
    <2>4. CASE Enc!FlushPacket \/ Enc!FlushEnds \/ Enc!FlushFails
        BY <2>4 DEF Enc!FlushPacket, Enc!FlushEnds, Enc!FlushFails
    <2>5. CASE Enc!ClearQueue \/ Enc!RearmAbort \/ Enc!RearmQueue \/ Enc!Exit
        BY <2>5 DEF Enc!ClearQueue, Enc!RearmAbort, Enc!RearmQueue, Enc!Exit
    <2> QED BY <2>1, <2>2, <2>3, <2>4, <2>5 DEF Enc!EncoderStep
<1>11. NothingLeft'
    <2>1. /\ Unclaimed' <=> Unclaimed
          /\ state = "REQ_STOP" /\ EncoderIsStopped => FALSE
          /\ state # "STOPPED"
        BY <1>4 DEF Unclaimed
    <2>2. /\ encPc' \in {"rearm", "rearmQ", "exit", "none"} => rgbaq' = <<>>
          /\ encPc' \in {"clear", "rearm", "rearmQ", "exit", "none"} => codec' = <<>>
          /\ accepted = <<>> => rgbaq' = <<>> /\ hand' = 0 /\ codec' = <<>> /\ videoq' = <<>>
        <3>1. /\ encPc \in {"rearm", "rearmQ", "exit", "none"} => rgbaq = <<>>
              /\ encPc \in {"clear", "rearm", "rearmQ", "exit", "none"} => codec = <<>>
              /\ accepted = <<>> => rgbaq = <<>> /\ hand = 0 /\ codec = <<>> /\ videoq = <<>>
              /\ hand # 0 <=> encPc = "process"
            BY <1>1, Holds DEF NothingLeft, RecInv
        <3> USE <3>1 DEF EncoderThread, Enc!putVars, Enc!encVars, Enc!queueVars, Enc!None
        <3>2. CASE Enc!SetRunning \/ Enc!NotifyStarted \/ Enc!ResetAbort \/ Enc!ResetQueue
                 \/ Enc!OpenCodec \/ Enc!OpenFails
            <4>1. "open" \notin Faults
                BY DEF Patient
            <4> QED BY <3>2, <4>1 DEF Enc!SetRunning, Enc!NotifyStarted, Enc!ResetAbort,
              Enc!ResetQueue, Enc!OpenCodec, Enc!OpenFails
        <3>3. CASE Enc!LoopTop \/ Enc!LoopSize \/ Enc!LoopAbortQueue \/ Enc!GetFrame
                 \/ Enc!GetAborted
            BY <3>3 DEF Enc!LoopTop, Enc!LoopSize, Enc!LoopAbortQueue, Enc!GetFrame,
              Enc!GetAborted
        <3>4. CASE Enc!EncodeNoPacket \/ Enc!EncodePacket \/ Enc!EncodePacketRefused \/ Enc!EncodeFails
            BY <3>4 DEF Enc!Encoded, Enc!EncodeFails, Enc!EncodeNoPacket,
                  Enc!EncodePacket, Enc!EncodePacketRefused
        <3>5. CASE Enc!FlushPacket \/ Enc!FlushEnds \/ Enc!FlushFails
            BY <3>5 DEF Enc!FlushPacket, Enc!FlushEnds, Enc!FlushFails
        <3>6. CASE Enc!ClearQueue \/ Enc!RearmAbort \/ Enc!RearmQueue \/ Enc!Exit
            BY <3>6 DEF Enc!ClearQueue, Enc!RearmAbort, Enc!RearmQueue, Enc!Exit
        <3> QED BY <3>2, <3>3, <3>4, <3>5, <3>6 DEF Enc!EncoderStep
    <2> QED BY <1>1, <1>6, <2>1, <2>2 DEF NothingLeft
<1> QED BY <1>6, <1>8, <1>9, <1>10, <1>11 DEF PatientInv

LEMMA EncoderStopPatient ==
    ASSUME Patient, RecInv, PatientInv, EncoderStop
    PROVE  PatientInv'
<1>1. /\ Flow /\ EncoderUp /\ EncoderStopped /\ OnePut /\ MuxerUp /\ MuxerStopped
      /\ NothingLeft /\ StillPrepared
    BY DEF PatientInv
<1>2. /\ KeptByParts
      /\ UNCHANGED <<encPc, muxPc, mstopPc, mRunning, videoqAbort, abortMuxer, msgq,
                     rgbaq, hand, codec, videoq>>
      /\ stopPc # "idle"
    <2> USE DEF Enc!putVars, Enc!queueVars, Enc!encVars
    <2>1. /\ UNCHANGED <<encPc, putPc, msgq, rgbaq, hand, codec, videoq>>
          /\ stopPc # "idle"
        BY DEF EncoderStop, Enc!StopStep, Enc!StopAbort, Enc!StopSize,
           Enc!StopAbortQueue, Enc!StopWait, Enc!StopJoin
    <2> QED BY <2>1 DEF EncoderStop, KeptByParts, muxVars, recVars, setVars, loopVars,
            appVars, histVars
<1> USE <1>2 DEF KeptByParts
<1>3. loopPc = "stopEncoder" /\ encPc \notin Enc!ReadyPcs
    BY <1>1 DEF EncoderStopped, EncoderUp
<1>4. EncoderStopped'
    <2>1. /\ stopPc' = "idle" => encPc = "none"
          /\ vRunning' = vRunning \/ (vRunning' = FALSE /\ encPc = "none")
        BY <1>1, <1>3 DEF EncoderStop, Enc!StopStep, Enc!StopAbort, Enc!StopSize,
           Enc!StopAbortQueue, Enc!StopWait, Enc!StopJoin, Enc!encVars, EncoderStopped,
           Enc!RunningTracksThread, Enc!ReadyPcs
    <2> QED BY <1>1, <1>3, <2>1 DEF EncoderStopped, Enc!RunningTracksThread
<1>5. Flow' /\ EncoderUp' /\ OnePut' /\ StillPrepared'
    BY <1>1 DEF Flow, EncoderUp, OnePut, StillPrepared, EncoderIsStopped, Carried, Asked,
          Resting
<1>6. MuxerUp' /\ MuxerStopped' /\ NothingLeft'
    BY <1>1 DEF MuxerUp, MuxerStopped, NothingLeft, Creating, Unclaimed,
          EncoderIsStopped, Carried, Mux!MuxRunningTracksThread
<1> QED BY <1>4, <1>5, <1>6 DEF PatientInv
-----------------------------------------------------------------------------
(* The mux thread, and the stop of the muxer. *)

\* Where the thread goes.
MuxerMove ==
    \/ muxPc \in Mux!StartPcs \cup Mux!OpenPcs
         /\ muxPc' \in Mux!StartPcs \cup Mux!OpenPcs \cup {"loop"}
    \/ muxPc \in Mux!WritePcs /\ muxPc' \in Mux!WritePcs
    \/ muxPc \in Mux!WritePcs /\ videoqAbort /\ muxPc' = "drain"
    \/ muxPc = "drain" /\ muxPc' = "trailer" /\ videoq' = <<>>
    \/ /\ \/ muxPc = "trailer" /\ muxPc' = "exit"
          \/ muxPc = "exit" /\ muxPc' = "close"
          \/ muxPc = "close" /\ muxPc' = "none"
       /\ videoq' = videoq

LEMMA MuxerMoves ==
    ASSUME Patient, MuxThread, muxPc # "fail"
    PROVE  /\ MuxerMove /\ KeptByParts
           /\ videoq = <<>> => videoq' = <<>>
           /\ UNCHANGED <<encPc, stopPc, vRunning, abort, rgbaAbort, rgbaq, hand, codec,
                          mstopPc, msgq>>
<1> USE DEF MuxThread
<1>1. MuxFaults = {}
    BY DEF Patient
<1>2. MuxerMove /\ (videoq = <<>> => videoq' = <<>>)
    <2> USE DEF MuxerMove, Mux!StartPcs, Mux!OpenPcs, Mux!WritePcs, Mux!videoqVars
    <2>1. CASE Mux!MuxRunning \/ Mux!MuxFlush \/ Mux!MuxStartQueue \/ Mux!MuxClearAbort
                  \/ Mux!OpenOutput \/ Mux!WriteHeader \/ Mux!MuxFails
        BY <2>1, <1>1 DEF Mux!MuxRunning, Mux!MuxFlush, Mux!MuxStartQueue,
              Mux!MuxClearAbort, Mux!OpenOutput, Mux!WriteHeader, Mux!MuxFails
    <2>2. CASE Mux!WriteTop \/ Mux!WriteSize \/ Mux!WriteAbortQueue \/ Mux!GetPacket
                 \/ Mux!GetPacketAborted \/ Mux!WritePacket \/ Mux!WriteFails
        BY <2>2, <1>1 DEF Mux!WriteTop, Mux!WriteSize, Mux!WriteAbortQueue, Mux!GetPacket,
              Mux!GetPacketAborted, Mux!WritePacket, Mux!WriteFails
    <2>3. CASE Mux!DropRest \/ Mux!WriteTrailer \/ Mux!PostError \/ Mux!MuxNotRunning \/ Mux!CloseFile
        BY <2>3, <1>1 DEF Mux!DropRest, Mux!WriteTrailer, Mux!PostError,
              Mux!MuxNotRunning, Mux!CloseFile
    <2> QED BY <2>1, <2>2, <2>3 DEF Mux!MuxStep
<1>3. UNCHANGED <<mstopPc, msgq>>
    <2> USE DEF Mux!videoqVars
    <2>1. CASE Mux!MuxRunning \/ Mux!MuxFlush \/ Mux!MuxStartQueue \/ Mux!MuxClearAbort
                  \/ Mux!OpenOutput \/ Mux!WriteHeader \/ Mux!MuxFails
        BY <2>1 DEF Mux!MuxRunning, Mux!MuxFlush, Mux!MuxStartQueue, Mux!MuxClearAbort,
              Mux!OpenOutput, Mux!WriteHeader, Mux!MuxFails
    <2>2. CASE Mux!WriteTop \/ Mux!WriteSize \/ Mux!WriteAbortQueue \/ Mux!GetPacket
                 \/ Mux!GetPacketAborted \/ Mux!WritePacket \/ Mux!WriteFails
        BY <2>2 DEF Mux!WriteTop, Mux!WriteSize, Mux!WriteAbortQueue, Mux!GetPacket,
              Mux!GetPacketAborted, Mux!WritePacket, Mux!WriteFails
    <2>3. CASE Mux!DropRest \/ Mux!WriteTrailer \/ Mux!PostError \/ Mux!MuxNotRunning \/ Mux!CloseFile
        BY <2>3 DEF Mux!DropRest, Mux!WriteTrailer, Mux!PostError, Mux!MuxNotRunning,
              Mux!CloseFile
    <2> QED BY <2>1, <2>2, <2>3 DEF Mux!MuxStep
<1> QED BY <1>2, <1>3 DEF KeptByParts, encVars, recVars, setVars, loopVars, appVars,
        histVars

LEMMA MuxerPatient ==
    ASSUME Patient, RecInv, PatientInv, MuxThread
    PROVE  PatientInv'
<1>1. /\ Flow /\ EncoderUp /\ EncoderStopped /\ OnePut /\ MuxerUp /\ MuxerStopped
      /\ NothingLeft /\ StillPrepared
    BY DEF PatientInv
<1>2. muxPc # "fail"
    BY <1>1 DEF MuxerStopped
<1>3. /\ MuxerMove /\ KeptByParts
      /\ videoq = <<>> => videoq' = <<>>
      /\ UNCHANGED <<encPc, stopPc, vRunning, abort, rgbaAbort, rgbaq, hand, codec,
                     mstopPc, msgq>>
    BY <1>2, MuxerMoves
<1> USE <1>3 DEF KeptByParts
<1>4. Flow' /\ EncoderUp' /\ EncoderStopped' /\ StillPrepared'
    BY <1>1 DEF Flow, EncoderUp, EncoderStopped, StillPrepared, EncoderIsStopped, Carried,
          Asked, Resting, Enc!RunningTracksThread
<1>5. (EncoderIsStopped' <=> EncoderIsStopped) /\ (Creating' <=> Creating)
      /\ (Unclaimed' <=> Unclaimed)
    BY DEF EncoderIsStopped, Carried, Creating, Unclaimed
<1>6. state \in {"INITIALIZED", "ASYNC_PREPARING", "PREPARED", "REQ_START", "STARTED",
                 "REQ_STOP", "STOPPED", "ERROR"}
    BY DEF RecInv, TypeOK, States
<1>7. state # "REQ_STOP" \/ ~EncoderIsStopped => mstopPc = "idle"
    <2>1. loopPc = "stopMuxer" => state = "REQ_STOP" /\ EncoderIsStopped
        BY <1>1, <1>6 DEF Flow, Resting, Carried, Asked, EncoderIsStopped
    <2> QED BY <1>1, <2>1 DEF MuxerStopped
<1>8. mstopPc = "idle" /\ muxPc \in Mux!WritePcs => ~videoqAbort
    BY <1>1 DEF MuxerStopped
<1>9. muxPc # "none"
    BY DEF MuxerMove, Mux!StartPcs, Mux!OpenPcs, Mux!WritePcs
<1>10. muxPc = "close" => muxPc' = "none"
    BY DEF MuxerMove, Mux!StartPcs, Mux!OpenPcs, Mux!WritePcs
<1>11. MuxerUp' /\ OnePut'
    <2>1. CASE state \in {"INITIALIZED", "ASYNC_PREPARING", "PREPARED", "REQ_START", "STOPPED"}
        BY <1>1, <1>5, <1>9, <1>10, <2>1 DEF MuxerUp, OnePut
    <2>2. CASE state = "STARTED"
        <3>1. CASE startMux \/ Creating
            BY <1>1, <1>5, <1>9, <1>10, <2>2, <3>1 DEF MuxerUp, OnePut
        <3>2. CASE ~(startMux \/ Creating)
            <4>1. muxPc' \in Mux!StartPcs \cup Mux!OpenPcs \cup Mux!WritePcs
                BY <1>1, <1>7, <1>8, <2>2, <3>2 DEF MuxerUp, MuxerMove, Mux!StartPcs,
                      Mux!OpenPcs, Mux!WritePcs
            <4> QED BY <1>1, <1>5, <2>2, <3>2, <4>1 DEF MuxerUp, OnePut
        <3> QED BY <3>1, <3>2
    <2>3. CASE state = "REQ_STOP" /\ ~EncoderIsStopped
        <3>1. ~startMux /\ muxPc \in Mux!WritePcs
            BY <1>1, <1>9, <2>3 DEF MuxerUp
        <3>2. muxPc' \in Mux!WritePcs
            BY <1>7, <1>8, <2>3, <3>1 DEF MuxerMove, Mux!StartPcs, Mux!OpenPcs,
                  Mux!WritePcs
        <3> QED BY <1>1, <1>5, <1>9, <2>3, <3>1, <3>2 DEF MuxerUp, OnePut
    <2>4. CASE state = "REQ_STOP" /\ EncoderIsStopped
        <3>1. muxPc \notin Mux!StartPcs \cup Mux!OpenPcs /\ ~startMux
            BY <1>1, <1>9, <2>4 DEF MuxerUp
        <3>2. muxPc' \notin Mux!StartPcs \cup Mux!OpenPcs
            BY <3>1 DEF MuxerMove, Mux!StartPcs, Mux!OpenPcs, Mux!WritePcs
        <3> QED BY <1>1, <1>5, <1>9, <1>10, <2>4, <3>1, <3>2 DEF MuxerUp, OnePut
    <2> QED BY <1>1, <1>6, <2>1, <2>2, <2>3, <2>4 DEF Flow
<1>12. MuxerStopped'
    <2>0. MuxFaults = {} /\ MuxerStopped
        BY <1>1 DEF Patient
    <2> USE <2>0 DEF MuxThread, MuxerStopped, Mux!MuxRunningTracksThread, Mux!OpenPcs, Mux!WritePcs, Mux!videoqVars
    <2>1. CASE Mux!MuxRunning \/ Mux!MuxFlush \/ Mux!MuxStartQueue \/ Mux!MuxClearAbort
                  \/ Mux!OpenOutput \/ Mux!WriteHeader \/ Mux!MuxFails
        BY <2>1 DEF Mux!MuxRunning, Mux!MuxFlush, Mux!MuxStartQueue, Mux!MuxClearAbort,
              Mux!OpenOutput, Mux!WriteHeader, Mux!MuxFails
    <2>2. CASE Mux!WriteTop \/ Mux!WriteSize \/ Mux!WriteAbortQueue \/ Mux!GetPacket
                 \/ Mux!GetPacketAborted \/ Mux!WritePacket \/ Mux!WriteFails
        BY <2>2 DEF Mux!WriteTop, Mux!WriteSize, Mux!WriteAbortQueue, Mux!GetPacket,
              Mux!GetPacketAborted, Mux!WritePacket, Mux!WriteFails
    <2>3. CASE Mux!DropRest \/ Mux!WriteTrailer \/ Mux!PostError \/ Mux!MuxNotRunning \/ Mux!CloseFile
        BY <2>3 DEF Mux!DropRest, Mux!WriteTrailer, Mux!PostError, Mux!MuxNotRunning,
              Mux!CloseFile
    <2> QED BY <2>1, <2>2, <2>3 DEF Mux!MuxStep
<1>13. NothingLeft'
    <2>1. state = "REQ_STOP" /\ EncoderIsStopped /\ muxPc' \in {"trailer", "exit", "close", "none"}
            => videoq' = <<>>
        BY <1>1 DEF NothingLeft, MuxerMove, MuxerUp, Mux!StartPcs, Mux!OpenPcs,
              Mux!WritePcs
    <2> QED BY <1>1, <1>5, <2>1 DEF NothingLeft
<1> QED BY <1>4, <1>11, <1>12, <1>13 DEF PatientInv

LEMMA MuxerStopPatient ==
    ASSUME Patient, RecInv, PatientInv, MuxStop
    PROVE  PatientInv'
<1>1. /\ Flow /\ EncoderUp /\ EncoderStopped /\ OnePut /\ MuxerUp /\ MuxerStopped
      /\ NothingLeft /\ StillPrepared
    BY DEF PatientInv
<1>2. /\ KeptByParts
      /\ UNCHANGED <<encPc, stopPc, vRunning, abort, rgbaAbort, muxPc, msgq, rgbaq, hand,
                     codec, videoq>>
      /\ mstopPc # "idle"
    <2>1. UNCHANGED <<muxPc, msgq, videoq>> /\ mstopPc # "idle"
        BY DEF MuxStop, Mux!MStopStep, Mux!MStopSize, Mux!MStopAbortQueue, Mux!MStopAbort,
           Mux!MStopWait, Mux!MStopJoin, Mux!videoqVars, Mux!muxVars
    <2> QED BY <2>1 DEF MuxStop, KeptByParts, encVars, recVars, setVars, loopVars,
            appVars, histVars
<1> USE <1>2 DEF KeptByParts
<1>3. /\ loopPc = "stopMuxer" /\ EncoderIsStopped /\ EncoderIsStopped' /\ state = "REQ_STOP"
      /\ muxPc \notin Mux!StartPcs
    <2>1. loopPc = "stopMuxer" /\ EncoderIsStopped /\ EncoderIsStopped'
        BY <1>1 DEF MuxerStopped, EncoderIsStopped
    <2>2. state \in {"INITIALIZED", "ASYNC_PREPARING", "PREPARED", "REQ_START", "STARTED",
                     "REQ_STOP", "STOPPED", "ERROR"}
        BY DEF RecInv, TypeOK, States
    <2>3. state = "REQ_STOP"
        BY <1>1, <2>1, <2>2 DEF Flow, Resting, Carried, Asked
    <2> QED BY <1>1, <2>1, <2>3 DEF MuxerUp
<1>4. /\ mstopPc' = "idle" => muxPc \in {"close", "none"}
      /\ mRunning' = mRunning \/ (mRunning' = FALSE /\ muxPc = "none")
      /\ abortMuxer => abortMuxer'
    BY <1>1, <1>3 DEF MuxStop, Mux!MStopStep, Mux!MStopSize, Mux!MStopAbortQueue,
          Mux!MStopAbort, Mux!MStopWait, Mux!MStopJoin, Mux!videoqVars, Mux!muxVars,
          MuxerStopped, Mux!MuxRunningTracksThread, Mux!StartPcs
<1>5. MuxerUp' /\ MuxerStopped'
    BY <1>1, <1>3, <1>4 DEF MuxerUp, MuxerStopped, Creating, Mux!MuxRunningTracksThread,
          Mux!OpenPcs, Mux!WritePcs
<1>6. Flow' /\ EncoderUp' /\ EncoderStopped' /\ OnePut' /\ StillPrepared' /\ NothingLeft'
    BY <1>1 DEF Flow, EncoderUp, EncoderStopped, OnePut, StillPrepared, NothingLeft,
          Unclaimed, EncoderIsStopped, Carried, Asked, Resting, Enc!RunningTracksThread
<1> QED BY <1>5, <1>6 DEF PatientInv
-----------------------------------------------------------------------------
(* The invariant, and what follows from it. *)

LEMMA PatientStep ==
    ASSUME Patient, RecInv, PatientInv, NoStrays, [Next]_vars
    PROVE  PatientInv'
<1>1. CASE UNCHANGED vars
    BY <1>1 DEF vars, encVars, muxVars, recVars, setVars, loopVars, appVars, histVars,
       PatientInv, Flow, EncoderUp, EncoderStopped, OnePut, MuxerUp, MuxerStopped,
       NothingLeft, StillPrepared, Creating, Unclaimed, EncoderIsStopped, Carried, Asked,
       Resting, Enc!RunningTracksThread, Mux!MuxRunningTracksThread
<1>2. CASE PrepareRefused
    <2>1. UNCHANGED <<told, state, msgq>> /\ UNCHANGED <<setVars, startMux, loopVars>>
        BY <1>2 DEF PrepareRefused
    <2>2. /\ UNCHANGED muxVars /\ UNCHANGED <<videoq, ctlPc, call, histVars>>
          /\ UNCHANGED <<abort, rgbaq, rgbaAbort, vRunning, encPc, hand, codec, stopPc, putPc>>
        BY <1>2 DEF PrepareRefused, InitEncoder
    <2> QED BY <2>1, <2>2 DEF muxVars, setVars, loopVars, histVars,
       PatientInv, Flow, EncoderUp, EncoderStopped, OnePut, MuxerUp, MuxerStopped,
       NothingLeft, StillPrepared, Creating, Unclaimed, EncoderIsStopped, Carried, Asked,
       Resting, Enc!RunningTracksThread, Mux!MuxRunningTracksThread
<1> QED BY <1>1, <1>2, CallPatient, LoopPatient, PutPatient, EncoderPatient,
           EncoderStopPatient, MuxerPatient, MuxerStopPatient, NoStrayStep DEF Next

LEMMA PatientInvariant ==
    ASSUME Patient
    PROVE  Spec => [](RecInv /\ PatientInv /\ NoStrays)
<1>1. RecInv /\ PatientInv /\ NoStrays /\ [Next]_vars
        => (RecInv /\ PatientInv /\ NoStrays)'
    BY RecStep, PatientStep, NoStraysStep
<1> QED BY <1>1, RecInit, PatientInit, NoStraysInit, PTL DEF Spec

\* A patient application never has two threads of a kind: NoClash.  When a start is
\* taken, the encoder of the last session has been joined, and when a mux thread is
\* created the one before it has closed its file.
THEOREM ThreadsNeverClash ==
    ASSUME Patient
    PROVE  Spec => []NoClash
<1>1. RecInv /\ PatientInv => NoClash
    BY NoSecondThread
<1> QED BY <1>1, PatientInvariant, PTL

\* When no thread encodes, no thread has a frame.
LEMMA NothingHeld ==
    ASSUME EncInv, NoStrays, encPc # "process"
    PROVE  Hands = {0}
<1>1. \A t \in Threads : HandOf(t) = 0
    BY DEF EncInv, WhoHolds, NoStrays, PcOf, Threads
<1>2. /\ 0 \in Threads /\ HandOf(0) = hand
      /\ \A s \in 1..MaxStarts : s \in Threads /\ HandOf(s) = strays[s].hand
    BY RecorderAssumption DEF Threads, HandOf
<1> QED BY <1>1, <1>2 DEF Hands

\* When a patient application is told STOPPED, both threads have ended, or the mux
\* thread only closes its file; no frame or packet is queued; and every frame
\* buffer is freed: QuietWhenStopped.
THEOREM StoppedIsQuiet ==
    ASSUME Patient
    PROVE  Spec => []QuietWhenStopped
<1>1. RecInv /\ PatientInv /\ NoStrays => QuietWhenStopped
    <2> SUFFICES ASSUME RecInv, PatientInv, NoStrays, told = "STOPPED" PROVE QuietWhenStopped
        BY DEF QuietWhenStopped
    <2>1. state = "STOPPED"
        BY DEF PatientInv, Flow
    <2>2. encPc = "none" /\ muxPc \in {"close", "none"} /\ rgbaq = <<>> /\ videoq = <<>>
        BY <2>1 DEF PatientInv, EncoderUp, MuxerUp, NothingLeft
    <2>3. EncodersAt = {"none"} /\ MuxersAt \subseteq {"close", "none"}
        BY <2>2 DEF NoStrays, EncodersAt, MuxersAt
    <2>4. WhoHolds /\ FramesOwned
        BY OwnedFrames DEF RecInv, EncInv
    <2>5. Hands = {0}
        BY <2>2, NothingHeld DEF RecInv
    <2>6. \A p \in Putters : putFrame[p] = 0
        BY <2>1, <2>4, NoPut DEF WhoHolds
    <2>7. live = {}
        BY <2>2, <2>4, <2>5, <2>6, RangeEmpty DEF FramesOwned
    <2> QED BY <2>2, <2>3, <2>7 DEF QuietWhenStopped
<1> QED BY <1>1, PatientInvariant, PTL

\* A patient application is never told an error: no request is refused and no frame
\* is, although the states change under put and STARTED is posted before the encoder
\* is ready: NoError.
THEOREM PatientSeesNoError ==
    ASSUME Patient
    PROVE  Spec => []NoError
<1>1. PatientInv => NoError
    BY DEF PatientInv, Flow, NoError
<1> QED BY <1>1, PatientInvariant, PTL

\* Only a start creates an encoder's thread.
LEMMA StartsKept ==
    ASSUME Next, ~HandleStart, ~HandleStartAgain, ~StrayStep
    PROVE  starts' = starts
<1>1. CASE PrepareFirst \/ PrepareAgain \/ PrepareRefused \/ CallStart \/ CallStop \/ PostRequest
    BY <1>1 DEF PrepareFirst, PrepareAgain, PrepareRefused, CallStart, CallStop,
          PostRequest, InitEncoder, encVars
<1>2. CASE LoopStep
    BY <1>2 DEF LoopStep, TakeMessage, HandleFlush, HandlePrepared, HandleEvent, ArmMux,
          RefuseStart, HandleStop, StopMuxer, StopDone, RefuseStop, Enc!StopBegin, encVars
<1>3. ASSUME NEW p \in Putters, PutCall(p) \/ PutStep(p)
      PROVE  starts' = starts
    <2>1. CASE PutCall(p) \/ PutSize(p) \/ PutNoMemory(p) \/ PutRefused(p) \/ ClaimMux(p)
                 \/ CreateMux(p) \/ CreateMuxAgain(p)
        BY <2>1 DEF PutCall, PutSize, PutNoMemory, PutRefused, ClaimMux, CreateMux,
              CreateMuxAgain, encVars
    <2>2. CASE PutCopy(p) \/ Enqueued(p) \/ NotEnqueued(p)
        BY <2>2 DEF PutCopy, Enqueued, NotEnqueued, Enc!PutBegin, Enc!PutReturn
    <2>3. CASE Enqueue(p)
        BY <2>3 DEF Enqueue, Unconfigured, Enc!EnqueueChecked, Enc!EnqueueRefused,
              Enc!QueuePut, Enc!QueuePutFails, Enc!Reject
    <2> QED BY <1>3, <2>1, <2>2, <2>3 DEF PutStep
<1>4. CASE EncoderThread \/ EncoderStop
    BY <1>4 DEF EncoderThread, EncoderStop, Enc!EncoderStep, Enc!SetRunning,
          Enc!NotifyStarted, Enc!ResetAbort, Enc!ResetQueue, Enc!OpenCodec, Enc!OpenFails,
          Enc!LoopTop, Enc!LoopSize, Enc!LoopAbortQueue, Enc!GetFrame, Enc!GetAborted,
          Enc!EncodeNoPacket, Enc!EncodePacket, Enc!EncodePacketRefused, Enc!Encoded,
          Enc!EncodeFails, Enc!FlushPacket, Enc!FlushEnds, Enc!FlushFails, Enc!ClearQueue,
          Enc!RearmAbort, Enc!RearmQueue, Enc!Exit, Enc!StopStep, Enc!StopAbort,
          Enc!StopSize, Enc!StopAbortQueue, Enc!StopWait, Enc!StopJoin
<1>5. CASE MuxThread \/ MuxStop
    BY <1>5 DEF MuxThread, MuxStop, encVars
<1> QED BY <1>1, <1>2, <1>3, <1>4, <1>5 DEF Next

\* An encoder is started only on a recorder that was prepared for it:
\* StartNeedsPrepared.
THEOREM StartsArePrepared ==
    ASSUME Patient
    PROVE  Spec => StartNeedsPrepared
<1>1. RecInv /\ PatientInv /\ NoStrays /\ [Next]_vars => [starts' # starts => prepared]_vars
    <2> SUFFICES ASSUME RecInv, PatientInv, NoStrays, Next, starts' # starts PROVE prepared
        BY DEF vars, encVars
    <2>1. CASE HandleStart
        <3>1. state \in {"INITIALIZED", "ASYNC_PREPARING", "PREPARED", "REQ_START", "STARTED",
                        "REQ_STOP", "STOPPED", "ERROR"}
            BY DEF RecInv, TypeOK, States
        <3>2. loopPc = "handle" /\ message = "REQ_START" /\ encPc = "none"
            BY <2>1 DEF HandleStart, Enc!Start
        <3>3. state = "REQ_START"
            BY <3>1, <3>2 DEF PatientInv, Flow, Resting, Carried, Asked
        <3> QED BY <3>2, <3>3 DEF PatientInv, StillPrepared
    <2>2. CASE ~HandleStart
        <3>1. starts' = starts
            BY <2>2, NoSecondThread, NoStrayStep, StartsKept
        <3> QED BY <3>1
    <2> QED BY <2>1, <2>2
<1> QED BY <1>1, PatientInvariant, PTL DEF Spec, StartNeedsPrepared
-----------------------------------------------------------------------------
(* The frames of a session, when nothing fails.  They were allocated one   *)
(* after the other, so every place that holds frames holds a run of        *)
(* consecutive numbers, and the runs follow each other from the file back  *)
(* to the queue of frames.                                                 *)

Reliable == Patient /\ "in_order" \in Client /\ Faults = {}

\* The sequence is a run of consecutive numbers that ends with n.
RunTo(s, n) == \A i \in 1..Len(s) : s[i] = n - Len(s) + i

Held == \E p \in Putters : putFrame[p] # 0

\* The last frame that was accepted, ...
Last == IF Held THEN nextFrame - 2 ELSE nextFrame - 1

\* ... that the encoder thread took, that entered the codec, that left it,
\* that the mux thread took, and that is written.
Got == Last - Len(rgbaq)
Entered == IF hand = 0 THEN Got ELSE Got - 1
Left == Entered - Len(codec)
Taken == Left - Len(videoq)
Filed == IF packet = 0 THEN Taken ELSE Taken - 1

\* The mux thread of this session has begun its file, or has ended.
Writing == ~startMux /\ ~Creating /\ muxPc # "created" /\ accepted # <<>>

FileTypes ==
    /\ codec \in Seq(Frame) /\ videoq \in Seq(Frame) /\ written \in Seq(Frame)
    /\ packet \in Frame \cup {0}
    /\ frameNum \in Int
    /\ packet # 0 <=> muxPc = "write"

\* The runs, each up to the frame that the next one begins with.
Line ==
    /\ \A p \in Putters : putFrame[p] # 0 => putFrame[p] = Last + 1
    /\ RunTo(accepted, Last)
    /\ RunTo(rgbaq, Last)
    /\ hand # 0 => hand = Got
    /\ RunTo(codec, Entered)
    /\ RunTo(videoq, Left)
    /\ packet # 0 => packet = Taken
    /\ Last - Len(accepted) <= Filed
    /\ Writing => RunTo(written, Filed) /\ Last - Len(accepted) <= Filed - Len(written)

\* The codec is empty where the encoder thread throws it away, ...
CodecDrained ==
    /\ encPc \notin Enc!LoopPcs \cup {"flush"} => codec = <<>>
    /\ encPc \in Enc!LoopPcs => Len(codec) <= frameNum

\* ... and so are the queues where they are aborted or flushed.
QueuesDrained ==
    /\ rgbaAbort /\ encPc \in Enc!LoopPcs => rgbaq = <<>>
    /\ encPc = "abortq" \/ stopPc = "abortq" \/ encPc \in Enc!EndPcs => rgbaq = <<>>
    /\ videoqAbort /\ muxPc \in Mux!WritePcs => videoq = <<>>
    /\ muxPc = "abortq" \/ mstopPc = "abortq" => videoq = <<>>
    /\ muxPc \in {"drain", "trailer", "exit"} => videoq = <<>>

\* The first frame of a session creates the mux thread, which begins a file and
\* ends it.
FileEnded ==
    /\ state = "STARTED" /\ accepted = <<>> => startMux
    /\ \A p \in Putters : putPc[p] = "accepted" \/ call[p] \in {"claim", "create"}
          => accepted # <<>>
    /\ muxPc = "flushq" => written = <<>>
    /\ Writing /\ muxPc \in {"exit", "close", "none"} => file = "complete"

FileInv == FileTypes /\ Line /\ CodecDrained /\ QueuesDrained /\ FileEnded

LEMMA RunEmpty ==
    ASSUME NEW n \in Int
    PROVE  RunTo(<<>>, n)
    BY DEF RunTo

\* The next number makes a longer run.
LEMMA RunAppend ==
    ASSUME NEW s \in Seq(Frame), NEW n \in Int, RunTo(s, n), n + 1 \in Frame
    PROVE  RunTo(Append(s, n + 1), n + 1)
<1>1. Len(Append(s, n + 1)) = Len(s) + 1 /\ Len(s) \in Nat
    BY RangeAppend
<1> SUFFICES ASSUME NEW i \in 1..Len(s) + 1
             PROVE  Append(s, n + 1)[i] = n + 1 - (Len(s) + 1) + i
    BY <1>1 DEF RunTo
<1>2. CASE i = Len(s) + 1
    BY <1>1, <1>2
<1>3. CASE i \in 1..Len(s)
    <2>1. Append(s, n + 1)[i] = s[i]
        BY <1>3
    <2>2. s[i] = n - Len(s) + i
        BY <1>3 DEF RunTo
    <2> QED BY <1>1, <2>1, <2>2
<1> QED BY <1>1, <1>2, <1>3

\* The first number is known, and without it a run remains.
LEMMA RunTail ==
    ASSUME NEW s \in Seq(Frame), NEW n \in Int, RunTo(s, n), s # <<>>
    PROVE  Head(s) = n - Len(s) + 1 /\ RunTo(Tail(s), n)
<1>1. Len(Tail(s)) = Len(s) - 1 /\ Len(s) \in Nat \ {0}
    BY RangeTail
<1>2. Head(s) = n - Len(s) + 1
    BY <1>1 DEF RunTo
<1>3. ASSUME NEW i \in 1..Len(s) - 1
      PROVE  Tail(s)[i] = n - (Len(s) - 1) + i
    <2>1. Tail(s)[i] = s[i + 1]
        BY <1>1, <1>3
    <2>2. s[i + 1] = n - Len(s) + (i + 1)
        BY <1>1, <1>3 DEF RunTo
    <2> QED BY <1>1, <2>1, <2>2
<1> QED BY <1>1, <1>2, <1>3 DEF RunTo

\* Of two runs to one number the shorter is the end of the longer.
LEMMA RunSuffix ==
    ASSUME NEW s \in Seq(Frame), NEW t \in Seq(Frame), NEW n \in Int,
           RunTo(s, n), RunTo(t, n), Len(t) <= Len(s)
    PROVE  \E k \in 0..Len(s) : t = SubSeq(s, k + 1, Len(s))
<1> DEFINE k == Len(s) - Len(t)
<1>1. k \in 0..Len(s) /\ Len(s) \in Nat /\ Len(t) \in Nat /\ Len(s) = k + Len(t)
    OBVIOUS
<1>2. t = SubSeq(s, k + 1, Len(s))
    <2>1. /\ SubSeq(s, k + 1, Len(s)) \in Seq(Frame)
          /\ Len(SubSeq(s, k + 1, Len(s))) = Len(t)
        BY <1>1
    <2>2. ASSUME NEW i \in 1..Len(t)
          PROVE  SubSeq(s, k + 1, Len(s))[i] = t[i]
        <3>1. SubSeq(s, k + 1, Len(s))[i] = s[k + i]
            BY <1>1, <2>2
        <3>2. s[k + i] = n - Len(s) + (k + i)
            BY <1>1, <2>2 DEF RunTo
        <3>3. t[i] = n - Len(t) + i
            BY <2>2 DEF RunTo
        <3> QED BY <1>1, <3>1, <3>2, <3>3
    <2> QED BY <2>1, <2>2
<1> QED BY <1>1, <1>2

LEMMA FileInit == Init => FileInv
<1> SUFFICES ASSUME Init PROVE FileInv
    OBVIOUS
<1> USE DEF Init, Enc!Init, Mux!Init
<1>1. FileTypes /\ CodecDrained /\ QueuesDrained /\ FileEnded
    BY DEF FileTypes, CodecDrained, QueuesDrained, FileEnded, Enc!LoopPcs, Enc!EndPcs,
          Mux!WritePcs, Mux!NoPacket, Writing
<1>2. Last = 0
    BY DEF Last, Held, Enc!None
<1>3. Line
    BY <1>2, RunEmpty DEF Line, Got, Entered, Left, Taken, Filed, Writing, Enc!None,
          Mux!NoPacket
<1> QED BY <1>1, <1>3 DEF FileInv

\* What is counted is a number.
LEMMA LineInts ==
    ASSUME RecInv, FileTypes
    PROVE  /\ Last \in Int /\ Got \in Int /\ Entered \in Int /\ Left \in Int
           /\ Taken \in Int /\ Filed \in Int
           /\ accepted \in Seq(Frame) /\ rgbaq \in Seq(Frame) /\ hand \in Frame \cup {0}
           /\ Len(accepted) \in Nat /\ Len(rgbaq) \in Nat /\ Len(codec) \in Nat
           /\ Len(videoq) \in Nat /\ Len(written) \in Nat
<1>1. /\ accepted \in Seq(Frame) /\ rgbaq \in Seq(Frame) /\ hand \in Frame \cup {0}
      /\ nextFrame \in Int
    BY DEF RecInv, TypeOK, EncInv, EncTypes, Frame
<1>2. /\ Len(accepted) \in Nat /\ Len(rgbaq) \in Nat /\ Len(codec) \in Nat
      /\ Len(videoq) \in Nat /\ Len(written) \in Nat
    BY <1>1 DEF FileTypes
<1> QED BY <1>1, <1>2 DEF Last, Got, Entered, Left, Taken, Filed

\* Most steps do not move a frame.
SameLine ==
    UNCHANGED <<putFrame, nextFrame, accepted, rgbaq, hand, codec, videoq, packet, written>>

LEMMA LineKept ==
    ASSUME Line, SameLine, Writing' => Writing
    PROVE  Line'
    BY DEF Line, SameLine, RunTo, Last, Held, Got, Entered, Left, Taken, Filed

LEMMA CallFile ==
    ASSUME Reliable, RecInv, PatientInv, FileInv,
           PrepareFirst \/ PrepareAgain \/ CallStart \/ CallStop \/ PostRequest
    PROVE  FileInv'
<1>1. Patient /\ FileTypes /\ Line /\ CodecDrained /\ QueuesDrained /\ FileEnded
    BY DEF Reliable, FileInv
<1>2. KeptByCalls /\ UNCHANGED <<putFrame, nextFrame, packet, written, file>>
    BY CallFrame DEF PrepareFirst, PrepareAgain, CallStart, CallStop, PostRequest,
          InitEncoder, encVars, muxVars
<1> USE <1>2 DEF KeptByCalls
<1>3. \/ UNCHANGED <<frameNum, accepted>>
      \/ PrepareFirst /\ frameNum' = 0 /\ accepted' = accepted
      \/ PrepareAgain /\ frameNum' = 0 /\ accepted' = <<>>
    <2>1. CASE CallStart \/ CallStop \/ PostRequest
        BY <2>1 DEF CallStart, CallStop, PostRequest, encVars, histVars
    <2>2. CASE PrepareFirst
        BY <2>2 DEF PrepareFirst, InitEncoder, histVars
    <2>3. CASE PrepareAgain
        BY <2>3 DEF PrepareAgain, InitEncoder
    <2> QED BY <2>1, <2>2, <2>3
<1>4. PrepareFirst => state = "INITIALIZED"
    BY DEF PrepareFirst
<1>5. PrepareAgain => state = "STOPPED"
    BY <1>1 DEF PrepareAgain, Patient, ClientKind, MayCall, PatientInv, Flow
<1>6. PrepareFirst \/ PrepareAgain => encPc = "none"
    BY <1>4, <1>5 DEF PatientInv, EncoderUp
<1>7. Writing' => Writing
    BY <1>3 DEF Writing, Creating
<1>8. FileTypes' /\ CodecDrained' /\ QueuesDrained'
    BY <1>1, <1>3, <1>6 DEF FileTypes, CodecDrained, QueuesDrained, Enc!LoopPcs
<1>9. FileEnded'
    <2>1. state' = "STARTED" => state = "STARTED" /\ accepted' = accepted
        BY <1>3 DEF PrepareFirst, PrepareAgain, CallStart, CallStop, PostRequest
    <2>2. CASE PrepareAgain
        <3>1. \A p \in Putters : call[p] = "idle" /\ putPc[p] = "idle"
            BY <1>5, <2>2, NoPut
        <3> QED BY <1>1, <1>7, <2>1, <3>1 DEF FileEnded
    <2>3. CASE accepted' = accepted
        BY <1>1, <1>7, <2>1, <2>3 DEF FileEnded
    <2> QED BY <1>3, <2>2, <2>3
<1>10. Line'
    <2>1. CASE PrepareAgain
        <3>1. state = "STOPPED"
            BY <1>5, <2>1
        <3>2. encPc = "none" /\ muxPc \in {"close", "none"} /\ videoq = <<>>
            BY <3>1 DEF PatientInv, EncoderUp, MuxerUp, NothingLeft
        <3>3. rgbaq = <<>> /\ codec = <<>> /\ hand = 0 /\ packet = 0
            BY <1>1, <3>1, <3>2, Holds DEF PatientInv, NothingLeft, RecInv, FileTypes
        <3>4. accepted' = <<>> /\ ~Writing'
            BY <2>1 DEF PrepareAgain, Writing
        <3>5. Last' = Last /\ Last \in Int
            BY <1>1, LineInts DEF Last, Held
        <3>6. Got' = Last' /\ Entered' = Last' /\ Left' = Last' /\ Taken' = Last' /\ Filed' = Last'
            BY <3>2, <3>3, <3>5 DEF Got, Entered, Left, Taken, Filed
        <3>7. RunTo(accepted', Last')
            BY <3>4, <3>5, RunEmpty
        <3> QED BY <1>1, <3>3, <3>4, <3>5, <3>6, <3>7, <3>2 DEF Line, RunTo
    <2>2. CASE accepted' = accepted
        BY <1>1, <1>7, <2>2, LineKept DEF SameLine
    <2> QED BY <1>3, <2>1, <2>2
<1> QED BY <1>8, <1>9, <1>10 DEF FileInv

LEMMA LoopFile ==
    ASSUME Reliable, RecInv, PatientInv, FileInv, LoopStep
    PROVE  FileInv'
<1>1. Patient /\ FileTypes /\ Line /\ CodecDrained /\ QueuesDrained /\ FileEnded
    BY DEF Reliable, FileInv
<1>2. ~HandleStartAgain /\ KeptByLoop
    BY <1>1, NoSecondThread, LoopFrame
<1>3. /\ UNCHANGED <<putFrame, nextFrame, packet, written, file, frameNum>>
      /\ startMux' \in {startMux, TRUE}
      /\ encPc' = encPc \/ (encPc = "none" /\ encPc' = "created")
      /\ stopPc' \in {stopPc, "abort"} /\ mstopPc' \in {mstopPc, "size"}
      /\ state' = "STARTED" => state = "STARTED" \/ HandleEvent
    <2> USE DEF encVars, muxVars
    <2>1. CASE TakeMessage \/ HandleFlush \/ HandlePrepared \/ HandleEvent \/ ArmMux
                 \/ RefuseStart \/ RefuseStop \/ StopDone
        BY <2>1 DEF TakeMessage, HandleFlush, HandlePrepared, HandleEvent, ArmMux,
              RefuseStart, RefuseStop, StopDone
    <2>2. CASE HandleStart \/ HandleStop \/ StopMuxer
        BY <2>2 DEF HandleStart, HandleStop, StopMuxer, Enc!Start, Enc!StopBegin,
              Enc!encVars, Enc!queueVars, Enc!putVars, Mux!MStopBegin, Mux!videoqVars,
              Mux!muxVars
    <2> QED BY <1>2, <2>1, <2>2 DEF LoopStep
<1> USE <1>2, <1>3 DEF KeptByLoop
<1>4. Writing' => Writing
    BY <1>1 DEF Writing, Creating, RecInv, TypeOK
<1>5. FileTypes' /\ Line'
    BY <1>1, <1>4, LineKept DEF FileTypes, SameLine
<1>6. CodecDrained' /\ QueuesDrained'
    BY <1>1 DEF CodecDrained, QueuesDrained, Enc!LoopPcs, Enc!EndPcs
<1>7. FileEnded'
    <2>1. CASE HandleEvent /\ state' = "STARTED" /\ accepted = <<>>
        <3>1. loopPc = "handle" /\ message = "STARTED" /\ startMux' = startMux
            BY <2>1 DEF HandleEvent
        <3>2. state \in {"INITIALIZED", "ASYNC_PREPARING", "PREPARED", "REQ_START", "STARTED",
                         "REQ_STOP", "STOPPED", "ERROR"}
            BY DEF RecInv, TypeOK, States
        <3>3. state = "REQ_START" /\ encPc # "none"
            BY <3>1, <3>2 DEF PatientInv, Flow, Resting, Carried, Asked
        <3>4. startMux
            BY <3>1, <3>3 DEF PatientInv, MuxerUp
        <3> QED BY <1>1, <1>4, <3>1, <3>4 DEF FileEnded
    <2>2. CASE ~(HandleEvent /\ state' = "STARTED" /\ accepted = <<>>)
        BY <1>1, <1>4, <2>2 DEF FileEnded
    <2> QED BY <2>1, <2>2
<1> QED BY <1>5, <1>6, <1>7 DEF FileInv

LEMMA EncoderStopFile ==
    ASSUME Reliable, RecInv, PatientInv, FileInv, EncoderStop
    PROVE  FileInv'
<1>1. Patient /\ FileTypes /\ Line /\ CodecDrained /\ QueuesDrained /\ FileEnded
    BY DEF Reliable, FileInv
<1>2. /\ UNCHANGED <<encPc, muxPc, mstopPc, videoqAbort, rgbaq, hand, codec, videoq, frameNum,
                     putPc, putFrame, nextFrame, state, call, startMux, accepted,
                     packet, written, file>>
      /\ rgbaAbort' => rgbaAbort \/ stopPc = "abortq"
      /\ stopPc' = "abortq" => rgbaq = <<>>
    <2>1. /\ UNCHANGED <<encPc, rgbaq, hand, codec, videoq, frameNum, putPc, putFrame, nextFrame>>
          /\ rgbaAbort' => rgbaAbort \/ stopPc = "abortq"
          /\ stopPc' = "abortq" => rgbaq = <<>>
        BY DEF EncoderStop, Enc!StopStep, Enc!StopAbort, Enc!StopSize, Enc!StopAbortQueue,
              Enc!StopWait, Enc!StopJoin, Enc!putVars, Enc!queueVars, Enc!encVars
    <2> QED BY <2>1 DEF EncoderStop, muxVars, recVars, appVars, histVars
<1> USE <1>2
<1>3. Writing' => Writing
    BY DEF Writing, Creating
<1>4. FileTypes' /\ Line' /\ FileEnded'
    BY <1>1, <1>3, LineKept DEF FileTypes, SameLine, FileEnded
<1>5. CodecDrained' /\ QueuesDrained'
    BY <1>1 DEF CodecDrained, QueuesDrained
<1> QED BY <1>4, <1>5 DEF FileInv

LEMMA MuxerStopFile ==
    ASSUME Reliable, RecInv, PatientInv, FileInv, MuxStop
    PROVE  FileInv'
<1>1. Patient /\ FileTypes /\ Line /\ CodecDrained /\ QueuesDrained /\ FileEnded
    BY DEF Reliable, FileInv
<1>2. /\ UNCHANGED <<encPc, stopPc, rgbaAbort, muxPc, rgbaq, hand, codec, videoq, frameNum,
                     putPc, putFrame, nextFrame, state, call, startMux, accepted,
                     packet, written, file>>
      /\ videoqAbort' => videoqAbort \/ mstopPc = "abortq"
      /\ mstopPc' = "abortq" => videoq = <<>>
    <2>1. /\ UNCHANGED <<muxPc, videoq, packet, written, file>>
          /\ videoqAbort' => videoqAbort \/ mstopPc = "abortq"
          /\ mstopPc' = "abortq" => videoq = <<>>
        BY DEF MuxStop, Mux!MStopStep, Mux!MStopSize, Mux!MStopAbortQueue, Mux!MStopAbort,
              Mux!MStopWait, Mux!MStopJoin, Mux!videoqVars, Mux!muxVars
    <2> QED BY <2>1 DEF MuxStop, encVars, recVars, appVars, histVars
<1> USE <1>2
<1>3. Writing' => Writing
    BY DEF Writing, Creating
<1>4. FileTypes' /\ Line' /\ FileEnded'
    BY <1>1, <1>3, LineKept DEF FileTypes, SameLine, FileEnded
<1>5. CodecDrained' /\ QueuesDrained'
    BY <1>1 DEF CodecDrained, QueuesDrained
<1> QED BY <1>4, <1>5 DEF FileInv

LEMMA PutFile ==
    ASSUME Reliable, RecInv, PatientInv, FileInv, NEW p \in Putters,
           PutCall(p) \/ PutStep(p)
    PROVE  FileInv'
<1>1. Patient /\ FileTypes /\ Line /\ CodecDrained /\ QueuesDrained /\ FileEnded
    BY DEF Reliable, FileInv
<1>2. /\ state = "STARTED" /\ encPc \in Enc!LoopPcs /\ KeptByPut /\ PutMove(p)
      /\ \A q \in Putters \ {p} :
            /\ call[q] = "idle" /\ putPc[q] = "idle"
            /\ call'[q] = "idle" /\ putPc'[q] = "idle"
    BY <1>1, PutMoves
<1>0. ~CreateMuxAgain(p)
    BY NoSecondThread
<1>3. UNCHANGED <<packet, written, file, frameNum>>
    <2> USE DEF encVars, muxVars
    <2>1. CASE PutCall(p) \/ PutSize(p) \/ PutNoMemory(p) \/ PutRefused(p) \/ ClaimMux(p)
        BY <2>1 DEF PutCall, PutSize, PutNoMemory, PutRefused, ClaimMux
    <2>2. CASE PutCopy(p) \/ Enqueued(p) \/ NotEnqueued(p)
        BY <2>2 DEF PutCopy, Enqueued, NotEnqueued, Enc!PutBegin, Enc!PutReturn,
              Enc!encVars
    <2>3. CASE Enqueue(p)
        BY <2>3 DEF Enqueue, Unconfigured, Enc!EnqueueChecked, Enc!EnqueueRefused,
              Enc!QueuePut, Enc!QueuePutFails, Enc!Reject, Enc!encVars
    <2>4. CASE CreateMux(p)
        BY <2>4 DEF CreateMux, Mux!MuxStart
    <2> QED BY <1>0, <2>1, <2>2, <2>3, <2>4 DEF PutStep
<1> USE <1>2, <1>3 DEF KeptByPut
<1>4. muxPc' = muxPc \/ (muxPc = "none" /\ muxPc' = "created" /\ call[p] = "create")
    BY DEF PutMove
<1>5. accepted' = accepted \/ (accepted' # <<>> /\ call'[p] = call[p] /\ startMux' = startMux)
    BY DEF PutMove
<1>6. Writing' => Writing
    <2>1. ASSUME Writing', ~Writing
          PROVE  FALSE
        <3>1. ~startMux' /\ ~Creating' /\ muxPc' # "created" /\ accepted' # <<>>
            BY <2>1 DEF Writing
        <3>2. muxPc' = muxPc
            BY <1>4, <3>1
        <3>3. startMux' = startMux /\ call[p] # "create"
            BY <1>4, <3>1, <3>2 DEF PutMove, Creating
        <3>4. ~Creating
            BY <3>3 DEF Creating
        <3>5. accepted # <<>>
            BY <1>1, <3>1, <3>3 DEF FileEnded
        <3> QED BY <2>1, <3>1, <3>2, <3>3, <3>4, <3>5 DEF Writing
    <2> QED BY <2>1
<1>7. FileTypes' /\ CodecDrained'
    BY <1>1, <1>4 DEF FileTypes, CodecDrained
<1>8. QueuesDrained'
    <2>1. loopPc = "wait"
        BY DEF PatientInv, Flow, Resting
    <2>2. ~rgbaAbort /\ encPc # "abortq" /\ stopPc # "abortq" /\ encPc \notin Enc!EndPcs
        BY <2>1 DEF PatientInv, EncoderStopped, Enc!LoopPcs, Enc!EndPcs
    <2> QED BY <1>1, <1>4, <2>2 DEF QueuesDrained, Mux!WritePcs
<1>9. FileEnded'
    <2>1. accepted' = <<>> => startMux'
        BY <1>1, <1>5 DEF FileEnded, PutMove
    <2>2. \A q \in Putters : putPc'[q] = "accepted" \/ call'[q] \in {"claim", "create"}
                => accepted' # <<>>
        <3>1. putPc'[p] = "accepted" \/ call'[p] \in {"claim", "create"} => accepted' # <<>>
            BY <1>1 DEF FileEnded, PutMove
        <3> QED BY <3>1
    <2>3. muxPc' = "flushq" => written' = <<>>
        BY <1>1, <1>4 DEF FileEnded
    <2>4. Writing' /\ muxPc' \in {"exit", "close", "none"} => file' = "complete"
        BY <1>1, <1>4, <1>6 DEF FileEnded
    <2> QED BY <2>1, <2>2, <2>3, <2>4 DEF FileEnded
<1>10. Line'
    <2>0. /\ putFrame \in [Putters -> Frame \cup {0}] /\ nextFrame \in Int
          /\ \A q \in Putters : putFrame[q] # 0 <=> putPc[q] \in {"enqueue", "put"}
        BY Holds DEF RecInv, EncInv, EncTypes
    <2>1. CASE PutCopy(p)
        <3>1. /\ putFrame' = [putFrame EXCEPT ![p] = nextFrame] /\ nextFrame' = nextFrame + 1
              /\ putPc[p] = "idle" /\ UNCHANGED <<accepted, rgbaq>>
            BY <2>1 DEF PutCopy, Enc!PutBegin, histVars
        <3>2. ~Held /\ Last = nextFrame - 1
            BY <2>0, <3>1 DEF Held, Last
        <3>3. nextFrame # 0
            BY DEF RecInv, EncInv, EncTypes
        <3>4. Held' /\ putFrame'[p] = nextFrame
            BY <2>0, <3>1, <3>3 DEF Held
        <3>5. Last' = Last
            BY <2>0, <3>1, <3>2, <3>4 DEF Last
        <3>6. \A q \in Putters : putFrame'[q] # 0 => putFrame'[q] = Last' + 1
            BY <2>0, <3>1, <3>2, <3>4, <3>5
        <3> QED BY <1>1, <1>6, <3>1, <3>5, <3>6 DEF Line, RunTo, Got, Entered, Left,
                Taken, Filed
    <2>2. CASE Enqueue(p) /\ Enc!QueuePut(p) /\ accepted' = Append(accepted, putFrame[p])
        <3>1. /\ putFrame' = [putFrame EXCEPT ![p] = 0] /\ nextFrame' = nextFrame
              /\ putPc[p] = "put" /\ rgbaq' = Append(rgbaq, putFrame[p])
            BY <2>2 DEF Enc!QueuePut, Enc!None
        <3>2. Held /\ Last = nextFrame - 2 /\ putFrame[p] = Last + 1 /\ Last + 1 \in Frame
            BY <1>1, <2>0, <3>1 DEF Held, Last, Line
        <3>3. ~Held' /\ Last' = Last + 1
            BY <2>0, <3>1, <3>2 DEF Held, Last
        <3>4. Last \in Int /\ accepted \in Seq(Frame) /\ rgbaq \in Seq(Frame)
              /\ Len(accepted) \in Nat /\ Len(rgbaq) \in Nat /\ Filed \in Int
            BY <1>1, LineInts
        <3>5. /\ RunTo(accepted', Last') /\ RunTo(rgbaq', Last')
              /\ Len(accepted') = Len(accepted) + 1 /\ Len(rgbaq') = Len(rgbaq) + 1
            <4>1. RunTo(accepted', Last')
                BY <1>1, <2>2, <3>2, <3>3, <3>4, RunAppend DEF Line
            <4>2. RunTo(rgbaq', Last')
                BY <1>1, <3>1, <3>2, <3>3, <3>4, RunAppend DEF Line
            <4> QED BY <2>2, <3>1, <3>2, <3>4, <4>1, <4>2, RangeAppend
        <3>6. Got' = Got
            BY <3>3, <3>4, <3>5 DEF Got
        <3>7. Entered' = Entered /\ Left' = Left /\ Taken' = Taken /\ Filed' = Filed
            BY <3>6 DEF Entered, Left, Taken, Filed
        <3>8. \A q \in Putters : putFrame'[q] = 0
            BY <3>3 DEF Held
        <3>9. Last' - Len(accepted') = Last - Len(accepted)
            BY <3>3, <3>4, <3>5
        <3> QED BY <1>1, <1>6, <3>5, <3>6, <3>7, <3>8, <3>9 DEF Line, RunTo
    <2>3. CASE ~PutCopy(p) /\ accepted' = accepted
        <3>1. UNCHANGED <<putFrame, nextFrame, rgbaq>>
            <4>1. CASE PutCall(p) \/ PutSize(p) \/ PutRefused(p) \/ ClaimMux(p)
                BY <4>1 DEF PutCall, PutSize, PutRefused, ClaimMux, encVars
            <4>2. CASE Enqueued(p)
                BY <4>2 DEF Enqueued, Enc!PutReturn, Enc!queueVars
            <4>3. CASE CreateMux(p)
                BY <4>3 DEF CreateMux, encVars
            <4>4. CASE Enqueue(p)
                <5>1. ~Enc!EnqueueRefused(p) /\ ~Enc!QueuePutFails(p) /\ ~Unconfigured(p)
                    <6>1. putPc \in [Putters -> Enc!PutPcs]
                        BY DEF RecInv, EncInv, EncTypes
                    <6>2. putPc'[p] # "rejected"
                        BY DEF PutMove
                    <6> QED BY <6>1, <6>2 DEF Enc!EnqueueRefused, Enc!QueuePutFails,
                            Unconfigured, Enc!Reject
                <5>2. Enc!EnqueueChecked(p)
                    BY <2>3, <4>4, <5>1, LineInts, <1>1, RangeAppend DEF Enqueue
                <5> QED BY <5>2 DEF Enc!EnqueueChecked, Enc!queueVars
            <4>5. ~PutNoMemory(p) /\ ~NotEnqueued(p)
                BY DEF PutMove, PutNoMemory, NotEnqueued, Reliable
            <4> QED BY <1>0, <2>3, <4>1, <4>2, <4>3, <4>4, <4>5 DEF PutStep
        <3> QED BY <1>1, <1>6, <2>3, <3>1, LineKept DEF SameLine
    <2>4. PutCopy(p) \/ accepted' = accepted \/ Enqueue(p)
        BY <1>0 DEF PutStep, PutCall, PutSize, PutNoMemory, NotEnqueued, PutRefused,
              Enqueued, ClaimMux, CreateMux, histVars
    <2>5. Enqueue(p) => accepted' = accepted
                          \/ (Enc!QueuePut(p) /\ accepted' = Append(accepted, putFrame[p]))
        BY DEF Enqueue
    <2> QED BY <2>1, <2>2, <2>3, <2>4, <2>5
<1> QED BY <1>7, <1>8, <1>9, <1>10 DEF FileInv

\* While the encoder thread runs, the muxer is not stopped.
LEMMA MuxerFlows ==
    ASSUME Patient, RecInv, PatientInv,
           encPc # "none" \/ muxPc \in Mux!StartPcs \cup Mux!OpenPcs
    PROVE  /\ mstopPc = "idle"
           /\ muxPc \notin {"drain", "trailer", "exit", "abortq"}
           /\ muxPc \in Mux!OpenPcs \cup Mux!WritePcs => ~videoqAbort
<1>1. Flow /\ EncoderUp /\ MuxerUp /\ MuxerStopped
    BY DEF PatientInv
<1>2. state \in {"INITIALIZED", "ASYNC_PREPARING", "PREPARED", "REQ_START", "STARTED",
                 "REQ_STOP", "STOPPED", "ERROR"}
    BY DEF RecInv, TypeOK, States
<1>3. loopPc = "stopMuxer" => state = "REQ_STOP" /\ EncoderIsStopped
    BY <1>1, <1>2 DEF Flow, Resting, Carried, Asked, EncoderIsStopped
<1>4. ~(state = "REQ_STOP" /\ EncoderIsStopped)
    BY <1>1 DEF EncoderUp, MuxerUp
<1>5. mstopPc = "idle"
    BY <1>1, <1>3, <1>4 DEF MuxerStopped
<1>6. muxPc \notin {"drain", "trailer", "exit"}
    BY <1>1, <1>2, <1>4 DEF Flow, MuxerUp, Mux!StartPcs, Mux!OpenPcs, Mux!WritePcs
<1> QED BY <1>1, <1>5, <1>6 DEF MuxerStopped, Mux!WritePcs

LEMMA EncoderFile ==
    ASSUME Reliable, RecInv, PatientInv, FileInv, EncoderThread
    PROVE  FileInv'
<1>1. Patient /\ FileTypes /\ Line /\ CodecDrained /\ QueuesDrained /\ FileEnded
    BY DEF Reliable, FileInv
<1>2. /\ EncoderMove /\ KeptByParts
      /\ UNCHANGED <<stopPc, muxPc, mstopPc, videoqAbort, packet, written, file>>
      /\ UNCHANGED <<putFrame, nextFrame>>
    <2>1. UNCHANGED <<packet, written, file>>
        BY DEF EncoderThread, muxVars
    <2>2. UNCHANGED <<putFrame, nextFrame>>
        BY DEF EncoderThread, Enc!EncoderStep, Enc!SetRunning, Enc!NotifyStarted,
              Enc!ResetAbort, Enc!ResetQueue, Enc!OpenCodec, Enc!OpenFails, Enc!LoopTop,
              Enc!LoopSize, Enc!LoopAbortQueue, Enc!GetFrame, Enc!GetAborted,
              Enc!EncodeNoPacket, Enc!EncodePacket, Enc!EncodePacketRefused, Enc!Encoded,
              Enc!EncodeFails, Enc!FlushPacket, Enc!FlushEnds, Enc!FlushFails,
              Enc!ClearQueue, Enc!RearmAbort, Enc!RearmQueue, Enc!Exit, Enc!putVars
    <2> QED BY <1>1, <2>1, <2>2, EncoderMoves
<1> USE <1>2 DEF KeptByParts
<1>3. Faults = {}
    BY DEF Reliable
<1>4. Writing' <=> Writing
    BY DEF Writing, Creating
<1>5. FileEnded'
    BY <1>1, <1>4 DEF FileEnded
<1>6. encPc # "none"
    BY DEF EncoderMove, Enc!LoopPcs, Enc!EndPcs
<1>7. /\ ~(videoqAbort /\ muxPc \in Mux!WritePcs)
      /\ muxPc # "abortq" /\ mstopPc # "abortq" /\ muxPc \notin {"drain", "trailer", "exit"}
    BY <1>1, <1>6, MuxerFlows
<1>8. encPc = "open" => ~rgbaAbort
    BY DEF PatientInv, EncoderUp, EncoderStopped, Enc!ReadyPcs
<1>9. /\ Last' = Last /\ Last \in Int /\ Got \in Int /\ Entered \in Int /\ Left \in Int
      /\ Taken \in Int /\ Filed \in Int
      /\ rgbaq \in Seq(Frame) /\ codec \in Seq(Frame) /\ videoq \in Seq(Frame)
      /\ hand \in Frame \cup {0}
      /\ Len(rgbaq) \in Nat /\ Len(codec) \in Nat /\ Len(videoq) \in Nat
      /\ hand # 0 <=> encPc = "process"
    BY <1>1, LineInts, Holds DEF Last, Held, FileTypes, RecInv
\* The steps that move no frame.
<1>10. CASE Enc!SetRunning \/ Enc!NotifyStarted \/ Enc!ResetAbort \/ Enc!ResetQueue
               \/ Enc!OpenCodec \/ Enc!OpenFails
    <2>1. /\ UNCHANGED <<rgbaq, hand, codec, videoq>>
          /\ frameNum' = frameNum \/ (encPc = "open" /\ frameNum' = 0)
          /\ encPc \in {"created", "notify", "prepare", "reset", "prepareQ", "resetQ", "open"}
          /\ encPc \in {"reset", "resetQ"} <=> encPc' \in Enc!EndPcs
          /\ encPc' \in Enc!LoopPcs \cup {"flush", "abortq"} => encPc = "open"
          /\ encPc' \in Enc!LoopPcs => frameNum' = 0 /\ rgbaAbort' = rgbaAbort
          /\ encPc' # "abortq"
        BY <1>1, <1>3, <1>10 DEF Enc!SetRunning, Enc!NotifyStarted, Enc!ResetAbort,
              Enc!ResetQueue, Enc!OpenCodec, Enc!OpenFails, Enc!queueVars, CodecDrained,
              Enc!LoopPcs, Enc!EndPcs
    <2>2. FileTypes' /\ Line'
        BY <1>1, <1>4, <2>1, LineKept DEF FileTypes, SameLine
    <2>3. CodecDrained'
        <3>1. codec = <<>>
            BY <1>1, <2>1 DEF CodecDrained, Enc!LoopPcs
        <3> QED BY <2>1, <3>1 DEF CodecDrained
    <2>4. QueuesDrained'
        <3>1. encPc' \in Enc!EndPcs => rgbaq = <<>>
            BY <1>1, <2>1 DEF QueuesDrained, Enc!EndPcs
        <3> QED BY <1>1, <1>7, <1>8, <2>1, <3>1 DEF QueuesDrained
    <2> QED BY <1>5, <2>2, <2>3, <2>4 DEF FileInv
<1>11. CASE Enc!LoopTop \/ Enc!LoopSize \/ Enc!LoopAbortQueue \/ Enc!GetAborted
    <2>1. /\ UNCHANGED <<rgbaq, hand, codec, videoq, frameNum>> /\ encPc \in Enc!LoopPcs
          /\ encPc' \in Enc!LoopPcs
                \/ (rgbaAbort /\ encPc' = IF frameNum > 0 THEN "flush" ELSE "reset")
          /\ rgbaAbort' => rgbaAbort \/ encPc = "abortq"
          /\ encPc' = "abortq" => rgbaq = <<>>
        BY <1>11 DEF Enc!LoopTop, Enc!LoopSize, Enc!LoopAbortQueue, Enc!GetAborted,
              Enc!queueVars, Enc!LoopPcs
    <2>2. FileTypes' /\ Line'
        BY <1>1, <1>4, <2>1, LineKept DEF FileTypes, SameLine
    <2>3. CodecDrained'
        <3>1. Len(codec) <= frameNum
            BY <1>1, <2>1 DEF CodecDrained
        <3>2. encPc' = "reset" => codec = <<>>
            BY <1>1, <1>9, <2>1, <3>1 DEF FileTypes, Enc!LoopPcs
        <3> QED BY <2>1, <3>1, <3>2 DEF CodecDrained, Enc!LoopPcs
    <2>4. QueuesDrained'
        <3>1. rgbaAbort' \/ encPc' \in Enc!EndPcs => rgbaq = <<>>
            BY <1>1, <2>1 DEF QueuesDrained, Enc!LoopPcs, Enc!EndPcs
        <3> QED BY <1>1, <1>7, <2>1, <3>1 DEF QueuesDrained
    <2> QED BY <1>5, <2>2, <2>3, <2>4 DEF FileInv
<1>12. CASE Enc!FlushEnds \/ Enc!FlushFails \/ Enc!ClearQueue \/ Enc!RearmAbort
               \/ Enc!RearmQueue \/ Enc!Exit
    <2>1. rgbaq = <<>>
        BY <1>1, <1>12 DEF QueuesDrained, Enc!FlushEnds, Enc!FlushFails, Enc!ClearQueue,
              Enc!RearmAbort, Enc!RearmQueue, Enc!Exit, Enc!EndPcs
    <2>2. /\ UNCHANGED <<rgbaq, hand, codec, videoq, frameNum>> /\ codec = <<>>
          /\ encPc' \notin Enc!LoopPcs
        BY <1>1, <1>3, <1>12, <2>1 DEF Enc!FlushEnds, Enc!FlushFails, Enc!ClearQueue,
              Enc!RearmAbort, Enc!RearmQueue, Enc!Exit, Enc!queueVars, CodecDrained,
              Enc!LoopPcs
    <2>3. FileTypes' /\ Line'
        BY <1>1, <1>4, <2>2, LineKept DEF FileTypes, SameLine
    <2>4. CodecDrained' /\ QueuesDrained'
        BY <1>1, <1>7, <2>1, <2>2 DEF CodecDrained, QueuesDrained
    <2> QED BY <1>5, <2>3, <2>4 DEF FileInv
<1>13. CASE Enc!GetFrame
    <2>1. /\ encPc = "get" /\ encPc' = "process" /\ ~rgbaAbort /\ rgbaAbort' = rgbaAbort
          /\ rgbaq # <<>> /\ hand = 0
          /\ hand' = Head(rgbaq) /\ rgbaq' = Tail(rgbaq)
          /\ UNCHANGED <<codec, videoq, frameNum>>
        BY <1>9, <1>13 DEF Enc!GetFrame
    <2>2. /\ Head(rgbaq) = Last - Len(rgbaq) + 1 /\ RunTo(rgbaq', Last)
          /\ Len(rgbaq') = Len(rgbaq) - 1 /\ Head(rgbaq) \in Frame
        BY <1>1, <1>9, <2>1, RunTail, RangeTail DEF Line
    <2>3. Got' = Got + 1 /\ hand' = Got' /\ hand' # 0
        BY <1>9, <2>1, <2>2 DEF Got, Frame
    <2>4. Entered' = Entered
        BY <1>9, <2>1, <2>3 DEF Entered
    <2>5. Left' = Left /\ Taken' = Taken /\ Filed' = Filed
        BY <2>1, <2>4 DEF Left, Taken, Filed
    <2>6. Line'
        BY <1>1, <1>4, <1>9, <2>1, <2>2, <2>3, <2>4, <2>5 DEF Line, RunTo
    <2>7. FileTypes' /\ CodecDrained' /\ QueuesDrained'
        BY <1>1, <1>7, <2>1 DEF FileTypes, CodecDrained, QueuesDrained, Enc!LoopPcs,
              Enc!EndPcs
    <2> QED BY <1>5, <2>6, <2>7 DEF FileInv
<1>14. CASE Enc!EncodeNoPacket \/ Enc!EncodePacket
    <2>1. /\ encPc = "process" /\ encPc' = "loop" /\ hand # 0 /\ hand' = 0
          /\ UNCHANGED <<rgbaq, rgbaAbort>> /\ frameNum' = frameNum + 1
        BY <1>9, <1>14 DEF Enc!EncodeNoPacket, Enc!EncodePacket, Enc!Encoded, Enc!None
    <2> DEFINE in == Append(codec, hand)
    <2>2. hand \in Frame /\ hand = Entered + 1 /\ hand = Got
        BY <1>1, <1>9, <2>1 DEF Line, Entered
    <2>3. /\ in \in Seq(Frame) /\ in # <<>> /\ Len(in) = Len(codec) + 1
          /\ RunTo(in, Entered + 1)
        BY <1>1, <1>9, <2>2, RunAppend, RangeAppend DEF Line
    <2>4. Got' = Got /\ Entered' = Entered + 1
        BY <1>9, <2>1, <2>2 DEF Got, Entered
    <2>5. FileTypes' /\ Line' /\ Len(codec') <= Len(codec) + 1
        <3> HIDE DEF in
        <3>1. CASE Enc!EncodeNoPacket
            <4>1. codec' = in /\ videoq' = videoq
                BY <3>1 DEF Enc!EncodeNoPacket, in
            <4>2. Left' = Left
                <5>1. Len(codec') = Len(codec) + 1
                    BY <2>3, <4>1
                <5> QED BY <1>9, <2>4, <5>1 DEF Left
            <4>3. Taken' = Taken /\ Filed' = Filed
                BY <4>1, <4>2 DEF Taken, Filed
            <4>4. FileTypes'
                BY <1>1, <2>1, <2>3, <4>1 DEF FileTypes
            <4> QED BY <1>1, <1>4, <1>9, <2>1, <2>3, <2>4, <4>1, <4>2, <4>3, <4>4
                    DEF Line, RunTo
        <3>2. CASE Enc!EncodePacket
            <4>1. codec' = Tail(in) /\ videoq' = Append(videoq, Head(in))
                BY <3>2 DEF Enc!EncodePacket, in
            <4>2. /\ Head(in) = Left + 1 /\ Head(in) \in Frame
                  /\ RunTo(codec', Entered') /\ Len(codec') = Len(codec) /\ codec' \in Seq(Frame)
                BY <1>9, <2>3, <2>4, <4>1, RunTail, RangeTail DEF Left
            <4>3. Left' = Left + 1
                BY <1>9, <2>4, <4>2 DEF Left
            <4>4. /\ RunTo(videoq', Left') /\ Len(videoq') = Len(videoq) + 1
                  /\ videoq' \in Seq(Frame)
                BY <1>1, <1>9, <4>1, <4>2, <4>3, RunAppend, RangeAppend DEF Line
            <4>5. Taken' = Taken
                BY <1>9, <4>3, <4>4 DEF Taken
            <4>6. Filed' = Filed
                BY <4>5 DEF Filed
            <4>7. FileTypes'
                BY <1>1, <2>1, <4>2, <4>4 DEF FileTypes
            <4>8. RunTo(rgbaq', Last')
                BY <1>1, <1>9, <2>1 DEF Line
            <4> QED BY <1>1, <1>4, <1>9, <2>1, <4>2, <4>4, <4>5, <4>6, <4>7, <4>8
                    DEF Line, RunTo
        <3> QED BY <1>14, <3>1, <3>2
    <2>6. Len(codec') <= frameNum'
        <3>1. Len(codec) <= frameNum /\ frameNum \in Int /\ Len(codec') \in Nat
            BY <1>1, <2>1, <2>5 DEF CodecDrained, FileTypes, Enc!LoopPcs
        <3> QED BY <1>9, <2>1, <2>5, <3>1
    <2>7. CodecDrained' /\ QueuesDrained'
        BY <1>1, <1>7, <2>1, <2>6 DEF CodecDrained, QueuesDrained, Enc!LoopPcs, Enc!EndPcs
    <2> QED BY <1>5, <2>5, <2>7 DEF FileInv
<1>15. CASE Enc!FlushPacket
    <2>1. /\ encPc = "flush" /\ encPc' = "flush" /\ codec # <<>> /\ hand = 0
          /\ codec' = Tail(codec) /\ videoq' = Append(videoq, Head(codec))
          /\ UNCHANGED <<rgbaq, hand, frameNum>>
        BY <1>3, <1>9, <1>15 DEF Enc!FlushPacket
    <2>2. Got' = Got /\ Entered' = Entered
        BY <1>9, <2>1 DEF Got, Entered
    <2>3. /\ Head(codec) = Left + 1 /\ Head(codec) \in Frame
          /\ RunTo(codec', Entered) /\ Len(codec') = Len(codec) - 1 /\ codec' \in Seq(Frame)
        BY <1>1, <1>9, <2>1, RunTail, RangeTail DEF Line, Left
    <2>4. Left' = Left + 1
        BY <1>9, <2>2, <2>3 DEF Left
    <2>5. /\ RunTo(videoq', Left') /\ Len(videoq') = Len(videoq) + 1
          /\ videoq' \in Seq(Frame)
        BY <1>1, <1>9, <2>1, <2>3, <2>4, RunAppend, RangeAppend DEF Line
    <2>6. Taken' = Taken
        BY <1>9, <2>4, <2>5 DEF Taken
    <2>7. Filed' = Filed
        BY <2>6 DEF Filed
    <2>8. RunTo(rgbaq', Last')
        BY <1>1, <1>9, <2>1 DEF Line
    <2>9. Line'
        BY <1>1, <1>4, <1>9, <2>1, <2>2, <2>3, <2>5, <2>6, <2>7, <2>8 DEF Line, RunTo
    <2>10. FileTypes' /\ CodecDrained' /\ QueuesDrained'
        BY <1>1, <1>7, <2>1, <2>3, <2>5 DEF FileTypes, CodecDrained, QueuesDrained,
              Enc!LoopPcs, Enc!EndPcs
    <2> QED BY <1>5, <2>9, <2>10 DEF FileInv
<1>16. ~Enc!EncodePacketRefused /\ ~Enc!EncodeFails
    BY <1>3 DEF Enc!EncodePacketRefused, Enc!EncodeFails
<1> QED BY <1>10, <1>11, <1>12, <1>13, <1>14, <1>15, <1>16 DEF EncoderThread,
        Enc!EncoderStep

LEMMA MuxerFile ==
    ASSUME Reliable, RecInv, PatientInv, FileInv, MuxThread
    PROVE  FileInv'
<1>1. /\ Patient /\ FileTypes /\ Line /\ CodecDrained /\ QueuesDrained /\ FileEnded
      /\ MuxFaults = {} /\ muxPc # "fail"
    BY DEF Reliable, FileInv, Patient, PatientInv, MuxerStopped
<1>2. /\ KeptByParts
      /\ UNCHANGED <<encPc, stopPc, rgbaAbort, rgbaq, hand, codec, mstopPc>>
      /\ UNCHANGED <<putFrame, nextFrame, frameNum>>
    <2>1. UNCHANGED <<putFrame, nextFrame, frameNum>>
        BY DEF MuxThread, encVars
    <2> QED BY <1>1, <2>1, MuxerMoves
<1> USE <1>2 DEF KeptByParts
<1>3. CodecDrained'
    BY <1>1 DEF CodecDrained
<1>4. /\ Last' = Last /\ Got' = Got /\ Entered' = Entered /\ Left' = Left
      /\ Last \in Int /\ Left \in Int /\ Taken \in Int /\ Filed \in Int
      /\ videoq \in Seq(Frame) /\ written \in Seq(Frame) /\ accepted \in Seq(Frame)
      /\ Len(videoq) \in Nat /\ Len(written) \in Nat /\ Len(accepted) \in Nat
      /\ packet \in Frame \cup {0} /\ (packet # 0 <=> muxPc = "write")
    BY <1>1, LineInts DEF Last, Held, Got, Entered, Left, FileTypes
<1>5. /\ muxPc \in Mux!StartPcs \cup Mux!OpenPcs => mstopPc # "abortq"
      /\ muxPc = "header" => ~videoqAbort
    BY <1>1, MuxerFlows DEF Mux!StartPcs, Mux!OpenPcs
<1>6. muxPc # "created" => (Writing' => Writing)
    BY DEF Writing, Creating
<1>7. (Writing' <=> Writing) \/ muxPc = "created" \/ muxPc' = "created"
    BY DEF Writing, Creating
\* The runs that lie before the muxer.
<1>8. /\ \A p \in Putters : putFrame'[p] # 0 => putFrame'[p] = Last' + 1
      /\ RunTo(accepted', Last') /\ RunTo(rgbaq', Last')
      /\ hand' # 0 => hand' = Got'
    BY <1>1, <1>4 DEF Line
<1>9. RunTo(codec', Entered')
    BY <1>1, <1>4 DEF Line
<1>10. CASE Mux!MuxRunning
    <2>1. /\ muxPc = "created" /\ muxPc' = "flushq" /\ written' = <<>>
          /\ UNCHANGED <<videoq, videoqAbort, packet>>
        BY <1>10 DEF Mux!MuxRunning, Mux!videoqVars
    <2>2. Taken' = Taken /\ Filed' = Filed
        BY <1>4, <2>1 DEF Taken, Filed
    <2>3. Line'
        <3>1. RunTo(written', Filed') /\ Len(written') = 0
            BY <1>4, <2>1, <2>2, RunEmpty
        <3>2. RunTo(videoq', Left') /\ (packet' # 0 => packet' = Taken')
              /\ Last' - Len(accepted') <= Filed'
            BY <1>1, <1>4, <2>1, <2>2 DEF Line
        <3>3. Last' - Len(accepted') <= Filed' - Len(written')
            BY <1>4, <2>2, <3>1, <3>2
        <3> QED BY <1>8, <1>9, <3>1, <3>2, <3>3 DEF Line
    <2>4. FileTypes' /\ QueuesDrained' /\ FileEnded'
        BY <1>1, <2>1 DEF FileTypes, QueuesDrained, FileEnded, Mux!WritePcs
    <2> QED BY <1>3, <2>3, <2>4 DEF FileInv
<1>11. CASE Mux!MuxFlush
    <2>1. /\ muxPc = "flushq" /\ muxPc' = "startq" /\ videoq' = <<>> /\ packet = 0
          /\ UNCHANGED <<videoqAbort, packet, written, file>> /\ written = <<>>
        BY <1>1, <1>4, <1>11 DEF Mux!MuxFlush, FileEnded
    <2>2. Taken' = Left /\ Filed' = Left /\ Filed <= Left
        BY <1>4, <2>1 DEF Taken, Filed
    <2>3. Line'
        <3>1. RunTo(written', Filed') /\ Len(written') = 0 /\ RunTo(videoq', Left')
            BY <1>4, <2>1, <2>2, RunEmpty
        <3>2. Last' - Len(accepted') <= Filed' /\ packet' = 0
            BY <1>1, <1>4, <2>1, <2>2 DEF Line
        <3>3. Last' - Len(accepted') <= Filed' - Len(written')
            BY <1>4, <2>2, <3>1, <3>2
        <3> QED BY <1>8, <1>9, <3>1, <3>2, <3>3 DEF Line
    <2>4. FileTypes' /\ QueuesDrained' /\ FileEnded'
        BY <1>1, <1>6, <2>1 DEF FileTypes, QueuesDrained, FileEnded, Mux!WritePcs
    <2> QED BY <1>3, <2>3, <2>4 DEF FileInv
<1>12. CASE Mux!GetPacket
    <2>1. /\ muxPc = "get" /\ muxPc' = "write" /\ ~videoqAbort /\ videoq # <<>> /\ packet = 0
          /\ packet' = Head(videoq) /\ videoq' = Tail(videoq)
          /\ UNCHANGED <<videoqAbort, written, file>>
        BY <1>4, <1>12 DEF Mux!GetPacket
    <2>2. /\ Head(videoq) = Left - Len(videoq) + 1 /\ RunTo(videoq', Left')
          /\ Len(videoq') = Len(videoq) - 1 /\ videoq' \in Seq(Frame) /\ Head(videoq) \in Frame
        BY <1>1, <1>4, <2>1, RunTail, RangeTail DEF Line
    <2>3. Taken' = Taken + 1 /\ packet' = Taken' /\ packet' # 0
        BY <1>4, <2>1, <2>2 DEF Taken, Frame
    <2>4. Filed' = Filed
        BY <1>4, <2>1, <2>3 DEF Filed
    <2>5. Writing' => Writing
        BY <1>6, <2>1
    <2>6. Line'
        <3>1. Last' - Len(accepted') <= Filed'
            BY <1>1, <1>4, <2>4 DEF Line
        <3>2. Writing' => RunTo(written', Filed') /\ Last' - Len(accepted') <= Filed' - Len(written')
            BY <1>1, <1>4, <2>1, <2>4, <2>5 DEF Line
        <3> QED BY <1>8, <1>9, <2>2, <2>3, <3>1, <3>2 DEF Line
    <2>7. FileTypes' /\ QueuesDrained' /\ FileEnded'
        BY <1>1, <2>1, <2>2, <2>3, <2>5 DEF FileTypes, QueuesDrained, FileEnded
    <2> QED BY <1>3, <2>6, <2>7 DEF FileInv
<1>13. CASE Mux!WritePacket
    <2>1. /\ muxPc = "write" /\ muxPc' = "loop" /\ packet # 0 /\ packet' = 0
          /\ written' = Append(written, packet) /\ UNCHANGED <<videoq, videoqAbort, file>>
        BY <1>4, <1>13 DEF Mux!WritePacket, Mux!NoPacket, Mux!videoqVars
    <2>2. Taken' = Taken /\ Filed' = Filed + 1 /\ packet = Filed + 1 /\ packet \in Frame
        BY <1>1, <1>4, <2>1 DEF Taken, Filed, Line
    <2>3. Len(written') = Len(written) + 1 /\ written' \in Seq(Frame)
        BY <1>4, <2>1, <2>2, RangeAppend
    <2>4. Writing' => Writing
        BY <1>6, <2>1
    <2>5. Line'
        <3>1. Last' - Len(accepted') <= Filed' /\ RunTo(videoq', Left')
            BY <1>1, <1>4, <2>1, <2>2 DEF Line
        <3>2. ASSUME Writing'
              PROVE  RunTo(written', Filed') /\ Last' - Len(accepted') <= Filed' - Len(written')
            <4>1. RunTo(written, Filed) /\ Last - Len(accepted) <= Filed - Len(written)
                BY <1>1, <2>4, <3>2 DEF Line
            <4>2. RunTo(written', Filed')
                BY <1>4, <2>1, <2>2, <4>1, RunAppend
            <4> QED BY <1>4, <2>2, <2>3, <4>1, <4>2
        <3> QED BY <1>8, <1>9, <2>1, <3>1, <3>2 DEF Line
    <2>6. FileTypes' /\ QueuesDrained' /\ FileEnded'
        BY <1>1, <2>1, <2>3, <2>4 DEF FileTypes, QueuesDrained, FileEnded, Mux!WritePcs
    <2> QED BY <1>3, <2>5, <2>6 DEF FileInv
<1>14. CASE Mux!MuxStartQueue \/ Mux!MuxClearAbort \/ Mux!OpenOutput \/ Mux!WriteHeader
               \/ Mux!WriteTop \/ Mux!WriteSize \/ Mux!WriteAbortQueue \/ Mux!GetPacketAborted
               \/ Mux!DropRest \/ Mux!WriteTrailer \/ Mux!MuxNotRunning \/ Mux!CloseFile
    <2>1. muxPc # "created" /\ muxPc' # "flushq" /\ "write" \notin {muxPc, muxPc'}
        BY <1>14 DEF Mux!MuxStartQueue, Mux!MuxClearAbort, Mux!OpenOutput,
              Mux!WriteHeader, Mux!WriteTop, Mux!WriteSize, Mux!WriteAbortQueue,
              Mux!GetPacketAborted, Mux!DropRest, Mux!WriteTrailer, Mux!MuxNotRunning,
              Mux!CloseFile
    <2>2. UNCHANGED <<videoq, packet, written>>
        <3>1. CASE Mux!DropRest
            BY <1>1, <3>1 DEF Mux!DropRest, QueuesDrained
        <3>2. CASE ~Mux!DropRest
            BY <1>14, <3>2 DEF Mux!MuxStartQueue, Mux!MuxClearAbort, Mux!OpenOutput,
                  Mux!WriteHeader, Mux!WriteTop, Mux!WriteSize, Mux!WriteAbortQueue,
                  Mux!GetPacketAborted, Mux!WriteTrailer, Mux!MuxNotRunning,
                  Mux!CloseFile, Mux!videoqVars
        <3> QED BY <3>1, <3>2
    <2>3. FileTypes' /\ Line'
        BY <1>1, <1>6, <2>1, <2>2, LineKept DEF FileTypes, SameLine
    <2>4. QueuesDrained'
        <3>1. CASE Mux!MuxStartQueue \/ Mux!MuxClearAbort \/ Mux!OpenOutput \/ Mux!WriteHeader
            BY <1>1, <1>5, <2>2, <3>1 DEF Mux!MuxStartQueue, Mux!MuxClearAbort,
                  Mux!OpenOutput, Mux!WriteHeader, Mux!videoqVars, QueuesDrained,
                  Mux!WritePcs
        <3>2. CASE Mux!WriteTop \/ Mux!WriteSize \/ Mux!WriteAbortQueue \/ Mux!GetPacketAborted
            BY <1>1, <2>2, <3>2 DEF Mux!WriteTop, Mux!WriteSize, Mux!WriteAbortQueue,
                  Mux!GetPacketAborted, Mux!videoqVars, QueuesDrained, Mux!WritePcs
        <3>3. CASE Mux!DropRest \/ Mux!WriteTrailer \/ Mux!MuxNotRunning \/ Mux!CloseFile
            BY <1>1, <2>2, <3>3 DEF Mux!DropRest, Mux!WriteTrailer, Mux!MuxNotRunning,
                  Mux!CloseFile, QueuesDrained, Mux!WritePcs
        <3> QED BY <1>14, <3>1, <3>2, <3>3
    <2>5. FileEnded'
        <3>1. muxPc' \in {"exit", "close", "none"}
                => file' = "complete" \/ (file' = file /\ muxPc \in {"exit", "close", "none"})
            BY <1>14 DEF Mux!MuxStartQueue, Mux!MuxClearAbort, Mux!OpenOutput,
                  Mux!WriteHeader, Mux!WriteTop, Mux!WriteSize, Mux!WriteAbortQueue,
                  Mux!GetPacketAborted, Mux!DropRest, Mux!WriteTrailer, Mux!MuxNotRunning,
                  Mux!CloseFile
        <3> QED BY <1>1, <1>6, <2>1, <3>1 DEF FileEnded
    <2> QED BY <1>3, <2>3, <2>4, <2>5 DEF FileInv
<1>15. ~Mux!MuxFails /\ ~Mux!WriteFails /\ ~Mux!PostError
    BY <1>1 DEF Mux!MuxFails, Mux!WriteFails, Mux!PostError
<1> QED BY <1>10, <1>11, <1>12, <1>13, <1>14, <1>15 DEF MuxThread, Mux!MuxStep

LEMMA FileStep ==
    ASSUME Reliable, RecInv, PatientInv, NoStrays, FileInv, [Next]_vars
    PROVE  FileInv'
<1>1. CASE UNCHANGED vars
    <2> USE <1>1 DEF vars, encVars, muxVars, recVars, setVars, loopVars, appVars, histVars
    <2>1. Line'
        BY LineKept DEF FileInv, SameLine, Writing, Creating
    <2> QED BY <2>1 DEF FileInv, FileTypes, CodecDrained, QueuesDrained, FileEnded,
            Writing, Creating
<1>2. ~PrepareRefused
    BY DEF PrepareRefused, Reliable, Patient, ClientKind
<1> QED BY <1>1, <1>2, CallFile, LoopFile, PutFile, EncoderFile, EncoderStopFile,
        MuxerFile, MuxerStopFile, NoStrayStep DEF Next

\* Nothing that was accepted is lost on the way to the file but the first frames,
\* whose packets muxer_start flushed, and what is in the file is in order: when a
\* patient application is told STOPPED after a session in which nothing failed, the
\* file is complete and holds the last of the session's frames, none missing between
\* them: FileIsSuffix.
THEOREM FileHoldsSuffix ==
    ASSUME Reliable
    PROVE  Spec => []FileIsSuffix
<1>1. RecInv /\ PatientInv /\ FileInv => FileIsSuffix
    <2> SUFFICES ASSUME RecInv, PatientInv, FileInv, told = "STOPPED", ~startMux, accepted # <<>>
                 PROVE  /\ file = "complete"
                        /\ \E n \in 0..Len(accepted) :
                              written = SubSeq(accepted, n + 1, Len(accepted))
        BY DEF FileIsSuffix
    <2>1. state = "STOPPED"
        BY DEF PatientInv, Flow
    <2>2. encPc = "none" /\ muxPc \in {"close", "none"} /\ videoq = <<>> /\ ~Creating
        BY <2>1, NoPut DEF PatientInv, EncoderUp, MuxerUp, NothingLeft, Creating
    <2>3. rgbaq = <<>> /\ codec = <<>> /\ hand = 0 /\ packet = 0
        BY <2>2, Holds DEF PatientInv, NothingLeft, RecInv, FileInv, FileTypes
    <2>4. Writing
        BY <2>2 DEF Writing
    <2>5. Filed = Last
        BY <2>2, <2>3, LineInts DEF FileInv, Filed, Taken, Left, Entered, Got
    <2>6. /\ Last \in Int /\ accepted \in Seq(Frame) /\ written \in Seq(Frame)
          /\ Len(accepted) \in Nat /\ Len(written) \in Nat
        BY LineInts DEF FileInv, FileTypes
    <2>7. /\ RunTo(accepted, Last) /\ RunTo(written, Last)
          /\ Last - Len(accepted) <= Last - Len(written)
        BY <2>4, <2>5 DEF FileInv, Line
    <2>8. \E n \in 0..Len(accepted) : written = SubSeq(accepted, n + 1, Len(accepted))
        BY <2>6, <2>7, RunSuffix
    <2> QED BY <2>2, <2>4, <2>8 DEF FileInv, FileEnded
<1>2. RecInv /\ PatientInv /\ NoStrays /\ FileInv /\ [Next]_vars
        => (RecInv /\ PatientInv /\ NoStrays /\ FileInv)'
    BY RecStep, PatientStep, NoStraysStep, FileStep DEF Reliable
<1> QED BY <1>1, <1>2, RecInit, PatientInit, NoStraysInit, FileInit, PTL DEF Spec
=============================================================================
