-------------------------- MODULE RecorderLifetime --------------------------
(***************************************************************************)
(* The end of a recorder: the references that the Java field, the native   *)
(* calls and the message thread hold, release, and what the last reference *)
(* does when it is dropped.  And the strings of its configuration, which   *)
(* the encoder and the muxer have copied as pointers.                      *)
(*                                                                         *)
(* Everything else is MediaRecorder, whose actions are taken here by a     *)
(* thread that holds a reference.  The encoder's thread and the mux thread *)
(* hold none.  One thread controls the recorder, and releases it.          *)
(***************************************************************************)
EXTENDS MediaRecorder

CONSTANTS
    Control,    \* the thread that calls everything but put
    MaxConfigs  \* bound on the setConfigParams calls

ASSUME LifetimeAssumption ==
    /\ Control \notin Putters
    /\ IsFiniteSet(Putters)
    /\ MaxConfigs \in Nat

VARIABLES
    refCount, \* ref_count
    field,    \* the Java field mNativeXMMediaRecorder is set
    ref,      \* of each Java thread: "none", "held", or "used" for its call
    weak,     \* weak_thiz is set, and its global reference exists
    loop,     \* the message thread, around xmmr_get_msg
    relPc,    \* where Control is in release, "idle" when it is not
    lastPc,   \* where the thread is that dropped the last reference
    strings,  \* the configuration whose strings mr->config points to, 0 if NULL
    encStrings, muxStrings,  \* the same of the encoder's and the muxer's copies
    configs   \* the setConfigParams calls so far

refVars == <<refCount, field, ref>>
releaseVars == <<weak, relPc, lastPc>>
stringVars == <<strings, encStrings, muxStrings, configs>>
lifeVars == <<refVars, releaseVars, loop, stringVars>>
allVars == <<vars, lifeVars>>

Callers == Putters \cup {Control}

\* native_setup has returned: its own reference is dropped, the field's is left.
LInit ==
    /\ Init
    /\ refCount = 1
    /\ field = TRUE
    /\ ref = [t \in Callers |-> "none"]
    /\ weak = TRUE
    /\ loop = "none"
    /\ relPc = "idle"
    /\ lastPc = "none"
    /\ strings = 0 /\ encStrings = 0 /\ muxStrings = 0
    /\ configs = 0

\* xmmr_dec_ref: whoever drops the last reference stops and frees.
DecRef ==
    /\ refCount' = refCount - 1
    /\ lastPc' = IF refCount' = 0 THEN "stop" ELSE lastPc

\* Mutant: the reference is taken without g_clazz.mutex, that is, counted late.
GetUncounted(t) ==
    /\ field
    /\ ref[t] = "none"
    /\ ref' = [ref EXCEPT ![t] = "held"]
    /\ UNCHANGED <<vars, refCount, field, releaseVars, loop, stringVars>>

\* jni_get_media_recorder.
Get(t) ==
    /\ field
    /\ ref[t] = "none"
    /\ refCount' = refCount + 1
    /\ ref' = [ref EXCEPT ![t] = "held"]
    /\ UNCHANGED <<vars, field, releaseVars, loop, stringVars>>

\* The call is over; one that did nothing is queue_sizes, or was refused.
Drop(t) ==
    /\ ref[t] # "none"
    /\ IF t = Control THEN ctlPc = "idle" /\ relPc = "idle" ELSE call[t] = "idle"
    /\ ref' = [ref EXCEPT ![t] = "none"]
    /\ DecRef
    /\ UNCHANGED <<vars, field, weak, relPc, loop, stringVars>>

Use(t) ==
    /\ ref[t] = "held"
    /\ ref' = [ref EXCEPT ![t] = "used"]
-----------------------------------------------------------------------------
(* The calls that leave the recorder alive. *)

\* A put that overlaps a release may not be the one that creates the mux thread.
Put(p) ==
    \/ /\ Use(p)
       /\ PutCall(p)
       /\ "settles" \in Client /\ relPc # "idle" => ~startMux
       /\ UNCHANGED <<refCount, field, releaseVars, loop, stringVars>>
    \/ PutStep(p) /\ UNCHANGED lifeVars

\* Mutant: the message thread has no reference of its own.
PrepareNoRef ==
    /\ Use(Control)
    /\ PrepareFirst
    /\ loop' = "starting"
    /\ encStrings' = strings /\ muxStrings' = strings
    /\ UNCHANGED <<refCount, field, releaseVars, strings, configs>>

\* Mutant: the muxer is configured only the first time.
PrepareMuxerOnce ==
    /\ Use(Control)
    /\ \/ /\ PrepareFirst
          /\ refCount' = refCount + 1
          /\ loop' = "starting"
          /\ muxStrings' = strings
       \/ PrepareAgain /\ UNCHANGED <<refCount, loop, muxStrings>>
    /\ encStrings' = strings
    /\ UNCHANGED <<field, releaseVars, strings, configs>>

\* prepareAsync hands the strings on, and the first time takes a reference for
\* the message thread, which message_loop drops.
Prepare ==
    /\ Use(Control)
    /\ \/ /\ PrepareFirst
          /\ refCount' = refCount + 1
          /\ loop' = "starting"
       \/ PrepareAgain /\ UNCHANGED <<refCount, loop>>
    /\ encStrings' = strings /\ muxStrings' = strings
    /\ UNCHANGED <<field, releaseVars, strings, configs>>

\* IEncoder_init sets preset and tune to NULL.
PrepareInVain ==
    /\ Use(Control)
    /\ PrepareRefused
    /\ encStrings' = 0
    /\ UNCHANGED <<refCount, field, releaseVars, loop, strings, muxStrings,
                   configs>>

StartOrStop ==
    \/ /\ Use(Control)
       /\ CallStart \/ CallStop
       /\ UNCHANGED <<refCount, field, releaseVars, loop, stringVars>>
    \/ PostRequest /\ UNCHANGED lifeVars

\* setConfigParams frees the strings of the last one, and leaves NULL when the
\* map has none or the call fails half way.  An application that waits for
\* events configures a recorder that is new or has stopped.
SetConfig ==
    /\ Use(Control)
    /\ "awaits" \in Client => calls = 0 \/ told = "STOPPED"
    /\ configs < MaxConfigs
    /\ configs' = configs + 1
    /\ strings' \in {0, configs'}
    /\ UNCHANGED <<vars, refCount, field, releaseVars, loop, encStrings,
                   muxStrings>>
-----------------------------------------------------------------------------
(* The message thread: message_loop and message_loop_n. *)

\* Mutant: the message thread takes what is queued before it looks at the abort.
LoopAbortedEmpty ==
    /\ loop = "running"
    /\ loopPc = "wait"
    /\ ~msgThread /\ msgq = <<>>
    /\ loop' = "leaving"
    /\ UNCHANGED <<vars, refVars, releaseVars, stringVars>>

\* It reads weak_thiz once, and ends when there is none.
LoopEnter ==
    /\ loop = "starting"
    /\ loop' = IF weak THEN "running" ELSE "leaving"
    /\ UNCHANGED <<vars, refVars, releaseVars, stringVars>>

Loop ==
    /\ loop = "running"
    /\ LoopStep
    /\ UNCHANGED lifeVars

\* The queue is aborted: msg_queue_get fails, whatever the queue holds.
LoopAborted ==
    /\ loop = "running"
    /\ loopPc = "wait"
    /\ ~msgThread
    /\ loop' = "leaving"
    /\ UNCHANGED <<vars, refVars, releaseVars, stringVars>>

LoopDrop ==
    /\ loop = "leaving"
    /\ loop' = "ended"
    /\ DecRef
    /\ UNCHANGED <<vars, field, ref, weak, relPc, stringVars>>
-----------------------------------------------------------------------------
(* release, which finalize and reset are too. *)

\* The application that settles does not release while threads come up: while
\* a start is not answered, nor while the put that creates the mux thread runs.
Release ==
    /\ Use(Control)
    /\ "settles" \in Client =>
          Settled /\ state # "REQ_START" /\ (startMux => PutsDone)
    /\ relPc' = "abort"
    /\ UNCHANGED <<vars, refCount, field, weak, lastPc, loop, stringVars>>

\* xm_media_recorder_msg_thread_exit: the queue is aborted ...
ReleaseAbort ==
    /\ relPc = "abort"
    /\ msgThread' = FALSE
    /\ relPc' = "join"
    /\ UNCHANGED <<encVars, muxVars, videoq, msgq, state, configured, strayVars,
                   startMux, loopVars, appVars, told, histVars, refVars, weak,
                   lastPc, loop, stringVars>>

\* Mutant: the message thread is not joined.
ReleaseNoJoin ==
    /\ relPc = "join"
    /\ relPc' = "weak"
    /\ UNCHANGED <<vars, refVars, weak, lastPc, loop, stringVars>>

\* ... and the message thread joined, if there is one.
ReleaseJoin ==
    /\ relPc = "join"
    /\ loop \in {"none", "ended"}
    /\ relPc' = "weak"
    /\ UNCHANGED <<vars, refVars, weak, lastPc, loop, stringVars>>

ReleaseWeak ==
    /\ relPc = "weak"
    /\ weak' = FALSE
    /\ relPc' = "field"
    /\ UNCHANGED <<vars, refVars, lastPc, loop, stringVars>>

\* jni_set_media_recorder(NULL): the field is cleared, and its reference dropped.
ReleaseField ==
    /\ relPc = "field"
    /\ field' = FALSE
    /\ DecRef
    /\ relPc' = "idle"
    /\ UNCHANGED <<vars, ref, weak, loop, stringVars>>

ReleaseStep == ReleaseAbort \/ ReleaseJoin \/ ReleaseWeak \/ ReleaseField
-----------------------------------------------------------------------------
(* The last reference: xm_media_recorder_stop_l without the mutex, freep_l. *)

LastGoes(from, to) ==
    /\ lastPc = from
    /\ lastPc' = to
    /\ UNCHANGED <<refVars, weak, relPc, loop>>

LastNoStop ==
    /\ LastGoes("stop", "free")
    /\ ~MayStop
    /\ UNCHANGED <<vars, stringVars>>

LastStopEncoder ==
    /\ LastGoes("stop", "stopMuxer")
    /\ MayStop
    /\ Enc!StopBegin
    /\ UNCHANGED <<muxVars, recVars, stringVars>>

LastStopMuxer ==
    /\ LastGoes("stopMuxer", "stopped")
    /\ stopPc = "idle"
    /\ Mux!MStopBegin
    /\ UNCHANGED <<encVars, recVars, stringVars>>

LastStopDone ==
    /\ LastGoes("stopped", "free")
    /\ mstopPc = "idle"
    /\ Post("STOPPED")
    /\ UNCHANGED <<encVars, muxVars, videoq, recVars, stringVars>>

\* Mutant: freep_l does not free a recorder that has stopped, either.
MayFreeOnlyError == state = "ERROR"

\* The states in which xm_media_recorder_freep_l frees.
MayFree == state \notin {"ASYNC_PREPARING", "PREPARED", "STARTED"}

LastKeep ==
    /\ LastGoes("free", "kept")
    /\ ~MayFree
    /\ UNCHANGED <<vars, stringVars>>

\* free_l: the strings, then IEncoder_freep, which stops the encoder again ...
LastFree ==
    /\ LastGoes("free", "freeEncoder")
    /\ MayFree
    /\ Enc!StopBegin
    /\ strings' = 0
    /\ UNCHANGED <<muxVars, recVars, encStrings, muxStrings, configs>>

\* ... and frees it with its queue, then muxer_freep, which stops again ...
LastFreeEncoder ==
    /\ LastGoes("freeEncoder", "freeMuxer")
    /\ stopPc = "idle"
    /\ live' = live \ Range(rgbaq)
    /\ rgbaq' = <<>>
    /\ Mux!MStopBegin
    /\ UNCHANGED <<abort, rgbaAbort, vRunning, encPc, hand, codec, frameNum, stopPc,
                   putPc, putFrame, nextFrame, starts, owed, recVars, stringVars>>

\* ... and frees the muxer, the mutex, the message queue and the recorder.
LastFreeMuxer ==
    /\ LastGoes("freeMuxer", "freed")
    /\ mstopPc = "idle"
    /\ videoq' = <<>>
    /\ msgq' = <<>>
    /\ UNCHANGED <<encVars, muxVars, recVars, stringVars>>

LastStep ==
    \/ LastNoStop \/ LastStopEncoder \/ LastStopMuxer \/ LastStopDone
    \/ LastKeep \/ LastFree \/ LastFreeEncoder \/ LastFreeMuxer
-----------------------------------------------------------------------------
Workers ==
    /\ EncoderThread \/ EncoderStop \/ MuxThread \/ MuxStop \/ StrayStep
    /\ UNCHANGED lifeVars

LNext ==
    \/ \E t \in Callers : Get(t) \/ Drop(t)
    \/ \E p \in Putters : Put(p)
    \/ Prepare \/ PrepareInVain \/ StartOrStop \/ SetConfig
    \/ LoopEnter \/ Loop \/ LoopAborted \/ LoopDrop
    \/ Release \/ ReleaseStep
    \/ LastStep
    \/ Workers

LSpec == LInit /\ [][LNext]_allVars

\* The message thread and the thread in release go on.
LFairSpec ==
    /\ LSpec
    /\ WF_allVars(LoopEnter) /\ WF_allVars(Loop)
    /\ WF_allVars(LoopAborted) /\ WF_allVars(LoopDrop)
    /\ WF_allVars(ReleaseStep)
-----------------------------------------------------------------------------
(* Properties. *)

LastPcs == {"none", "stop", "stopMuxer", "stopped", "free", "freeEncoder",
            "freeMuxer", "freed", "kept"}

LTypeOK ==
    /\ refCount \in Nat
    /\ field \in BOOLEAN
    /\ ref \in [Callers -> {"none", "held", "used"}]
    /\ weak \in BOOLEAN
    /\ loop \in {"none", "starting", "running", "leaving", "ended"}
    /\ relPc \in {"idle", "abort", "join", "weak", "field"}
    /\ lastPc \in LastPcs
    /\ {strings, encStrings, muxStrings, configs} \subseteq 0..MaxConfigs

\* The thread that stops and frees is alone: no call of any thread is in the
\* recorder or can still find it, and the message thread has left it, which is
\* why stop_l and free_l may do without the mutex (xm_media_recorder.c:84-85).
LastIsAlone ==
    lastPc # "none" =>
        /\ ~field
        /\ \A t \in Callers : ref[t] = "none"
        /\ \A p \in Putters : call[p] = "idle"
        /\ ctlPc = "idle" /\ relPc = "idle"
        /\ loop \in {"none", "ended"}
        /\ MutexFree

\* The message thread posts to Java through weak_thiz as long as it runs:
\* release deletes the global reference only when it has ended
\* (xm_media_recorder_jni.c:221-222).
WeakOutlivesLoop == loop = "running" => weak

\* A worker thread, which holds no reference, never touches an encoder or a
\* muxer that is freed, for an application that lets threads come up: it is
\* joined by one of the two stops.  (The mux thread that closes its file uses
\* nothing of the muxer any more.)
WorkersEndFirst ==
    /\ lastPc \in {"freeMuxer", "freed"} => EncodersAt = {"none"}
    /\ lastPc = "freed" => MuxersAt \subseteq {"close", "none"}

\* The strings a worker reads are those of the copy it was given: they are not
\* freed by a later setConfigParams or by free_l, which frees them before the
\* second stop joins (xm_video_encoder.c:415-420, xm_media_muxer.c:299).
StringsLive ==
    /\ "open" \in EncodersAt => encStrings \in {0, strings}
    /\ "output" \in MuxersAt => muxStrings \in {0, strings}

\* A recorder that is released once its application was told STOPPED is freed,
\* not kept, although late messages set the state: and then nothing is left, not
\* a frame that was accepted after the encoder's last flush.
StoppedIsFreed ==
    /\ lastPc = "kept" => told # "STOPPED"
    /\ lastPc = "freed" => live = {}

\* release returns, however many messages are queued: the abort wakes the
\* message thread, which drops its reference and ends, unless it is inside a
\* request already (xm_media_recorder_jni.c:221).
ReleaseReturns == relPc = "join" /\ loopPc = "wait" ~> relPc = "idle"
-----------------------------------------------------------------------------
(* The invariant by which LastIsAlone and WeakOutlivesLoop are proved.      *)

\* ref_count is the number of those that hold a reference.
Holders == {t \in Callers : ref[t] # "none"}
One(b) == IF b THEN 1 ELSE 0
RefsCounted ==
    refCount = Cardinality(Holders) + One(field)
                 + One(loop \in {"starting", "running", "leaving"})

LastHasNone == lastPc # "none" => refCount = 0

\* Who is in a call holds a reference for it.
UsersHold ==
    /\ \A p \in Putters : call[p] # "idle" => ref[p] = "used"
    /\ \A p \in Putters : putPc[p] # "idle" => call[p] = "enqueue"
    /\ ctlPc # "idle" \/ relPc # "idle" => ref[Control] = "used"

\* Only Control clears the field and deletes weak_thiz, and it does so in its
\* last call, when the message thread has been joined.
ReleaseOrder ==
    /\ relPc # "idle" => field
    /\ ref[Control] = "held" => field /\ weak
    /\ relPc \in {"weak", "field"} => loop \in {"none", "ended"}
    /\ ~weak => loop \in {"none", "ended"} /\ (relPc = "field" \/ ~field)

\* The message thread is created once, and holds the mutex only in its loop.
LoopOrder ==
    /\ loop # "running" => loopPc = "wait"
    /\ state = "INITIALIZED" => loop = "none"

LifeInv ==
    /\ LTypeOK
    /\ call \in [Putters -> CallPcs] /\ putPc \in [Putters -> Enc!PutPcs]
    /\ RefsCounted /\ LastHasNone /\ UsersHold /\ ReleaseOrder /\ LoopOrder
=============================================================================
