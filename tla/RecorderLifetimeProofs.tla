----------------------- MODULE RecorderLifetimeProofs -----------------------
(***************************************************************************)
(* The theorems about references and release, for every application that   *)
(* controls the recorder from one thread, and every number of putters.     *)
(* The second part, on what is stopped, joined and freed, is about patient *)
(* applications: MediaRecorderPatientProofs.                               *)
(***************************************************************************)
EXTENDS RecorderLifetime, MediaRecorderPatientProofs

(***************************************************************************)
(* What the steps of MediaRecorder, and through it those of the encoder    *)
(* and of the muxer, do to the few variables that the references depend on.*)
(***************************************************************************)

Shared == <<call, ctlPc, putPc, loopPc, state>>

LEMMA EncoderKeepsPutters ==
    ASSUME \/ Enc!EncoderStep \/ Enc!StopStep \/ Enc!StopBegin \/ Enc!Start
    PROVE  UNCHANGED putPc
<1> USE DEF Enc!putVars, Enc!vars, Enc!queueVars, Enc!encVars, Enc!Encoded
<1>1. CASE Enc!SetRunning
    BY <1>1 DEF Enc!SetRunning
<1>2. CASE Enc!NotifyStarted
    BY <1>2 DEF Enc!NotifyStarted
<1>3. CASE Enc!ResetAbort
    BY <1>3 DEF Enc!ResetAbort
<1>4. CASE Enc!ResetQueue
    BY <1>4 DEF Enc!ResetQueue
<1>5. CASE Enc!OpenCodec
    BY <1>5 DEF Enc!OpenCodec
<1>6. CASE Enc!OpenFails
    BY <1>6 DEF Enc!OpenFails
<1>7. CASE Enc!LoopTop
    BY <1>7 DEF Enc!LoopTop
<1>8. CASE Enc!LoopSize
    BY <1>8 DEF Enc!LoopSize
<1>9. CASE Enc!LoopAbortQueue
    BY <1>9 DEF Enc!LoopAbortQueue
<1>10. CASE Enc!GetFrame
    BY <1>10 DEF Enc!GetFrame
<1>11. CASE Enc!GetAborted
    BY <1>11 DEF Enc!GetAborted
<1>12. CASE Enc!EncodeNoPacket
    BY <1>12 DEF Enc!EncodeNoPacket
<1>13. CASE Enc!EncodePacket
    BY <1>13 DEF Enc!EncodePacket
<1>14. CASE Enc!EncodePacketRefused
    BY <1>14 DEF Enc!EncodePacketRefused
<1>15. CASE Enc!EncodeFails
    BY <1>15 DEF Enc!EncodeFails
<1>16. CASE Enc!FlushPacket
    BY <1>16 DEF Enc!FlushPacket
<1>17. CASE Enc!FlushEnds
    BY <1>17 DEF Enc!FlushEnds
<1>18. CASE Enc!FlushFails
    BY <1>18 DEF Enc!FlushFails
<1>19. CASE Enc!ClearQueue
    BY <1>19 DEF Enc!ClearQueue
<1>20. CASE Enc!RearmAbort
    BY <1>20 DEF Enc!RearmAbort
<1>21. CASE Enc!RearmQueue
    BY <1>21 DEF Enc!RearmQueue
<1>22. CASE Enc!Exit
    BY <1>22 DEF Enc!Exit
<1>23. CASE Enc!StopAbort
    BY <1>23 DEF Enc!StopAbort
<1>24. CASE Enc!StopSize
    BY <1>24 DEF Enc!StopSize
<1>25. CASE Enc!StopAbortQueue
    BY <1>25 DEF Enc!StopAbortQueue
<1>26. CASE Enc!StopWait
    BY <1>26 DEF Enc!StopWait
<1>27. CASE Enc!StopJoin
    BY <1>27 DEF Enc!StopJoin
<1>28. CASE Enc!StopBegin
    BY <1>28 DEF Enc!StopBegin
<1>29. CASE Enc!Start
    BY <1>29 DEF Enc!Start
<1> QED BY <1>1, <1>2, <1>3, <1>4, <1>5, <1>6, <1>7, <1>8, <1>9, <1>10,
           <1>11, <1>12, <1>13, <1>14, <1>15, <1>16, <1>17, <1>18, <1>19,
           <1>20, <1>21, <1>22, <1>23, <1>24, <1>25, <1>26, <1>27, <1>28, <1>29
       DEF Enc!EncoderStep, Enc!StopStep

LEMMA ThreadsKeepShared ==
    ASSUME EncoderThread \/ EncoderStop \/ MuxThread \/ MuxStop \/ StrayStep
    PROVE  UNCHANGED Shared
<1> USE DEF Shared, encVars, recVars, appVars, loopVars
<1>1. CASE EncoderThread \/ EncoderStop \/ MuxThread \/ MuxStop
    BY <1>1, EncoderKeepsPutters DEF EncoderThread, EncoderStop, MuxThread, MuxStop
<1>2. CASE \E s \in 1..MaxStarts : StrayEncoder(s)
    BY <1>2, StraySteps DEF StrayEncoder, EncOnly
<1>3. CASE \E s \in 1..MaxFrames : StrayMux(s)
    BY <1>3 DEF StrayMux
<1> QED BY <1>1, <1>2, <1>3 DEF StrayStep

\* The message thread puts nothing, and never makes the recorder new again.
LEMMA LoopKeepsPutters ==
    ASSUME LoopStep
    PROVE  /\ UNCHANGED <<call, ctlPc, putPc>>
           /\ state' = "INITIALIZED" => state = "INITIALIZED"
<1> USE DEF encVars, recVars, appVars, loopVars
<1>1. CASE TakeMessage
    BY <1>1 DEF TakeMessage
<1>2. CASE HandleFlush
    BY <1>2 DEF HandleFlush
<1>3. CASE HandlePrepared
    BY <1>3 DEF HandlePrepared
<1>4. CASE HandleEvent
    BY <1>4 DEF HandleEvent
<1>5. CASE HandleStart
    BY <1>5, EncoderKeepsPutters DEF HandleStart
<1>6. CASE ArmMux
    BY <1>6 DEF ArmMux
<1>7. CASE RefuseStart
    BY <1>7 DEF RefuseStart
<1>8. CASE HandleStop
    BY <1>8, EncoderKeepsPutters DEF HandleStop
<1>9. CASE StopMuxer
    BY <1>9 DEF StopMuxer
<1>10. CASE StopDone
    BY <1>10 DEF StopDone
<1>11. CASE RefuseStop
    BY <1>11 DEF RefuseStop
<1>12. CASE HandleStartAgain
    BY <1>12 DEF HandleStartAgain
<1> QED BY <1>1, <1>2, <1>3, <1>4, <1>5, <1>6, <1>7, <1>8, <1>9, <1>10, <1>11, <1>12
       DEF LoopStep

\* A step of put is that of a putter in a call, and of no other.
PutterMoves(p) ==
    /\ UNCHANGED <<ctlPc, loopPc, state>>
    /\ call' \in [Putters -> CallPcs] /\ putPc' \in [Putters -> Enc!PutPcs]
    /\ \A q \in Putters \ {p} : call'[q] = call[q] /\ putPc'[q] = putPc[q]
    /\ putPc'[p] # "idle" => call'[p] = "enqueue"

PutsTyped == call \in [Putters -> CallPcs] /\ putPc \in [Putters -> Enc!PutPcs]

LEMMA PutCallMoves ==
    ASSUME PutsTyped, NEW p \in Putters, PutCall(p),
           putPc[p] # "idle" => call[p] = "enqueue"
    PROVE  PutterMoves(p)
    BY DEF PutsTyped, CallPcs, Enc!PutPcs, PutCall, PutterMoves, encVars, loopVars

LEMMA PutStepMoves ==
    ASSUME PutsTyped, NEW p \in Putters, PutStep(p),
           putPc[p] # "idle" => call[p] = "enqueue"
    PROVE  PutterMoves(p) /\ call[p] # "idle"
<1> USE DEF PutsTyped, CallPcs, Enc!PutPcs, PutterMoves, encVars, recVars, appVars,
        loopVars
<1>1. CASE PutSize(p)
    BY <1>1 DEF PutSize
<1>2. CASE PutNoMemory(p)
    BY <1>2 DEF PutNoMemory
<1>3. CASE PutCopy(p)
    BY <1>3 DEF PutCopy, Enc!PutBegin
<1>4. CASE Enqueue(p)
    <2> USE <1>4 DEF Enqueue
    <2>1. CASE Unconfigured(p)
        BY <2>1 DEF Unconfigured, Enc!Reject
    <2>2. CASE Enc!EnqueueChecked(p)
        BY <2>2 DEF Enc!EnqueueChecked
    <2>3. CASE Enc!EnqueueRefused(p)
        BY <2>3 DEF Enc!EnqueueRefused, Enc!Reject
    <2>4. CASE Enc!QueuePutFails(p)
        BY <2>4 DEF Enc!QueuePutFails, Enc!Reject
    <2>5. CASE Enc!QueuePut(p)
        BY <2>5 DEF Enc!QueuePut
    <2> QED BY <2>1, <2>2, <2>3, <2>4, <2>5
<1>5. CASE Enqueued(p)
    BY <1>5 DEF Enqueued, Enc!PutReturn
<1>6. CASE NotEnqueued(p)
    BY <1>6 DEF NotEnqueued, Enc!PutReturn
<1>7. CASE PutRefused(p)
    BY <1>7 DEF PutRefused
<1>8. CASE ClaimMux(p)
    BY <1>8 DEF ClaimMux
<1>9. CASE CreateMux(p)
    BY <1>9 DEF CreateMux, Mux!MuxStart
<1>10. CASE CreateMuxAgain(p)
    BY <1>10 DEF CreateMuxAgain
<1> QED BY <1>1, <1>2, <1>3, <1>4, <1>5, <1>6, <1>7, <1>8, <1>9, <1>10
       DEF PutStep
-----------------------------------------------------------------------------
(***************************************************************************)
(* Counting.                                                               *)
(***************************************************************************)

LEMMA HoldersFinite ==
    /\ IsFiniteSet(Holders) /\ Cardinality(Holders) \in Nat
    /\ Cardinality(Holders) = 0 => Holders = {}
<1>1. IsFiniteSet(Callers)
    BY LifetimeAssumption, FS_AddElement DEF Callers
<1>2. Holders \in SUBSET Callers
    BY DEF Holders
<1>3. IsFiniteSet(Holders)
    BY <1>1, <1>2, FS_Subset
<1> QED BY <1>3, FS_CardinalityType, FS_EmptySet

LEMMA HoldersGrow ==
    ASSUME NEW t \in Callers, ref \in [Callers -> {"none", "held", "used"}],
           ref[t] = "none", ref' = [ref EXCEPT ![t] = "held"]
    PROVE  Cardinality(Holders') = Cardinality(Holders) + 1
<1>1. Holders' = Holders \cup {t} /\ t \notin Holders
    BY DEF Holders
<1>2. Cardinality(Holders \cup {t}) = Cardinality(Holders) + 1
    BY <1>1, HoldersFinite, FS_AddElement
<1> QED BY <1>1, <1>2

LEMMA HoldersShrink ==
    ASSUME NEW t \in Callers, ref \in [Callers -> {"none", "held", "used"}],
           ref[t] # "none", ref' = [ref EXCEPT ![t] = "none"]
    PROVE  /\ Cardinality(Holders') = Cardinality(Holders) - 1
           /\ Cardinality(Holders) >= 1
<1>1. Holders' = Holders \ {t} /\ t \in Holders
    BY DEF Holders
<1>2. Cardinality(Holders) \in Nat /\ Cardinality(Holders) # 0
    BY <1>1, HoldersFinite
<1>3. Cardinality(Holders \ {t}) = Cardinality(Holders) - 1
    BY <1>1, HoldersFinite, FS_RemoveElement
<1> QED BY <1>1, <1>2, <1>3

\* A call changes what its reference is for, not who has one.
LEMMA UseKeepsHolders ==
    ASSUME NEW t \in Callers, ref \in [Callers -> {"none", "held", "used"}],
           Use(t)
    PROVE  Holders' = Holders
    BY DEF Use, Holders

\* The life variables that only some steps change.
Counted == <<refCount, field, ref, loop>>

LEMMA CountKept ==
    ASSUME RefsCounted, UNCHANGED Counted
    PROVE  RefsCounted'
    BY DEF RefsCounted, Counted, Holders
-----------------------------------------------------------------------------
LEMMA LifeInit == LInit => LifeInv
<1> SUFFICES ASSUME LInit PROVE LifeInv
    OBVIOUS
<1> USE DEF LInit, Init, Enc!Init
<1>1. LTypeOK
    <2>1. weak \in BOOLEAN /\ field \in BOOLEAN
        BY Zenon
    <2>2. {strings, encStrings, muxStrings, configs} \subseteq 0..MaxConfigs
        BY LifetimeAssumption
    <2>3. /\ refCount \in Nat /\ ref \in [Callers -> {"none", "held", "used"}]
          /\ loop = "none" /\ relPc = "idle" /\ lastPc = "none"
        OBVIOUS
    <2> QED BY <2>1, <2>2, <2>3 DEF LTypeOK, LastPcs
<1>2. call \in [Putters -> CallPcs] /\ putPc \in [Putters -> Enc!PutPcs]
    BY DEF CallPcs, Enc!PutPcs
<1>3. RefsCounted
    <2>1. Holders = {}
        BY DEF Holders
    <2>2. Cardinality(Holders) = 0
        BY <2>1, FS_EmptySet
    <2> QED BY <2>2 DEF RefsCounted, One
<1>4. LastHasNone /\ UsersHold /\ LoopOrder
    BY DEF LastHasNone, UsersHold, LoopOrder
<1>5. ReleaseOrder
    BY DEF ReleaseOrder, Callers
<1> QED BY <1>1, <1>2, <1>3, <1>4, <1>5 DEF LifeInv

\* A step that changes nothing of it.
LEMMA Stutters ==
    ASSUME LifeInv, UNCHANGED <<Shared, lifeVars>>
    PROVE  LifeInv'
    BY CountKept DEF LifeInv, LTypeOK, LastHasNone, UsersHold, ReleaseOrder,
        LoopOrder, LastPcs, refVars, releaseVars, stringVars, lifeVars, Counted, Shared

\* A native method begins.
LEMMA GetStep ==
    ASSUME LifeInv, NEW t \in Callers, Get(t)
    PROVE  LifeInv'
<1> USE LifetimeAssumption
    DEF LifeInv, LTypeOK, LastHasNone, UsersHold, ReleaseOrder, LoopOrder, LastPcs,
        refVars, releaseVars, stringVars, lifeVars, Callers, Counted, Shared
<1> USE DEF Get
<1>1. UNCHANGED Shared
    BY DEF vars, recVars, encVars, loopVars, appVars, Shared
<1>2. RefsCounted'
    <2>1. /\ Cardinality(Holders') = Cardinality(Holders) + 1
          /\ Cardinality(Holders) \in Nat
        BY HoldersGrow, HoldersFinite
    <2>2. refCount' = refCount + 1 /\ field' = field /\ loop' = loop
        BY DEF Get, lifeVars, releaseVars
    <2> QED BY <2>1, <2>2 DEF RefsCounted, One
<1>3. refCount # 0
    BY HoldersFinite DEF RefsCounted, One
<1> QED BY <1>1, <1>2, <1>3

\* A native method ends.
LEMMA DropStep ==
    ASSUME LifeInv, NEW t \in Callers, Drop(t)
    PROVE  LifeInv'
<1> USE LifetimeAssumption
    DEF LifeInv, LTypeOK, LastHasNone, UsersHold, ReleaseOrder, LoopOrder, LastPcs,
        refVars, releaseVars, stringVars, lifeVars, Callers, Counted, Shared
<1> USE DEF Drop, DecRef
<1>1. UNCHANGED Shared
    BY DEF vars, recVars, encVars, loopVars, appVars, Shared
<1>2. /\ Cardinality(Holders') = Cardinality(Holders) - 1
      /\ Cardinality(Holders) >= 1
    BY HoldersShrink
<1>3. RefsCounted'
    BY <1>2, HoldersFinite DEF RefsCounted, One
<1>4. refCount >= 1
    BY <1>2, HoldersFinite DEF RefsCounted, One
<1>5. lastPc = "none"
    BY <1>4
<1> QED BY <1>1, <1>3, <1>4, <1>5

\* A putter goes on, or begins.
LEMMA PutLifeStep ==
    ASSUME LifeInv, NEW p \in Putters, Put(p)
    PROVE  LifeInv'
<1> USE LifetimeAssumption
    DEF LifeInv, LTypeOK, LastHasNone, UsersHold, ReleaseOrder, LoopOrder, LastPcs,
        refVars, releaseVars, stringVars, lifeVars, Callers, Counted
<1>1. PutsTyped /\ (putPc[p] # "idle" => call[p] = "enqueue")
    BY DEF PutsTyped
<1>2. CASE /\ Use(p) /\ PutCall(p)
           /\ UNCHANGED <<refCount, field, releaseVars, loop, stringVars>>
    <2>1. PutterMoves(p)
        BY <1>1, <1>2, PutCallMoves
    <2>2. ref' = [ref EXCEPT ![p] = "used"] /\ Holders' = Holders
        BY <1>2, UseKeepsHolders DEF Use
    <2>3. RefsCounted'
        BY <1>2, <2>2 DEF RefsCounted
    <2> QED BY <1>2, <2>1, <2>2, <2>3 DEF PutterMoves
<1>3. CASE PutStep(p) /\ UNCHANGED lifeVars
    <2>1. PutterMoves(p) /\ call[p] # "idle"
        BY <1>1, <1>3, PutStepMoves
    <2>2. RefsCounted'
        BY <1>3, CountKept
    <2> QED BY <1>3, <2>1, <2>2 DEF PutterMoves
<1> QED BY <1>2, <1>3 DEF Put

\* prepareAsync, which takes the reference of the message thread.
LEMMA PrepareStep ==
    ASSUME LifeInv, Prepare
    PROVE  LifeInv'
<1> USE LifetimeAssumption
    DEF LifeInv, LTypeOK, LastHasNone, UsersHold, ReleaseOrder, LoopOrder, LastPcs,
        refVars, releaseVars, stringVars, lifeVars, Callers, Counted
<1> USE DEF Prepare
<1>1. Use(Control) /\ Control \in Callers
    OBVIOUS
<1>2. ref' = [ref EXCEPT ![Control] = "used"] /\ Holders' = Holders
    BY <1>1, UseKeepsHolders DEF Use
<1>3. ref[Control] = "held" /\ relPc = "idle" /\ ctlPc = "idle"
    BY <1>1 DEF Use
<1>4. CASE PrepareFirst /\ refCount' = refCount + 1 /\ loop' = "starting"
    <2>1. /\ UNCHANGED <<call, ctlPc, putPc, loopPc>>
          /\ state = "INITIALIZED" /\ state' = "ASYNC_PREPARING"
        BY <1>4 DEF PrepareFirst, InitEncoder, loopVars
    <2>2. loop = "none" /\ weak
        BY <2>1, <1>3
    <2>3. RefsCounted'
        BY <1>2, <1>4, <2>2, HoldersFinite DEF RefsCounted, One
    <2>4. refCount # 0
        BY <1>3, HoldersFinite DEF RefsCounted, One
    <2> QED BY <1>2, <1>3, <1>4, <2>1, <2>2, <2>3, <2>4
<1>5. CASE PrepareAgain /\ UNCHANGED <<refCount, loop>>
    <2>1. /\ UNCHANGED <<call, ctlPc, putPc, loopPc>>
          /\ state' = "ASYNC_PREPARING"
        BY <1>5 DEF PrepareAgain, InitEncoder, loopVars
    <2>2. RefsCounted'
        BY <1>2, <1>5 DEF RefsCounted
    <2> QED BY <1>2, <1>3, <1>5, <2>1, <2>2
<1> QED BY <1>4, <1>5

\* prepareAsync in vain, and setConfigParams.
LEMMA RefusedStep ==
    ASSUME LifeInv, PrepareInVain \/ SetConfig
    PROVE  LifeInv'
<1> USE LifetimeAssumption
    DEF LifeInv, LTypeOK, LastHasNone, UsersHold, ReleaseOrder, LoopOrder, LastPcs,
        refVars, releaseVars, stringVars, lifeVars, Callers, Counted, Shared
<1>1. Use(Control) /\ UNCHANGED <<refCount, field, releaseVars, loop>>
    BY DEF PrepareInVain, SetConfig
<1>2. UNCHANGED Shared
    BY DEF PrepareInVain, SetConfig, PrepareRefused, InitEncoder, Shared, vars,
           encVars, recVars, loopVars, appVars
<1>3. {strings, encStrings, muxStrings, configs}' \subseteq 0..MaxConfigs
    BY DEF PrepareInVain, SetConfig
<1>4. ref' = [ref EXCEPT ![Control] = "used"] /\ Holders' = Holders
    BY <1>1, UseKeepsHolders DEF Use
<1>5. RefsCounted'
    BY <1>1, <1>4 DEF RefsCounted
<1>6. ref[Control] = "held" /\ field /\ weak
    BY <1>1 DEF Use
<1> QED BY <1>1, <1>2, <1>3, <1>4, <1>5, <1>6

\* start and stop.
LEMMA StartOrStopStep ==
    ASSUME LifeInv, StartOrStop
    PROVE  LifeInv'
<1> USE LifetimeAssumption
    DEF LifeInv, LTypeOK, LastHasNone, UsersHold, ReleaseOrder, LoopOrder, LastPcs,
        refVars, releaseVars, stringVars, lifeVars, Callers, Counted
<1>1. CASE /\ Use(Control) /\ (CallStart \/ CallStop)
           /\ UNCHANGED <<refCount, field, releaseVars, loop, stringVars>>
    <2>1. UNCHANGED <<call, putPc, loopPc>> /\ state' # "INITIALIZED"
        BY <1>1 DEF CallStart, CallStop, encVars, loopVars
    <2>2. ref' = [ref EXCEPT ![Control] = "used"] /\ Holders' = Holders
        BY <1>1, UseKeepsHolders DEF Use
    <2>3. RefsCounted'
        BY <1>1, <2>2 DEF RefsCounted
    <2>4. ref[Control] = "held" /\ field /\ weak
        BY <1>1 DEF Use
    <2> QED BY <1>1, <2>1, <2>2, <2>3, <2>4
<1>2. CASE PostRequest /\ UNCHANGED lifeVars
    <2>1. UNCHANGED <<call, putPc, loopPc, state>> /\ ctlPc' = "idle"
        BY <1>2 DEF PostRequest, encVars, loopVars
    <2>2. RefsCounted'
        BY <1>2, CountKept
    <2> QED BY <1>2, <2>1, <2>2
<1> QED BY <1>1, <1>2 DEF StartOrStop

\* The message thread, from its first step to its last.
LEMMA LoopLifeStep ==
    ASSUME LifeInv, LoopEnter \/ Loop \/ LoopAborted \/ LoopDrop
    PROVE  LifeInv'
<1> USE LifetimeAssumption
    DEF LifeInv, LTypeOK, LastHasNone, UsersHold, ReleaseOrder, LoopOrder, LastPcs,
        refVars, releaseVars, stringVars, lifeVars, Callers, Counted
<1>1. CASE LoopEnter \/ LoopAborted
    <2>1. UNCHANGED <<Shared, refCount, field, ref, releaseVars, stringVars>>
        BY <1>1 DEF LoopEnter, LoopAborted, vars, recVars, encVars, loopVars,
                    appVars, Shared
    <2>2. /\ loop \in {"starting", "running"} /\ loop' \in {"running", "leaving"}
          /\ loopPc = "wait"
          /\ loop' = "running" => weak
        BY <1>1 DEF LoopEnter, LoopAborted
    <2>3. RefsCounted'
        BY <2>1, <2>2 DEF RefsCounted, Holders
    <2> QED BY <2>1, <2>2, <2>3 DEF Shared
<1>2. CASE Loop
    <2>1. /\ UNCHANGED <<call, ctlPc, putPc, lifeVars>> /\ loop = "running"
          /\ state' = "INITIALIZED" => state = "INITIALIZED"
        BY <1>2, LoopKeepsPutters DEF Loop
    <2>2. RefsCounted'
        BY <2>1, CountKept
    <2> QED BY <2>1, <2>2
<1>3. CASE LoopDrop
    <2> USE <1>3 DEF LoopDrop, DecRef
    <2>1. UNCHANGED Shared
        BY DEF vars, recVars, encVars, loopVars, appVars, Shared
    <2>2. RefsCounted' /\ refCount >= 1
        BY HoldersFinite DEF RefsCounted, One, Holders
    <2>3. lastPc = "none"
        BY <2>2
    <2> QED BY <2>1, <2>2, <2>3 DEF Shared
<1> QED BY <1>1, <1>2, <1>3

\* release.
LEMMA ReleaseLifeStep ==
    ASSUME LifeInv, Release \/ ReleaseStep
    PROVE  LifeInv'
<1> USE LifetimeAssumption
    DEF LifeInv, LTypeOK, LastHasNone, UsersHold, ReleaseOrder, LoopOrder, LastPcs,
        refVars, releaseVars, stringVars, lifeVars, Callers, Counted
<1>1. CASE Release
    <2> USE <1>1 DEF Release
    <2>1. UNCHANGED Shared
        BY DEF vars, recVars, encVars, loopVars, appVars, Shared
    <2>2. ref' = [ref EXCEPT ![Control] = "used"] /\ Holders' = Holders
        BY UseKeepsHolders DEF Use
    <2>3. RefsCounted'
        BY <2>2 DEF RefsCounted
    <2>4. ref[Control] = "held" /\ field /\ weak
        BY DEF Use
    <2> QED BY <2>1, <2>2, <2>3, <2>4 DEF Shared
<1>2. CASE ReleaseAbort \/ ReleaseJoin
    <2>1. UNCHANGED <<Shared, refVars, weak, lastPc, loop, stringVars>>
        BY <1>2 DEF ReleaseAbort, ReleaseJoin, vars, recVars, encVars, loopVars,
                    appVars, Shared
    <2>2. /\ relPc # "idle" /\ relPc' \in {"join", "weak"}
          /\ relPc' = "weak" => loop \in {"none", "ended"}
        BY <1>2 DEF ReleaseAbort, ReleaseJoin
    <2>3. relPc # "field"
        BY <1>2 DEF ReleaseAbort, ReleaseJoin
    <2>4. RefsCounted'
        BY <2>1, CountKept
    <2> QED BY <2>1, <2>2, <2>3, <2>4 DEF Shared
<1>3. CASE ReleaseWeak
    <2> USE <1>3 DEF ReleaseWeak
    <2>1. UNCHANGED <<Shared, refVars, lastPc, loop, stringVars>>
        BY DEF vars, recVars, encVars, loopVars, appVars, Shared
    <2>2. RefsCounted'
        BY <2>1, CountKept
    <2>3. ref[Control] = "used" /\ field
        OBVIOUS
    <2> QED BY <2>1, <2>2, <2>3 DEF Shared
<1>4. CASE ReleaseField
    <2> USE <1>4 DEF ReleaseField, DecRef
    <2>1. UNCHANGED Shared
        BY DEF vars, recVars, encVars, loopVars, appVars, Shared
    <2>2. field /\ ref[Control] = "used"
        OBVIOUS
    <2>3. RefsCounted' /\ refCount >= 1
        BY <2>2, HoldersFinite DEF RefsCounted, One, Holders
    <2>4. lastPc = "none"
        BY <2>3
    <2>5. LTypeOK'
        <3>1. refCount' \in Nat
            BY <2>3
        <3>2. field' \in BOOLEAN /\ relPc' \in {"idle", "abort", "join", "weak", "field"}
            OBVIOUS
        <3>3. lastPc' \in LastPcs
            BY <2>4
        <3>4. UNCHANGED <<ref, weak, loop, stringVars>>
            BY DEF ReleaseField
        <3> QED BY <3>1, <3>2, <3>3, <3>4
    <2>6. LastHasNone'
        BY <2>4
    <2>7. UsersHold'
        BY <2>1, <2>2 DEF Shared
    <2>8. ReleaseOrder'
        BY <2>2
    <2>9. LoopOrder' /\ call' = call /\ putPc' = putPc
        BY <2>1 DEF Shared
    <2> QED BY <2>3, <2>5, <2>6, <2>7, <2>8, <2>9
<1> QED BY <1>1, <1>2, <1>3, <1>4 DEF ReleaseStep

\* What the last reference does.
LEMMA LastLifeStep ==
    ASSUME LifeInv, LastStep
    PROVE  LifeInv'
<1> USE LifetimeAssumption
    DEF LifeInv, LTypeOK, LastHasNone, UsersHold, ReleaseOrder, LoopOrder, LastPcs,
        refVars, releaseVars, stringVars, lifeVars, Callers, Counted
<1>1. UNCHANGED Shared
    <2> USE EncoderKeepsPutters DEF Shared, vars, encVars, recVars, loopVars, appVars
    <2>1. CASE LastNoStop \/ LastStopMuxer \/ LastStopDone \/ LastKeep
        BY <2>1 DEF LastNoStop, LastStopMuxer, LastStopDone, LastKeep
    <2>2. CASE LastStopEncoder \/ LastFree
        BY <2>2 DEF LastStopEncoder, LastFree
    <2>3. CASE LastFreeEncoder \/ LastFreeMuxer
        BY <2>3 DEF LastFreeEncoder, LastFreeMuxer
    <2> QED BY <2>1, <2>2, <2>3 DEF LastStep
<1>2. /\ UNCHANGED <<refVars, weak, relPc, loop>>
      /\ lastPc # "none" /\ lastPc' \in LastPcs
    BY DEF LastStep, LastNoStop, LastStopEncoder, LastStopMuxer, LastStopDone,
           LastKeep, LastFree, LastFreeEncoder, LastFreeMuxer, LastGoes
<1>3. /\ strings' \in {strings, 0}
      /\ UNCHANGED <<encStrings, muxStrings, configs>>
    BY DEF LastStep, LastNoStop, LastStopEncoder, LastStopMuxer, LastStopDone,
           LastKeep, LastFree, LastFreeEncoder, LastFreeMuxer
<1>4. RefsCounted'
    BY <1>2, CountKept
<1> QED BY <1>1, <1>2, <1>3, <1>4 DEF Shared

-----------------------------------------------------------------------------
LEMMA LifeStep == LifeInv /\ [LNext]_allVars => LifeInv'
<1> SUFFICES ASSUME LifeInv, [LNext]_allVars PROVE LifeInv'
    OBVIOUS
<1>1. CASE Workers
    BY <1>1, ThreadsKeepShared, Stutters DEF Workers
<1>2. CASE UNCHANGED allVars
    BY <1>2, Stutters DEF allVars, vars, recVars, encVars, loopVars, appVars, Shared
<1> QED BY <1>1, <1>2, GetStep, DropStep, PutLifeStep, PrepareStep, RefusedStep,
           StartOrStopStep, LoopLifeStep, ReleaseLifeStep, LastLifeStep
        DEF LNext

\* The inductive invariant: the references are counted.
THEOREM LifeInvariant == LSpec => []LifeInv
<1> QED BY LifeInit, LifeStep, PTL DEF LSpec

LEMMA Alone == LifeInv => LastIsAlone
<1> SUFFICES ASSUME LifeInv, lastPc # "none" PROVE LastIsAlone
    BY DEF LastIsAlone
<1>1. refCount = 0
    BY DEF LifeInv, LastHasNone
<1>2. Holders = {} /\ ~field /\ loop \notin {"starting", "running", "leaving"}
    BY <1>1, HoldersFinite DEF LifeInv, RefsCounted, One
<1>3. \A t \in Callers : ref[t] = "none"
    BY <1>2 DEF Holders
<1> QED BY <1>2, <1>3 DEF LifeInv, LTypeOK, UsersHold, LoopOrder, LastIsAlone,
           MutexFree, Callers

\* Whoever stops and frees the recorder without its mutex is alone with it:
\* LastIsAlone.
THEOREM LastReferenceIsAlone == LSpec => []LastIsAlone
<1> QED BY Alone, LifeInvariant, PTL

\* The message thread never posts to Java through a reference that is deleted.
THEOREM WeakReferenceOutlivesLoop == LSpec => []WeakOutlivesLoop
<1>1. LifeInv => WeakOutlivesLoop
    BY DEF LifeInv, ReleaseOrder, WeakOutlivesLoop
<1> QED BY <1>1, LifeInvariant, PTL
-----------------------------------------------------------------------------
(***************************************************************************)
(* The end of a recorder whose application is patient.  Until release has  *)
(* aborted the message queue every step is one of the recorder, which is   *)
(* as PatientInv says.  From then on no message is taken: nothing starts   *)
(* any more, and what runs is joined before it is freed, by the stop that  *)
(* is under way or by the last reference.  A recorder that is recording    *)
(* is an exception: it is kept.                                            *)
(***************************************************************************)

Over == relPc \in {"join", "weak", "field"} \/ ~field

Freeing == {"freeEncoder", "freeMuxer", "freed"}

Before ==
    /\ PatientInv /\ NoStrays
    /\ relPc = "abort" => state # "REQ_START" /\ ctlPc = "idle"
    /\ calls = 0 => state = "INITIALIZED"

After ==
    /\ ~msgThread /\ ctlPc = "idle"
    /\ state \notin {"REQ_START", "ERROR"}
    /\ told = "STOPPED" => state = "STOPPED"
    /\ state = "STARTED" => loopPc = "wait" /\ lastPc \notin Freeing
    /\ lastPc = "kept" => ~MayFree

\* What a recorder that is not recording is left with: the message in hand, and
\* threads that are through with their starts.
Winding ==
    /\ NoStrays
    /\ \A p \in Putters : call[p] = "idle"
    /\ loopPc = "handle" =>
          \/ state = "ASYNC_PREPARING" /\ message \in {"FLUSH", "PREPARED"}
          \/ state = "REQ_STOP" /\ message \in {"REQ_STOP", "STOPPED"}
    /\ state # "REQ_STOP" \/ (loopPc = "handle" /\ message = "STOPPED")
          => encPc = "none" /\ muxPc \in {"close", "none"}
    /\ encPc \notin Enc!ReadyPcs
    /\ muxPc \notin Mux!StartPcs \cup Mux!OpenPcs \cup {"fail"}
    /\ Enc!RunningTracksThread /\ Mux!MuxRunningTracksThread

\* Whom the last reference has joined.
Joined ==
    /\ lastPc = "stopMuxer" /\ stopPc = "idle" => encPc = "none"
    /\ lastPc \in {"stopped", "free", "kept"} \cup Freeing => encPc = "none"
    /\ lastPc = "stopped" /\ mstopPc = "idle" => muxPc \in {"close", "none"}
    /\ lastPc \in {"free", "kept"} \cup Freeing => muxPc \in {"close", "none"}
    /\ lastPc \in {"freeMuxer", "freed"} => rgbaq = <<>>

\* The strings that were handed on are those of the recorder, while it is in use.
Given ==
    state \notin {"INITIALIZED", "STOPPED"} /\ lastPc \notin Freeing
       => encStrings \in {0, strings} /\ muxStrings \in {0, strings}

AfterInv ==
    /\ After
    /\ state # "STARTED" => Winding /\ Joined

EndInv ==
    /\ RecInv /\ LifeInv /\ Given
    /\ IF Over THEN AfterInv ELSE Before

LEMMA EndInit == LInit => EndInv
<1> SUFFICES ASSUME LInit PROVE EndInv
    OBVIOUS
<1>1. Init /\ field /\ relPc = "idle" /\ state = "INITIALIZED"
    BY DEF LInit, Init
<1> QED BY <1>1, LifeInit, RecInit, PatientInit, NoStraysInit
        DEF EndInv, Over, Before, Given

\* Most steps are the recorder's.
LEMMA RecorderSteps ==
    ASSUME [LNext]_allVars
    PROVE  [Next]_vars \/ ReleaseAbort \/ LastStep
<1>1. CASE \E t \in Callers : Get(t) \/ Drop(t)
    BY <1>1 DEF Get, Drop
<1>2. CASE \E p \in Putters : Put(p)
    BY <1>2 DEF Put, Next
<1>3. CASE Prepare \/ PrepareInVain \/ StartOrStop \/ SetConfig
    BY <1>3 DEF Prepare, PrepareInVain, StartOrStop, SetConfig, Next
<1>4. CASE LoopEnter \/ Loop \/ LoopAborted \/ LoopDrop
    BY <1>4 DEF LoopEnter, Loop, LoopAborted, LoopDrop, Next
<1>5. CASE Release \/ ReleaseStep
    BY <1>5 DEF Release, ReleaseStep, ReleaseJoin, ReleaseWeak, ReleaseField
<1>6. CASE Workers
    BY <1>6 DEF Workers, Next
<1>7. CASE UNCHANGED allVars
    BY <1>7 DEF allVars
<1> QED BY <1>1, <1>2, <1>3, <1>4, <1>5, <1>6, <1>7 DEF LNext

\* Control has no call before its release, and none after.
LEMMA ControlIsFree ==
    ASSUME LifeInv, Use(Control)
    PROVE  relPc = "idle" /\ ctlPc = "idle" /\ field /\ ~Over /\ lastPc = "none"
<1>1. ref[Control] = "held" /\ Control \in Callers
    BY DEF Use, Callers
<1>2. relPc = "idle" /\ ctlPc = "idle" /\ field
    BY <1>1 DEF LifeInv, UsersHold, ReleaseOrder
<1>3. lastPc = "none"
    BY <1>1, Alone DEF LastIsAlone
<1> QED BY <1>2, <1>3 DEF Over

\* The last reference is dropped once.
LEMMA LastBegins ==
    ASSUME LifeInv, [LNext]_allVars, ~LastStep
    PROVE  lastPc' = lastPc \/ (lastPc = "none" /\ lastPc' = "stop")
<1>1. CASE \E t \in Callers : Get(t) \/ Drop(t)
    BY <1>1, Alone DEF Get, Drop, DecRef, releaseVars, LastIsAlone
<1>2. CASE \E p \in Putters : Put(p)
    BY <1>2 DEF Put, releaseVars, lifeVars
<1>3. CASE Prepare \/ PrepareInVain \/ StartOrStop \/ SetConfig
    BY <1>3 DEF Prepare, PrepareInVain, StartOrStop, SetConfig, releaseVars, lifeVars
<1>4. CASE LoopEnter \/ Loop \/ LoopAborted \/ LoopDrop
    BY <1>4, Alone DEF LoopEnter, Loop, LoopAborted, LoopDrop, DecRef, releaseVars,
        lifeVars, LastIsAlone
<1>5. CASE Release \/ ReleaseStep
    BY <1>5, Alone DEF Release, ReleaseStep, ReleaseAbort, ReleaseJoin, ReleaseWeak,
        ReleaseField, DecRef, LastIsAlone
<1>6. CASE Workers \/ UNCHANGED allVars
    BY <1>6 DEF Workers, releaseVars, lifeVars, allVars
<1> QED BY <1>1, <1>2, <1>3, <1>4, <1>5, <1>6 DEF LNext

\* What is over stays over, and it is release that ends it.
LEMMA OverStays ==
    ASSUME LifeInv, [LNext]_allVars
    PROVE  /\ Over => Over'
           /\ ~Over /\ Over' => ReleaseAbort
           /\ ReleaseAbort => ~Over /\ relPc = "abort" /\ Over'
           /\ LastStep => Over
<1>1. LastStep => Over
    <2>1. LastStep => lastPc # "none"
        BY DEF LastStep, LastNoStop, LastStopEncoder, LastStopMuxer, LastStopDone,
               LastKeep, LastFree, LastFreeEncoder, LastFreeMuxer, LastGoes
    <2> QED BY <2>1, Alone DEF LastIsAlone, Over
<1>2. ReleaseAbort => ~Over /\ relPc = "abort" /\ Over'
    BY DEF ReleaseAbort, Over, LifeInv, ReleaseOrder
<1>3. CASE ReleaseStep
    BY <1>1, <1>2, <1>3 DEF ReleaseStep, ReleaseJoin, ReleaseWeak, ReleaseField,
        refVars, Over
<1>4. CASE Release
    BY <1>1, <1>2, <1>4, ControlIsFree DEF Release, Over
<1>5. CASE LastStep
    BY <1>1, <1>2, <1>5 DEF LastStep, LastNoStop, LastStopEncoder, LastStopMuxer,
        LastStopDone, LastKeep, LastFree, LastFreeEncoder, LastFreeMuxer, LastGoes,
        refVars, Over
<1>6. CASE \E t \in Callers : Get(t) \/ Drop(t)
    BY <1>1, <1>2, <1>6 DEF Get, Drop, releaseVars, Over
<1>7. CASE \E p \in Putters : Put(p)
    BY <1>1, <1>2, <1>7 DEF Put, releaseVars, refVars, lifeVars, Over
<1>8. CASE Prepare \/ PrepareInVain \/ StartOrStop \/ SetConfig
    BY <1>1, <1>2, <1>8 DEF Prepare, PrepareInVain, StartOrStop, SetConfig, releaseVars,
        refVars, lifeVars, Over
<1>9. CASE LoopEnter \/ Loop \/ LoopAborted \/ LoopDrop
    BY <1>1, <1>2, <1>9 DEF LoopEnter, Loop, LoopAborted, LoopDrop, releaseVars, refVars,
        lifeVars, Over
<1>10. CASE Workers \/ UNCHANGED allVars
    BY <1>1, <1>2, <1>10 DEF Workers, releaseVars, refVars, lifeVars, allVars, Over
<1> QED BY <1>1, <1>2, <1>3, <1>4, <1>5, <1>6, <1>7, <1>8, <1>9, <1>10 DEF LNext

\* Who changes the state, and who calls.
LEMMA StateMoves ==
    ASSUME [LNext]_allVars
    PROVE  UNCHANGED <<state, calls, ctlPc>> \/ Prepare \/ PrepareInVain \/ StartOrStop \/ Loop
<1> USE DEF recVars, appVars
<1>1. ASSUME NEW p \in Putters, Put(p)
      PROVE  UNCHANGED <<state, calls, ctlPc>>
    BY <1>1 DEF Put, PutCall, PutStep, PutSize, PutNoMemory, PutCopy, Enqueue, Enqueued,
        NotEnqueued, PutRefused, ClaimMux, CreateMux, CreateMuxAgain
<1>2. CASE Workers
    BY <1>2 DEF Workers, EncoderThread, EncoderStop, MuxThread, MuxStop, StrayStep,
        StrayEncoder, StrayMux
<1>3. CASE (\E t \in Callers : Get(t) \/ Drop(t)) \/ SetConfig
    BY <1>3 DEF Get, Drop, SetConfig, vars
<1>4. CASE LoopEnter \/ LoopAborted \/ LoopDrop
    BY <1>4 DEF LoopEnter, LoopAborted, LoopDrop, vars
<1>5. CASE Release \/ ReleaseStep
    BY <1>5 DEF Release, ReleaseStep, ReleaseAbort, ReleaseJoin, ReleaseWeak,
          ReleaseField, vars
<1>6. CASE LastStep
    BY <1>6 DEF LastStep, LastNoStop, LastStopEncoder, LastStopMuxer, LastStopDone,
        LastKeep, LastFree, LastFreeEncoder, LastFreeMuxer, vars
<1>7. CASE UNCHANGED allVars
    BY <1>7 DEF allVars, vars
<1> QED BY <1>1, <1>2, <1>3, <1>4, <1>5, <1>6, <1>7 DEF LNext

\* What the message thread does to the state.
LEMMA LoopMoves ==
    ASSUME LoopStep
    PROVE  /\ UNCHANGED <<calls, msgThread, ctlPc, call>>
           /\ state' = state
                 \/ (state = "ASYNC_PREPARING" /\ state' = "PREPARED")
                 \/ state' \in {"STARTED", "STOPPED", "ERROR"}
<1> USE DEF recVars, appVars, setVars
<1>1. CASE TakeMessage \/ HandleFlush \/ HandlePrepared \/ HandleEvent
    BY <1>1 DEF TakeMessage, HandleFlush, HandlePrepared, HandleEvent
<1>2. CASE HandleStart \/ HandleStartAgain \/ ArmMux \/ RefuseStart
    BY <1>2 DEF HandleStart, HandleStartAgain, ArmMux, RefuseStart
<1>3. CASE HandleStop \/ StopMuxer \/ StopDone \/ RefuseStop
    BY <1>3 DEF HandleStop, StopMuxer, StopDone, RefuseStop
<1> QED BY <1>1, <1>2, <1>3 DEF LoopStep

\* No message is under way to a recorder that is new or has stopped.
LEMMA LoopRests ==
    ASSUME Flow, LoopStep
    PROVE  state \notin {"INITIALIZED", "PREPARED", "STARTED", "STOPPED"}
    BY DEF Flow, Resting, LoopStep, TakeMessage, HandleFlush, HandlePrepared, HandleEvent,
        HandleStart, HandleStartAgain, ArmMux, RefuseStart, HandleStop, StopMuxer,
        StopDone, RefuseStop

\* Release begins in a step of its own.
LEMMA ReleaseBegins ==
    ASSUME [LNext]_allVars, ~ReleaseStep, ~LastStep, relPc' = "abort"
    PROVE  relPc = "abort" \/ (Release /\ UNCHANGED vars)
<1>1. CASE \E p \in Callers : Get(p) \/ Drop(p)
    BY <1>1 DEF Get, Drop, releaseVars
<1>2. CASE \E p \in Putters : Put(p)
    BY <1>2 DEF Put, releaseVars, lifeVars
<1>3. CASE Prepare \/ PrepareInVain \/ StartOrStop \/ SetConfig
    BY <1>3 DEF Prepare, PrepareInVain, StartOrStop, SetConfig, releaseVars, lifeVars
<1>4. CASE LoopEnter \/ Loop \/ LoopAborted \/ LoopDrop
    BY <1>4 DEF LoopEnter, Loop, LoopAborted, LoopDrop, releaseVars, lifeVars
<1>5. CASE Workers \/ UNCHANGED allVars
    BY <1>5 DEF Workers, releaseVars, lifeVars, allVars
<1>6. CASE Release
    BY <1>6 DEF Release
<1> QED BY <1>1, <1>2, <1>3, <1>4, <1>5, <1>6 DEF LNext

\* The steps before release has aborted the queue.
LEMMA BeforeStep ==
    ASSUME Patient, EndInv, [LNext]_allVars, ~Over'
    PROVE  Before'
<1>1. /\ RecInv /\ LifeInv /\ ~Over /\ PatientInv /\ NoStrays /\ Flow /\ [Next]_vars
      /\ (relPc = "abort" => state # "REQ_START" /\ ctlPc = "idle")
      /\ (calls = 0 => state = "INITIALIZED")
    BY OverStays, RecorderSteps DEF EndInv, Before, PatientInv
<1>2. PatientInv' /\ NoStrays'
    BY <1>1, PatientStep, NoStraysStep
<1>3. relPc' = "abort" => state # "REQ_START" /\ ctlPc = "idle"
    <2>1. ~ReleaseStep \/ relPc' # "abort"
        BY DEF ReleaseStep, ReleaseAbort, ReleaseJoin, ReleaseWeak, ReleaseField
    <2>2. Release => state # "REQ_START" /\ ctlPc = "idle"
        BY <1>1, ControlIsFree DEF Release, Patient, ClientKind
    <2> QED BY <1>1, <2>1, <2>2, OverStays, ReleaseBegins
<1>4. CASE UNCHANGED <<state, calls, ctlPc>>
    BY <1>1, <1>2, <1>3, <1>4 DEF Before
<1>5. CASE Loop
    <2>1. /\ UNCHANGED <<calls, ctlPc>> /\ state # "INITIALIZED"
          /\ state' = "REQ_START" => state = "REQ_START"
        BY <1>1, <1>5, LoopMoves, LoopRests DEF Loop
    <2> QED BY <1>1, <1>2, <1>3, <2>1 DEF Before
<1>6. CASE Prepare \/ PrepareInVain \/ StartOrStop
    <2>1. CASE PostRequest /\ UNCHANGED lifeVars
        BY <1>1, <1>2, <1>3, <2>1 DEF PostRequest, Before
    <2>2. CASE Use(Control)
        <3>1. relPc' = "idle"
            BY <1>1, <1>6, <2>2, ControlIsFree DEF Prepare, PrepareInVain, StartOrStop,
                releaseVars, lifeVars
        <3>2. calls \in Nat
            BY <1>1, RecorderAssumption DEF RecInv, TypeOK
        <3>3. calls' = calls + 1 \/ UNCHANGED <<state, calls>>
            BY <1>6 DEF Prepare, PrepareInVain, StartOrStop, PrepareFirst, PrepareAgain,
                PrepareRefused, CallStart, CallStop, PostRequest
        <3> QED BY <1>1, <1>2, <3>1, <3>2, <3>3 DEF Before
    <2> QED BY <1>6, <2>1, <2>2 DEF Prepare, PrepareInVain, StartOrStop
<1> QED BY <1>4, <1>5, <1>6, StateMoves
-----------------------------------------------------------------------------
LEMMA NoStraysKept ==
    ASSUME NoStrays, UNCHANGED strayVars
    PROVE  NoStrays'
    BY DEF NoStrays, strayVars

\* release aborts the message queue.
LEMMA AbortStep ==
    ASSUME Patient, EndInv, ReleaseAbort
    PROVE  AfterInv'
<1>1. /\ RecInv /\ LifeInv /\ relPc = "abort" /\ ~Over /\ Before
      /\ Flow /\ EncoderUp /\ EncoderStopped /\ MuxerUp /\ MuxerStopped
    <2>1. ~Over /\ relPc = "abort"
        BY DEF ReleaseAbort, EndInv, LifeInv, ReleaseOrder, Over
    <2> QED BY <2>1 DEF EndInv, Before, PatientInv
<1>2. /\ lastPc = "none" /\ ctlPc = "idle" /\ state # "REQ_START"
      /\ state \in {"INITIALIZED", "ASYNC_PREPARING", "PREPARED", "REQ_START", "STARTED",
                    "REQ_STOP", "STOPPED", "ERROR"}
    BY <1>1, Alone DEF Before, Over, LastIsAlone, RecInv, TypeOK, States
<1>3. /\ ~msgThread'
      /\ UNCHANGED <<ctlPc, state, told, loopPc, message, call, encPc, vRunning, muxPc,
                     mRunning, stopPc, mstopPc, rgbaq, lastPc, strayVars>>
    BY DEF ReleaseAbort, encVars, muxVars, loopVars, appVars
<1>4. After'
    BY <1>1, <1>2, <1>3 DEF After, Flow, Resting, Freeing
<1>5. ASSUME state # "STARTED" PROVE Winding' /\ Joined'
    <2>1. \A p \in Putters : call[p] = "idle"
        BY <1>1, <1>5, NoPut DEF Before
    <2>2. loopPc = "handle" =>
             \/ state = "ASYNC_PREPARING" /\ message \in {"FLUSH", "PREPARED"}
             \/ state = "REQ_STOP" /\ message \in {"REQ_STOP", "STOPPED"}
        BY <1>1, <1>2, <1>5 DEF Flow, Resting, Carried, Asked
    <2>3. state # "REQ_STOP" => encPc = "none" /\ muxPc \in {"close", "none"}
        BY <1>1, <1>2, <1>5 DEF Flow, EncoderUp, MuxerUp
    <2>4. loopPc = "handle" /\ message = "STOPPED" => state = "REQ_STOP" /\ EncoderIsStopped
        BY <1>1, <2>2 DEF Flow, Asked, Carried, EncoderIsStopped
    <2>5. loopPc = "handle" /\ message = "STOPPED"
             => encPc = "none" /\ muxPc \in {"close", "none"}
        BY <1>1, <2>4 DEF EncoderUp, MuxerUp, MuxerStopped
    <2>6. state = "REQ_STOP" => \/ Asked("REQ_STOP") \/ loopPc = "stopEncoder"
                                \/ EncoderIsStopped
        BY <1>1 DEF Flow, EncoderIsStopped
    <2>7. encPc \notin Enc!ReadyPcs
        BY <1>1, <2>3, <2>6 DEF EncoderUp, Enc!ReadyPcs, Enc!LoopPcs
    <2>8. muxPc \notin Mux!StartPcs \cup Mux!OpenPcs \cup {"fail"}
        <3>1. muxPc # "fail"
            BY <1>1 DEF MuxerStopped
        <3> QED BY <1>1, <2>3, <3>1 DEF MuxerUp, Mux!StartPcs, Mux!OpenPcs, Mux!WritePcs
    <2>0. NoStrays'
        BY <1>1, <1>3, NoStraysKept DEF Before
    <2>9. Winding'
        BY <1>1, <1>3, <2>0, <2>1, <2>2, <2>3, <2>5, <2>7, <2>8 DEF Winding,
              EncoderStopped, MuxerStopped, Enc!RunningTracksThread,
              Mux!MuxRunningTracksThread
    <2> QED BY <1>2, <1>3, <2>9 DEF Joined, Freeing
<1> QED BY <1>3, <1>4, <1>5 DEF AfterInv

\* Steps on references alone.
LEMMA BookStep ==
    ASSUME LifeInv, AfterInv, [LNext]_allVars, ~LastStep, UNCHANGED vars
    PROVE  AfterInv'
<1>1. UNCHANGED <<msgThread, ctlPc, state, told, loopPc, message, call, encPc, vRunning,
                  muxPc, mRunning, stopPc, mstopPc, rgbaq, strayVars>>
    BY DEF vars, encVars, muxVars, recVars, setVars, loopVars, appVars
<1>2. lastPc' = lastPc \/ (lastPc = "none" /\ lastPc' = "stop")
    BY LastBegins
<1>3. After'
    BY <1>1, <1>2 DEF AfterInv, After, Freeing, MayFree
<1>4. state # "STARTED" => Winding'
    BY <1>1, NoStraysKept DEF AfterInv, Winding, Enc!RunningTracksThread,
          Mux!MuxRunningTracksThread
<1>5. state # "STARTED" => Joined'
    BY <1>1, <1>2 DEF AfterInv, Joined, Freeing
<1> QED BY <1>1, <1>3, <1>4, <1>5 DEF AfterInv

\* The message thread ends what it has in hand, or leaves it.
LEMMA AfterLoop ==
    ASSUME LifeInv, AfterInv, Loop
    PROVE  AfterInv'
<1>1. LoopStep /\ UNCHANGED lifeVars /\ lastPc = "none" /\ After
    BY Alone DEF Loop, LastIsAlone, AfterInv
<1>2. state # "STARTED"
    BY <1>1 DEF After, LoopStep, TakeMessage, HandleFlush, HandlePrepared, HandleEvent,
          HandleStart, HandleStartAgain, ArmMux, RefuseStart, HandleStop, StopMuxer,
          StopDone, RefuseStop
<1>3. Winding
    BY <1>2 DEF AfterInv
<1>4. ~TakeMessage /\ ~HandleStart /\ ~HandleStartAgain /\ ~RefuseStart
    BY <1>1, <1>3 DEF TakeMessage, HandleStart, HandleStartAgain, RefuseStart, After,
        Winding
<1>5. KeptByLoop /\ lastPc' = lastPc /\ UNCHANGED strayVars
    BY <1>1, <1>4, LoopFrame DEF KeptByLoop, lifeVars, releaseVars
<1>6. /\ encPc' = encPc
      /\ \/ /\ UNCHANGED <<state, told>>
            /\ loopPc' # "handle"
         \/ /\ state = "ASYNC_PREPARING" /\ state' = "PREPARED" /\ told' = "PREPARED"
            /\ loopPc' = "wait"
         \/ /\ loopPc = "handle" /\ message = "STOPPED"
            /\ state' = "STOPPED" /\ told' = "STOPPED" /\ loopPc' = "wait"
    <2>1. CASE HandleFlush \/ HandlePrepared \/ HandleEvent
        BY <1>3, <2>1 DEF HandleFlush, HandlePrepared, HandleEvent, Winding, encVars
    <2>2. CASE ArmMux \/ RefuseStop
        BY <2>2 DEF ArmMux, RefuseStop, encVars
    <2>3. CASE HandleStop \/ StopMuxer \/ StopDone
        BY <2>3 DEF HandleStop, StopMuxer, StopDone, Enc!StopBegin, Enc!encVars, encVars
    <2> QED BY <1>1, <1>4, <2>1, <2>2, <2>3 DEF LoopStep
<1>7. state' # "STARTED" /\ After'
    BY <1>1, <1>2, <1>5, <1>6 DEF After, KeptByLoop, Freeing
<1>8. Winding'
    BY <1>2, <1>3, <1>5, <1>6, NoStraysKept DEF Winding, KeptByLoop,
          Enc!RunningTracksThread, Mux!MuxRunningTracksThread
<1>9. Joined'
    BY <1>1, <1>5 DEF Joined, Freeing
<1> QED BY <1>7, <1>8, <1>9 DEF AfterInv

\* Only a recorder that is recording is put to.
LEMMA AfterPut ==
    ASSUME Patient, LifeInv, AfterInv, NEW p \in Putters, Put(p)
    PROVE  AfterInv'
<1>1. state = "STARTED"
    <2>1. SUFFICES ASSUME state # "STARTED" PROVE FALSE
        OBVIOUS
    <2>2. Winding /\ After
        BY <2>1 DEF AfterInv
    <2>3. CASE PutStep(p)
        <3>1. PutsTyped /\ (putPc[p] # "idle" => call[p] = "enqueue")
            BY DEF PutsTyped, LifeInv, UsersHold
        <3> QED BY <2>2, <2>3, <3>1, PutStepMoves DEF Winding
    <2>4. CASE PutCall(p)
        <3>1. state # "REQ_STOP" /\ encPc \in Enc!LoopPcs
            BY <2>4 DEF PutCall, MayPut, Ready, Patient, ClientKind
        <3> QED BY <2>2, <3>1 DEF Winding, Enc!LoopPcs
    <2> QED BY <2>3, <2>4 DEF Put
<1>2. UNCHANGED <<msgThread, ctlPc, state, told, loopPc, lastPc>>
    BY DEF Put, PutCall, PutStep, PutSize, PutNoMemory, PutCopy, Enqueue, Enqueued,
        NotEnqueued, PutRefused, ClaimMux, CreateMux, CreateMuxAgain, setVars, loopVars,
        appVars, releaseVars, lifeVars
<1> QED BY <1>1, <1>2 DEF AfterInv, After, Freeing, MayFree

\* The workers go on to their ends, and nothing makes them begin again.
LEMMA AfterWorkers ==
    ASSUME Patient, LifeInv, AfterInv, Workers
    PROVE  AfterInv'
<1>1. UNCHANGED lifeVars /\ After
    BY DEF Workers, AfterInv
<1>2. UNCHANGED <<msgThread, ctlPc, state, told, loopPc, message, call, lastPc>>
    BY <1>1 DEF Workers, EncoderThread, EncoderStop, MuxThread, MuxStop, StrayStep,
          StrayEncoder, StrayMux, recVars, setVars, loopVars, appVars, lifeVars,
          releaseVars
<1>3. After'
    BY <1>1, <1>2 DEF After, MayFree
<1>4. ASSUME state # "STARTED" PROVE Winding' /\ Joined'
    <2>1. Winding /\ Joined
        BY <1>4 DEF AfterInv
    <2>0. ~StrayStep
        BY <2>1, NoStrayStep DEF Winding
    <2>6. NoStrays'
        BY <2>0, <2>1, NoStraysKept DEF Workers, EncoderThread, EncoderStop, MuxThread,
            MuxStop, Winding, recVars, setVars
    <2>2. CASE EncoderThread
        <3>1. /\ EncoderMove
              /\ UNCHANGED <<stopPc, muxPc, mstopPc, mRunning>>
            BY <2>2, EncoderMoves
        <3>2. encPc # "none" /\ encPc' \notin Enc!ReadyPcs
            BY <2>1, <3>1 DEF Winding, EncoderMove, Enc!ReadyPcs, Enc!LoopPcs, Enc!EndPcs
        <3>3. vRunning' <=> encPc' \notin {"none", "created"}
            <4> USE <2>1, <2>2 DEF Winding, Enc!RunningTracksThread, EncoderThread,
                    Enc!encVars
            <4>1. CASE Enc!SetRunning \/ Enc!NotifyStarted \/ Enc!ResetAbort
                         \/ Enc!ResetQueue \/ Enc!OpenCodec \/ Enc!OpenFails
                BY <4>1 DEF Enc!SetRunning, Enc!NotifyStarted, Enc!ResetAbort,
                   Enc!ResetQueue, Enc!OpenCodec, Enc!OpenFails
            <4>2. CASE Enc!LoopTop \/ Enc!LoopSize \/ Enc!LoopAbortQueue \/ Enc!GetFrame
                         \/ Enc!GetAborted
                BY <4>2 DEF Enc!LoopTop, Enc!LoopSize, Enc!LoopAbortQueue, Enc!GetFrame,
                   Enc!GetAborted
            <4>3. CASE Enc!Encoded \/ Enc!EncodeFails
                BY <4>3 DEF Enc!Encoded, Enc!EncodeFails
            <4>4. CASE Enc!FlushPacket \/ Enc!FlushEnds \/ Enc!FlushFails
                BY <4>4 DEF Enc!FlushPacket, Enc!FlushEnds, Enc!FlushFails
            <4>5. CASE Enc!ClearQueue \/ Enc!RearmAbort \/ Enc!RearmQueue \/ Enc!Exit
                BY <4>5 DEF Enc!ClearQueue, Enc!RearmAbort, Enc!RearmQueue, Enc!Exit
            <4> QED BY <4>1, <4>2, <4>3, <4>4, <4>5 DEF Enc!EncoderStep,
                    Enc!EncodeNoPacket, Enc!EncodePacket, Enc!EncodePacketRefused
        <3>4. Winding'
            BY <1>2, <2>1, <2>6, <3>1, <3>2, <3>3 DEF Winding, Enc!RunningTracksThread,
                Mux!MuxRunningTracksThread
        <3>5. Joined'
            BY <1>2, <2>1, <3>1, <3>2 DEF Joined, Freeing
        <3> QED BY <3>4, <3>5
    <2>3. CASE EncoderStop
        <3>1. /\ UNCHANGED <<encPc, rgbaq, muxPc, mstopPc, mRunning>> /\ stopPc # "idle"
            BY <2>3 DEF EncoderStop, Enc!StopStep, Enc!StopAbort, Enc!StopSize,
                  Enc!StopAbortQueue, Enc!StopWait, Enc!StopJoin, Enc!encVars,
                  Enc!queueVars, muxVars
        <3>2. /\ stopPc' = "idle" => encPc = "none"
              /\ vRunning' = vRunning \/ (vRunning' = FALSE /\ encPc = "none")
            BY <2>1, <2>3 DEF EncoderStop, Enc!StopStep, Enc!StopAbort, Enc!StopSize,
                Enc!StopAbortQueue, Enc!StopWait, Enc!StopJoin, Enc!encVars, Winding,
                Enc!RunningTracksThread, Enc!ReadyPcs
        <3>3. Winding'
            BY <1>2, <2>1, <2>6, <3>1, <3>2 DEF Winding, Enc!RunningTracksThread,
                Mux!MuxRunningTracksThread
        <3>4. Joined'
            BY <1>2, <2>1, <3>1, <3>2 DEF Joined, Freeing
        <3> QED BY <3>3, <3>4
    <2>4. CASE MuxThread
        <3>1. /\ MuxerMove
              /\ UNCHANGED <<encPc, stopPc, vRunning, rgbaq, mstopPc>>
            BY <2>1, <2>4, MuxerMoves DEF Winding
        <3>2. /\ muxPc \notin {"none"}
              /\ muxPc' \notin Mux!StartPcs \cup Mux!OpenPcs \cup {"fail"}
              /\ muxPc = "close" => muxPc' = "none"
            BY <2>1, <3>1 DEF Winding, MuxerMove, Mux!StartPcs, Mux!OpenPcs, Mux!WritePcs
        <3>3. mRunning' <=> muxPc' \notin {"none", "created", "close"}
            <4> USE <2>1, <2>4 DEF Winding, Mux!MuxRunningTracksThread, MuxThread, Patient
            <4>1. CASE Mux!MuxRunning \/ Mux!MuxFlush \/ Mux!MuxStartQueue
                         \/ Mux!MuxClearAbort \/ Mux!OpenOutput \/ Mux!WriteHeader
                         \/ Mux!MuxFails
                BY <4>1 DEF Mux!MuxRunning, Mux!MuxFlush, Mux!MuxStartQueue,
                   Mux!MuxClearAbort, Mux!OpenOutput, Mux!WriteHeader, Mux!MuxFails
            <4>2. CASE Mux!WriteTop \/ Mux!WriteSize \/ Mux!WriteAbortQueue
                         \/ Mux!GetPacket \/ Mux!GetPacketAborted \/ Mux!WritePacket
                         \/ Mux!WriteFails
                BY <4>2 DEF Mux!WriteTop, Mux!WriteSize, Mux!WriteAbortQueue,
                   Mux!GetPacket, Mux!GetPacketAborted, Mux!WritePacket, Mux!WriteFails
            <4>3. CASE Mux!DropRest \/ Mux!WriteTrailer \/ Mux!PostError
                         \/ Mux!MuxNotRunning \/ Mux!CloseFile
                BY <4>3 DEF Mux!DropRest, Mux!WriteTrailer, Mux!PostError,
                   Mux!MuxNotRunning, Mux!CloseFile
            <4> QED BY <4>1, <4>2, <4>3 DEF Mux!MuxStep
        <3>4. Winding'
            BY <1>2, <2>1, <2>6, <3>1, <3>2, <3>3 DEF Winding, Enc!RunningTracksThread,
                Mux!MuxRunningTracksThread
        <3>5. Joined'
            BY <1>2, <2>1, <3>1, <3>2 DEF Joined, Freeing
        <3> QED BY <3>4, <3>5
    <2>5. CASE MuxStop
        <3>1. /\ UNCHANGED <<encPc, stopPc, vRunning, rgbaq, muxPc>> /\ mstopPc # "idle"
            BY <2>5 DEF MuxStop, Mux!MStopStep, Mux!MStopSize, Mux!MStopAbortQueue,
                Mux!MStopAbort, Mux!MStopWait, Mux!MStopJoin, Mux!muxVars, encVars
        <3>2. /\ mstopPc' = "idle" => muxPc \in {"close", "none"}
              /\ mRunning' = mRunning \/ (mRunning' = FALSE /\ muxPc = "none")
            BY <2>1, <2>5 DEF MuxStop, Mux!MStopStep, Mux!MStopSize, Mux!MStopAbortQueue,
                Mux!MStopAbort, Mux!MStopWait, Mux!MStopJoin, Mux!muxVars, Winding,
                Mux!MuxRunningTracksThread, Mux!StartPcs
        <3>3. Winding'
            BY <1>2, <2>1, <2>6, <3>1, <3>2 DEF Winding, Enc!RunningTracksThread,
                Mux!MuxRunningTracksThread
        <3>4. Joined'
            BY <1>2, <2>1, <3>1, <3>2 DEF Joined, Freeing
        <3> QED BY <3>3, <3>4
    <2> QED BY <2>0, <2>2, <2>3, <2>4, <2>5 DEF Workers
<1> QED BY <1>2, <1>3, <1>4 DEF AfterInv

\* The last reference stops, joins and frees, one after the other.
LEMMA AfterLast ==
    ASSUME LifeInv, AfterInv, LastStep
    PROVE  AfterInv'
<1>1. UNCHANGED <<recVars, encPc, vRunning, muxPc, mRunning>> /\ After
    BY DEF LastStep, LastNoStop, LastStopEncoder, LastStopMuxer, LastStopDone, LastKeep,
          LastFree, LastFreeEncoder, LastFreeMuxer, AfterInv, vars, encVars, muxVars,
          Enc!StopBegin, Enc!encVars, Mux!MStopBegin, Mux!muxVars
<1>2. UNCHANGED <<msgThread, ctlPc, state, told, loopPc, message, call>>
    BY <1>1 DEF recVars, setVars, loopVars, appVars
<1>3. After'
    BY <1>1, <1>2 DEF After, MayFree, MayStop, Freeing, LastStep, LastNoStop,
          LastStopEncoder, LastStopMuxer, LastStopDone, LastKeep, LastFree,
          LastFreeEncoder, LastFreeMuxer, LastGoes
<1>4. ASSUME state # "STARTED" PROVE Winding' /\ Joined'
    <2>1. Winding /\ Joined
        BY <1>4 DEF AfterInv
    <2>2. Winding'
        BY <1>1, <1>2, <2>1, NoStraysKept DEF recVars, setVars, Winding,
              Enc!RunningTracksThread, Mux!MuxRunningTracksThread
    <2>3. Joined'
        <3> USE <1>1, <2>1 DEF Joined, Freeing, LastGoes, vars, encVars, muxVars
        <3>1. CASE LastNoStop
            BY <3>1 DEF LastNoStop, MayStop, Winding
        <3>2. CASE LastStopEncoder
            BY <3>2 DEF LastStopEncoder, Enc!StopBegin
        <3>3. CASE LastStopMuxer
            BY <3>3 DEF LastStopMuxer, Mux!MStopBegin
        <3>4. CASE LastStopDone
            BY <3>4 DEF LastStopDone
        <3>5. CASE LastKeep
            BY <3>5 DEF LastKeep
        <3>6. CASE LastFree
            BY <3>6 DEF LastFree, Enc!StopBegin
        <3>7. CASE LastFreeEncoder
            BY <3>7 DEF LastFreeEncoder, Mux!MStopBegin
        <3>8. CASE LastFreeMuxer
            BY <3>8 DEF LastFreeMuxer
        <3> QED BY <3>1, <3>2, <3>3, <3>4, <3>5, <3>6, <3>7, <3>8 DEF LastStep
    <2> QED BY <2>2, <2>3
<1> QED BY <1>2, <1>3, <1>4 DEF AfterInv

LEMMA AfterStep ==
    ASSUME Patient, EndInv, Over, [LNext]_allVars
    PROVE  AfterInv'
<1>1. LifeInv /\ AfterInv /\ ~ReleaseAbort
    BY OverStays DEF EndInv
<1>2. CASE (\E t \in Callers : Get(t) \/ Drop(t)) \/ LoopEnter \/ LoopAborted \/ LoopDrop
             \/ Release \/ ReleaseStep \/ UNCHANGED allVars
    <2>1. UNCHANGED vars
        BY <1>1, <1>2 DEF Get, Drop, LoopEnter, LoopAborted, LoopDrop, Release,
              ReleaseStep, ReleaseJoin, ReleaseWeak, ReleaseField, allVars
    <2>2. CASE ~LastStep
        BY <1>1, <2>1, <2>2, BookStep
    <2>3. CASE LastStep
        BY <1>1, <2>3, AfterLast
    <2> QED BY <2>2, <2>3
<1>3. ~Use(Control) /\ ~PostRequest
    BY <1>1, ControlIsFree DEF AfterInv, After, PostRequest, Requests
<1>4. ~Prepare /\ ~PrepareInVain /\ ~StartOrStop /\ ~SetConfig
    BY <1>3 DEF Prepare, PrepareInVain, StartOrStop, SetConfig
<1> QED BY <1>1, <1>2, <1>4, AfterLoop, AfterPut, AfterWorkers, AfterLast DEF LNext
-----------------------------------------------------------------------------
\* What the last reference does to the encoder and to the messages.
LEMMA LastRec ==
    ASSUME Patient, EndInv, Over, LastStep
    PROVE  RecInv'
<1>1. TypeOK /\ EncInv /\ PutCalls /\ PacketTypes /\ LifeInv /\ AfterInv
    BY DEF EndInv, RecInv
<1>2. UNCHANGED recVars /\ UNCHANGED <<putPc, call>>
    BY DEF LastStep, LastNoStop, LastStopEncoder, LastStopMuxer, LastStopDone, LastKeep,
          LastFree, LastFreeEncoder, LastFreeMuxer, vars, encVars, recVars, appVars,
          Enc!StopBegin, Enc!putVars
<1>3. PutCalls'
    BY <1>1, <1>2 DEF PutCalls
<1>4. msgq' \in Seq(Message)
    <2>1. msgq \in Seq(Message)
        BY <1>1 DEF TypeOK, Message
    <2>2. CASE LastStopDone
        BY <2>1, <2>2, PostTypes DEF LastStopDone, Post, Message, Events
    <2>3. CASE LastFreeMuxer
        BY <2>3 DEF LastFreeMuxer
    <2>4. CASE ~LastStopDone /\ ~LastFreeMuxer
        BY <2>1, <2>4 DEF LastStep, LastNoStop, LastStopEncoder, LastStopMuxer, LastKeep,
            LastFree, LastFreeEncoder, vars, Enc!StopBegin, Mux!MStopBegin
    <2> QED BY <2>2, <2>3, <2>4
<1>5. OwnTypes'
    BY <1>1, <1>2, <1>4 DEF TypeOK, OwnTypes, Message, recVars, setVars, loopVars,
        appVars, histVars
<1>6. EncInv'
    <2>1. CASE LastNoStop \/ LastStopMuxer \/ LastStopDone \/ LastKeep \/ LastFreeMuxer
        <3>1. UNCHANGED encShared
            BY <1>2, <2>1 DEF LastNoStop, LastStopMuxer, LastStopDone, LastKeep,
                LastFreeMuxer, vars, encVars, encShared, recVars, setVars, strayVars
        <3> QED BY <1>1, <3>1, EncKept
    <2>2. CASE LastStopEncoder \/ LastFree
        BY <1>1, <1>2, <2>2, StopStepInv DEF LastStopEncoder, LastFree, recVars, setVars
    <2>3. CASE LastFreeEncoder
        <3>1. EncTypes /\ Numbered /\ WhoHolds /\ Owned
            BY <1>1 DEF EncInv
        <3>2. /\ rgbaq' = <<>> /\ live' = live \ Range(rgbaq)
              /\ UNCHANGED <<encPc, hand, strays, starts, putPc, putFrame, nextFrame>>
            BY <1>2, <2>3 DEF LastFreeEncoder, recVars, setVars, strayVars
        <3>3. /\ rgbaq' \in Seq(Frame) /\ Range(rgbaq') = {} /\ IsInjective(rgbaq')
            BY <3>2, RangeEmpty, InjectiveEmpty
        <3>4. \A t \in Threads : HandOf(t)' = HandOf(t) /\ PcOf(t)' = PcOf(t)
            BY <3>2 DEF HandOf, PcOf
        <3>5. Owned'
            BY <3>1, <3>2, <3>3, <3>4 DEF Owned, Frame
        <3>6. EncTypes' /\ Numbered'
            BY <3>1, <3>2, <3>3 DEF EncTypes, Numbered
        <3>7. WhoHolds'
            BY <3>1, <3>2, <3>4 DEF WhoHolds
        <3> QED BY <3>5, <3>6, <3>7 DEF EncInv
    <2> QED BY <2>1, <2>2, <2>3 DEF LastStep
<1>7. PacketTypes'
    <2> USE <1>1, <1>2 DEF recVars, setVars, strayVars, encVars, muxVars
    <2>1. CASE LastNoStop \/ LastStopDone \/ LastKeep
        BY <2>1, PacketsKept DEF LastNoStop, LastStopDone, LastKeep, vars
    <2>2. CASE LastStopEncoder \/ LastFree
        BY <2>2, PacketsKept DEF LastStopEncoder, LastFree, Enc!StopBegin, Enc!encVars
    <2>3. CASE LastStopMuxer \/ LastFreeEncoder
        BY <2>3, MuxPackets DEF LastStopMuxer, LastFreeEncoder, PacketTypes
    <2>4. CASE LastFreeMuxer
        BY <2>4 DEF LastFreeMuxer, PacketTypes
    <2> QED BY <2>1, <2>2, <2>3, <2>4 DEF LastStep
<1> QED BY <1>3, <1>5, <1>6, <1>7, TypesNext DEF RecInv

LEMMA EndRecStep ==
    ASSUME Patient, EndInv, [LNext]_allVars
    PROVE  RecInv'
<1>1. RecInv /\ LifeInv
    BY DEF EndInv
<1>2. CASE [Next]_vars
    BY <1>1, <1>2, RecStep
<1>3. CASE ReleaseAbort
    <2>1. UNCHANGED <<encShared, codec, videoq, muxPc, packet, muxStrays>>
        BY <1>3 DEF ReleaseAbort, encVars, muxVars, strayVars, encShared
    <2>2. EncInv' /\ PacketTypes'
        BY <1>1, <2>1, EncKept, PacketsKept DEF RecInv
    <2>3. OwnTypes'
        BY <1>1, <1>3 DEF RecInv, TypeOK, OwnTypes, Message, ReleaseAbort, loopVars,
            appVars, histVars
    <2>4. PutCalls'
        BY <1>1, <1>3 DEF RecInv, PutCalls, ReleaseAbort, encVars, appVars
    <2> QED BY <2>2, <2>3, <2>4, TypesNext DEF RecInv
<1>4. CASE LastStep
    BY <1>1, <1>4, OverStays, LastRec
<1> QED BY <1>2, <1>3, <1>4, RecorderSteps

\* Who hands strings on, and who frees them.
LEMMA StringMoves ==
    ASSUME [LNext]_allVars
    PROVE  \/ UNCHANGED <<strings, encStrings, muxStrings>>
           \/ Prepare \/ PrepareInVain \/ SetConfig \/ LastFree
<1> USE DEF lifeVars, stringVars
<1>1. CASE (\E t \in Callers : Get(t) \/ Drop(t)) \/ (\E p \in Putters : Put(p))
    BY <1>1 DEF Get, Drop, Put
<1>2. CASE StartOrStop
    BY <1>2 DEF StartOrStop
<1>3. CASE LoopEnter \/ Loop \/ LoopAborted \/ LoopDrop
    BY <1>3 DEF LoopEnter, Loop, LoopAborted, LoopDrop
<1>4. CASE Release \/ ReleaseStep
    BY <1>4 DEF Release, ReleaseStep, ReleaseAbort, ReleaseJoin, ReleaseWeak, ReleaseField
<1>5. CASE LastStep
    BY <1>5 DEF LastStep, LastNoStop, LastStopEncoder, LastStopMuxer, LastStopDone,
        LastKeep, LastFreeEncoder, LastFreeMuxer
<1>6. CASE Workers \/ UNCHANGED allVars
    BY <1>6 DEF Workers, allVars
<1> QED BY <1>1, <1>2, <1>3, <1>4, <1>5, <1>6 DEF LNext

\* A recorder is configured only while it is not in use.
LEMMA GivenStep ==
    ASSUME Patient, EndInv, [LNext]_allVars
    PROVE  Given'
<1>1. /\ RecInv /\ LifeInv /\ Given
      /\ Over => AfterInv
      /\ ~Over => Flow /\ (calls = 0 => state = "INITIALIZED")
    BY DEF EndInv, Before, PatientInv
<1>2. CASE LastStep
    <2>1. UNCHANGED <<state, encStrings, muxStrings>>
        BY <1>2 DEF LastStep, LastNoStop, LastStopEncoder, LastStopMuxer, LastStopDone,
            LastKeep, LastFree, LastFreeEncoder, LastFreeMuxer, vars, recVars, stringVars
    <2>2. \/ LastFree /\ lastPc' \in Freeing
          \/ UNCHANGED strings /\ (lastPc \in Freeing => lastPc' \in Freeing)
        BY <1>2 DEF LastStep, LastNoStop, LastStopEncoder, LastStopMuxer, LastStopDone,
              LastKeep, LastFree, LastFreeEncoder, LastFreeMuxer, LastGoes, Freeing,
              stringVars
    <2> QED BY <1>1, <2>1, <2>2 DEF Given
<1>3. CASE Prepare
    BY <1>3 DEF Prepare, Given
<1>4. ASSUME ~LastStep
      PROVE  lastPc' = lastPc \/ (lastPc = "none" /\ lastPc' = "stop")
    BY <1>1, <1>4, LastBegins
<1>5. CASE PrepareInVain
    <2>1. /\ UNCHANGED <<state, strings, muxStrings, lastPc>> /\ encStrings' = 0
        BY <1>5 DEF PrepareInVain, PrepareRefused, releaseVars
    <2> QED BY <1>1, <2>1 DEF Given
<1>6. CASE SetConfig
    <2>1. ~Over /\ (calls = 0 \/ told = "STOPPED")
        BY <1>1, <1>6, ControlIsFree DEF SetConfig, Patient, ClientKind
    <2>2. state \in {"INITIALIZED", "STOPPED"}
        BY <1>1, <2>1 DEF Flow
    <2>3. state' = state
        BY <1>6 DEF SetConfig, vars, recVars
    <2> QED BY <2>2, <2>3 DEF Given
<1>7. CASE StartOrStop
    <2>2. UNCHANGED <<strings, encStrings, muxStrings, lastPc>>
        BY <1>7 DEF StartOrStop, stringVars, releaseVars, lifeVars
    <2>3. CASE Use(Control) /\ (CallStart \/ CallStop)
        <3>1. Flow
            BY <1>1, <2>3, ControlIsFree
        <3>2. state \notin {"INITIALIZED", "STOPPED"}
            BY <2>3, <3>1 DEF CallStart, CallStop, MayCall, Flow, Patient, ClientKind
        <3> QED BY <1>1, <2>2, <3>2 DEF Given
    <2>4. CASE PostRequest
        BY <1>1, <2>2, <2>4 DEF PostRequest, Given
    <2> QED BY <1>7, <2>3, <2>4 DEF StartOrStop
<1>8. CASE Loop
    <2>1. UNCHANGED <<strings, encStrings, muxStrings, lastPc>> /\ LoopStep
        BY <1>8 DEF Loop, stringVars, releaseVars, lifeVars
    <2>2. state \in {"INITIALIZED", "STOPPED"} => state' = state
        <3>1. CASE ~Over
            BY <1>1, <2>1, <3>1, LoopRests
        <3>2. CASE Over /\ state \in {"INITIALIZED", "STOPPED"}
            <4>1. loopPc # "handle"
                BY <1>1, <3>2 DEF AfterInv, Winding
            <4>2. ~HandlePrepared /\ ~HandleEvent
                BY <4>1 DEF HandlePrepared, HandleEvent
            <4> QED BY <2>1, <4>2 DEF LoopStep, TakeMessage, HandleFlush, HandleStart,
                    HandleStartAgain, ArmMux, RefuseStart, HandleStop, StopMuxer,
                    StopDone, RefuseStop
        <3> QED BY <3>1, <3>2
    <2> QED BY <1>1, <2>1, <2>2 DEF Given
<1>9. CASE ~LastStep /\ UNCHANGED <<state, strings, encStrings, muxStrings>>
    BY <1>1, <1>4, <1>9 DEF Given, Freeing
<1>10. LastFree => LastStep
    BY DEF LastStep
<1> QED BY <1>2, <1>3, <1>5, <1>6, <1>7, <1>8, <1>9, <1>10, StateMoves, StringMoves

LEMMA EndStep ==
    ASSUME Patient
    PROVE  EndInv /\ [LNext]_allVars => EndInv'
<1> SUFFICES ASSUME EndInv, [LNext]_allVars PROVE EndInv'
    OBVIOUS
<1>1. RecInv' /\ Given'
    BY EndRecStep, GivenStep
<1>2. LifeInv /\ LifeInv'
    BY LifeStep DEF EndInv
<1>3. CASE Over
    BY <1>1, <1>2, <1>3, AfterStep, OverStays DEF EndInv
<1>4. CASE ~Over /\ Over'
    BY <1>1, <1>2, <1>4, AbortStep, OverStays DEF EndInv
<1>5. CASE ~Over'
    BY <1>1, <1>2, <1>5, BeforeStep DEF EndInv
<1> QED BY <1>3, <1>4, <1>5

LEMMA EndInvariant ==
    ASSUME Patient
    PROVE  LSpec => []EndInv
<1>1. EndInv /\ [LNext]_allVars => EndInv'
    BY EndStep
<1> QED BY <1>1, EndInit, PTL DEF LSpec

\* The last reference of all is dropped after release.
LEMMA LastIsOver ==
    ASSUME EndInv, lastPc # "none"
    PROVE  Over /\ AfterInv /\ LastIsAlone
<1>1. LastIsAlone /\ Over
    BY Alone DEF EndInv, LastIsAlone, Over
<1> QED BY <1>1 DEF EndInv

\* The encoder and the muxer are freed when their threads, which hold no
\* reference, have been joined or have nothing left to do with them:
\* WorkersEndFirst.
THEOREM JoinedBeforeFreed ==
    ASSUME Patient
    PROVE  LSpec => []WorkersEndFirst
<1>1. EndInv => WorkersEndFirst
    <2> SUFFICES ASSUME EndInv, lastPc \in {"freeMuxer", "freed"}
                 PROVE  EncodersAt = {"none"} /\ MuxersAt \subseteq {"close", "none"}
        BY DEF WorkersEndFirst
    <2>1. After /\ (state # "STARTED" => Winding /\ Joined)
        BY LastIsOver DEF AfterInv
    <2>2. NoStrays /\ encPc = "none" /\ muxPc \in {"close", "none"}
        BY <2>1 DEF After, Winding, Joined, Freeing
    <2> QED BY <2>2 DEF NoStrays, EncodersAt, MuxersAt
<1> QED BY <1>1, EndInvariant, PTL

\* Neither thread reads a string of the configuration that setConfigParams or
\* the last reference has freed: StringsLive.
THEOREM NoStringDangles ==
    ASSUME Patient
    PROVE  LSpec => []StringsLive
<1>1. EndInv => StringsLive
    <2> SUFFICES ASSUME EndInv PROVE StringsLive
        OBVIOUS
    <2>1. Given
        BY DEF EndInv
    <2>2. CASE ~Over
        <3>1. EncoderUp /\ MuxerUp /\ NoStrays
            BY <2>2 DEF EndInv, Before, PatientInv
        <3>2. lastPc \notin Freeing
            BY <2>2, LastIsOver DEF Freeing
        <3>3. "open" \in EncodersAt \/ "output" \in MuxersAt
                 => state \notin {"INITIALIZED", "STOPPED"}
            BY <3>1 DEF NoStrays, EncodersAt, MuxersAt, EncoderUp, MuxerUp
        <3> QED BY <2>1, <3>2, <3>3 DEF Given, StringsLive
    <2>3. CASE Over
        <3>1. AfterInv
            BY <2>3 DEF EndInv
        <3>2. CASE state = "STARTED"
            BY <2>1, <3>1, <3>2 DEF AfterInv, After, Given, StringsLive
        <3>3. CASE state # "STARTED"
            <4>1. "open" \notin EncodersAt /\ "output" \notin MuxersAt
                BY <3>1, <3>3 DEF AfterInv, Winding, NoStrays, EncodersAt, MuxersAt,
                    Enc!ReadyPcs, Mux!OpenPcs
            <4> QED BY <4>1 DEF StringsLive
        <3> QED BY <3>2, <3>3
    <2> QED BY <2>2, <2>3
<1> QED BY <1>1, EndInvariant, PTL

\* A recorder whose application was told STOPPED is freed when it is released,
\* and with every frame that it was given: StoppedIsFreed.
THEOREM StoppedLeavesNothing ==
    ASSUME Patient
    PROVE  LSpec => []StoppedIsFreed
<1>1. EndInv => StoppedIsFreed
    <2> SUFFICES ASSUME EndInv PROVE StoppedIsFreed
        OBVIOUS
    <2>1. lastPc = "kept" => told # "STOPPED"
        BY LastIsOver DEF AfterInv, After, MayFree
    <2>2. ASSUME lastPc = "freed" PROVE live = {}
        <3>1. AfterInv /\ LastIsAlone
            BY <2>2, LastIsOver
        <3>2. NoStrays /\ encPc = "none" /\ rgbaq = <<>>
            BY <2>2, <3>1 DEF AfterInv, After, Winding, Joined, Freeing
        <3>3. EncInv /\ PutCalls
            BY DEF EndInv, RecInv
        <3>4. \A p \in Putters : putFrame[p] = 0
            BY <2>2, <3>1, <3>3, Holds DEF LastIsAlone, PutCalls
        <3>5. Hands = {0} /\ FramesOwned
            BY <3>2, <3>3, NothingHeld, OwnedFrames
        <3> QED BY <3>2, <3>4, <3>5, RangeEmpty DEF FramesOwned
    <2> QED BY <2>1, <2>2 DEF StoppedIsFreed
<1> QED BY <1>1, EndInvariant, PTL
=============================================================================
