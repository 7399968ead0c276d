----------------------------- MODULE MediaMuxer -----------------------------
(***************************************************************************)
(* The muxer: the mux thread (mux_thread, muxer_start, write_frame), the   *)
(* encoder that puts packets in videoq, and the thread in muxer_stop       *)
(* (muxer_abort, muxer_wait).  abort_muxer is written under a mutex that   *)
(* the mux thread does not take to read it; videoq is atomic under its own *)
(* mutex.  No audio encoder exists (xm_encoder_factory.c), so audioq is    *)
(* empty in every state and the tests of its size always hold.             *)
(*                                                                         *)
(* A packet is a positive integer in the order in which it was put.        *)
(***************************************************************************)
EXTENDS Integers, Sequences, Functions

CONSTANTS
    MaxPackets,   \* bound on the packets ever put
    MaxMuxStarts, \* bound on the mux threads ever created
    MuxFaults     \* the failures that may happen, see MuxFaultKind

MuxFaultKind == {"output", "header", "write", "trailer"}

ASSUME MuxerAssumption ==
    /\ MaxPackets \in Nat
    /\ MaxMuxStarts \in Nat
    /\ MuxFaults \subseteq MuxFaultKind

VARIABLES
    abortMuxer,  \* XMMediaMuxer.abort_muxer
    videoq,      \* the packets of XMMediaMuxer.videoq, oldest first
    videoqAbort, \* its mAbortRequest
    mRunning,    \* XMMediaMuxer.mRunning
    muxPc,       \* where the mux thread is, "none" when there is none
    packet,      \* the packet the mux thread got, 0 when none
    written,     \* the packets written to the current file
    file,        \* the current output file
    msgq,        \* the messages posted to the recorder's message queue
    mstopPc,     \* where the thread in muxer_stop is, "idle" when none
    nextPacket,  \* the next packet to put
    muxStarts,   \* the mux threads created so far
    owedPackets  \* history: packets put for this file and not written yet

muxVars == <<muxPc, packet, written, file, mRunning>>
videoqVars == <<videoq, videoqAbort, nextPacket, owedPackets>>
vars == <<abortMuxer, videoqVars, muxVars, msgq, mstopPc, muxStarts>>

Packet == 1..MaxPackets
NoPacket == 0

StartPcs == {"created", "flushq", "startq", "clear"}
OpenPcs  == {"output", "header"}
WritePcs == {"loop", "size", "abortq", "get", "write"}
DonePcs  == {"drain", "trailer", "fail", "exit", "close"}
MuxPcs   == {"none"} \cup StartPcs \cup OpenPcs \cup WritePcs \cup DonePcs
MStopPcs == {"idle", "size", "abortq", "abort", "wait", "join"}

\* "headed" is a file that a player cannot open: the index is in the trailer.
FileStates == {"none", "created", "headed", "complete"}

Init ==
    /\ abortMuxer = FALSE
    /\ videoq = <<>>
    /\ videoqAbort = TRUE       \* packet_queue_init
    /\ mRunning = FALSE
    /\ muxPc = "none"
    /\ packet = NoPacket
    /\ written = <<>>
    /\ file = "none"
    /\ msgq = <<>>
    /\ mstopPc = "idle"
    /\ nextPacket = 1
    /\ muxStarts = 0
    /\ owedPackets = {}
-----------------------------------------------------------------------------
(* The encoder's side: packet_queue_put, which an aborted queue accepts. *)

\* A packet is owed to the file once muxer_start has flushed the queue, while
\* nobody stops the muxer.
OwingPacket ==
    /\ mstopPc = "idle"
    /\ muxPc \in {"startq", "clear"} \cup OpenPcs \cup WritePcs

\* Mutant: a packet without data is put.
PutPacketEmpty ==
    /\ nextPacket <= MaxPackets
    /\ nextPacket' = nextPacket + 1
    /\ videoq' = Append(videoq, NoPacket)
    /\ UNCHANGED <<abortMuxer, videoqAbort, owedPackets, muxVars, msgq, mstopPc,
                   muxStarts>>

PutPacket ==
    /\ nextPacket <= MaxPackets
    /\ nextPacket' = nextPacket + 1
    /\ videoq' = Append(videoq, nextPacket)
    /\ owedPackets' = owedPackets \cup (IF OwingPacket THEN {nextPacket} ELSE {})
    /\ UNCHANGED <<abortMuxer, videoqAbort, muxVars, msgq, mstopPc, muxStarts>>
-----------------------------------------------------------------------------
(* The mux thread. *)

\* muxer_startAsync: the thread exists, but has not run yet.
MuxStart ==
    /\ muxPc = "none"
    /\ muxStarts < MaxMuxStarts
    /\ muxStarts' = muxStarts + 1
    /\ muxPc' = "created"
    /\ UNCHANGED <<abortMuxer, videoqVars, packet, written, file, mRunning,
                   msgq, mstopPc>>

\* mux_thread: only now does muxer_wait see a thread to join.
MuxRunning ==
    /\ muxPc = "created"
    /\ mRunning' = TRUE
    /\ written' = <<>>
    /\ file' = "none"
    /\ muxPc' = "flushq"
    /\ UNCHANGED <<abortMuxer, videoqVars, packet, msgq, mstopPc, muxStarts>>

\* muxer_start, in the mux thread: what the encoder put so far is dropped, ...
MuxFlush ==
    /\ muxPc = "flushq"
    /\ videoq' = <<>>
    /\ muxPc' = "startq"
    /\ UNCHANGED <<abortMuxer, videoqAbort, nextPacket, owedPackets, packet,
                   written, file, mRunning, msgq, mstopPc, muxStarts>>

\* ... the queue is started, ...
MuxStartQueue ==
    /\ muxPc = "startq"
    /\ videoqAbort' = FALSE
    /\ muxPc' = "clear"
    /\ UNCHANGED <<abortMuxer, videoq, nextPacket, owedPackets, packet,
                   written, file, mRunning, msgq, mstopPc, muxStarts>>

\* ... and abort_muxer is cleared, whoever had set it.
MuxClearAbort ==
    /\ muxPc = "clear"
    /\ abortMuxer' = FALSE
    /\ muxPc' = "output"
    /\ UNCHANGED <<videoqVars, packet, written, file, mRunning, msgq, mstopPc,
                   muxStarts>>

OpenOutput ==
    /\ muxPc = "output"
    /\ file' = "created"
    /\ muxPc' = "header"
    /\ UNCHANGED <<abortMuxer, videoqVars, packet, written, mRunning, msgq,
                   mstopPc, muxStarts>>

WriteHeader ==
    /\ muxPc = "header"
    /\ file' = "headed"
    /\ muxPc' = "loop"
    /\ UNCHANGED <<abortMuxer, videoqVars, packet, written, mRunning, msgq,
                   mstopPc, muxStarts>>

\* Opening the file, its header or its trailer fails.
MuxFails ==
    /\ muxPc \in MuxFaults \cap {"output", "header", "trailer"}
    /\ owedPackets' = {}
    /\ muxPc' = "fail"
    /\ UNCHANGED <<abortMuxer, videoq, videoqAbort, nextPacket, packet,
                   written, file, mRunning, msgq, mstopPc, muxStarts>>

\* The head of the loop of write_frame reads abort_muxer without the mutex.
WriteTop ==
    /\ muxPc = "loop"
    /\ muxPc' = IF abortMuxer THEN "size" ELSE "get"
    /\ UNCHANGED <<abortMuxer, videoqVars, packet, written, file, mRunning,
                   msgq, mstopPc, muxStarts>>

\* Mutant: the queue is aborted whatever it holds.
WriteSizeAnyway ==
    /\ muxPc = "size"
    /\ muxPc' = "abortq"
    /\ UNCHANGED <<abortMuxer, videoqVars, packet, written, file, mRunning,
                   msgq, mstopPc, muxStarts>>

\* Mutant: the size is compared with `< 0'.
WriteSizeNegative ==
    /\ muxPc = "size"
    /\ muxPc' = "get"
    /\ UNCHANGED <<abortMuxer, videoqVars, packet, written, file, mRunning,
                   msgq, mstopPc, muxStarts>>

WriteSize ==
    /\ muxPc = "size"
    /\ muxPc' = IF videoq = <<>> THEN "abortq" ELSE "get"
    /\ UNCHANGED <<abortMuxer, videoqVars, packet, written, file, mRunning,
                   msgq, mstopPc, muxStarts>>

WriteAbortQueue ==
    /\ muxPc = "abortq"
    /\ videoqAbort' = TRUE
    /\ muxPc' = "get"
    /\ UNCHANGED <<abortMuxer, videoq, nextPacket, owedPackets, packet,
                   written, file, mRunning, msgq, mstopPc, muxStarts>>

\* The blocking packet_queue_get returns a packet, ...
GetPacket ==
    /\ muxPc = "get"
    /\ ~videoqAbort
    /\ videoq # <<>>
    /\ packet' = Head(videoq)
    /\ videoq' = Tail(videoq)
    /\ muxPc' = "write"
    /\ UNCHANGED <<abortMuxer, videoqAbort, nextPacket, owedPackets, written,
                   file, mRunning, msgq, mstopPc, muxStarts>>

\* ... or fails because the queue is aborted, whatever the queue holds.
GetPacketAborted ==
    /\ muxPc = "get"
    /\ videoqAbort
    /\ muxPc' = "drain"
    /\ UNCHANGED <<abortMuxer, videoqVars, packet, written, file, mRunning,
                   msgq, mstopPc, muxStarts>>

WritePacket ==
    /\ muxPc = "write"
    /\ written' = Append(written, packet)
    /\ owedPackets' = owedPackets \ {packet}
    /\ packet' = NoPacket
    /\ muxPc' = "loop"
    /\ UNCHANGED <<abortMuxer, videoq, videoqAbort, nextPacket, file, mRunning,
                   msgq, mstopPc, muxStarts>>

\* Mutant: the loop goes on after a packet that could not be written.
WriteFailsContinues ==
    /\ "write" \in MuxFaults
    /\ muxPc = "write"
    /\ packet' = NoPacket
    /\ owedPackets' = {}
    /\ muxPc' = "loop"
    /\ UNCHANGED <<abortMuxer, videoq, videoqAbort, nextPacket, written, file,
                   mRunning, msgq, mstopPc, muxStarts>>

\* write_video_packet fails: the loop ends, and write_frame returns 0 all the
\* same, so that the trailer is written and nobody is told.
WriteFails ==
    /\ "write" \in MuxFaults
    /\ muxPc = "write"
    /\ packet' = NoPacket
    /\ owedPackets' = {}
    /\ muxPc' = "drain"
    /\ UNCHANGED <<abortMuxer, videoq, videoqAbort, nextPacket, written, file,
                   mRunning, msgq, mstopPc, muxStarts>>

\* write_frame drops what is left in the queue.
DropRest ==
    /\ muxPc = "drain"
    /\ videoq' = <<>>
    /\ muxPc' = "trailer"
    /\ UNCHANGED <<abortMuxer, videoqAbort, nextPacket, owedPackets, packet,
                   written, file, mRunning, msgq, mstopPc, muxStarts>>

WriteTrailer ==
    /\ muxPc = "trailer"
    /\ file' = "complete"
    /\ muxPc' = "exit"
    /\ UNCHANGED <<abortMuxer, videoqVars, packet, written, mRunning, msgq,
                   mstopPc, muxStarts>>

\* Mutant: the thread fails without a message.
PostErrorSilent ==
    /\ muxPc = "fail"
    /\ muxPc' = "exit"
    /\ UNCHANGED <<abortMuxer, videoqVars, packet, written, file, mRunning, msgq,
                   mstopPc, muxStarts>>

PostError ==
    /\ muxPc = "fail"
    /\ msgq' = Append(msgq, "ERROR")
    /\ muxPc' = "exit"
    /\ UNCHANGED <<abortMuxer, videoqVars, packet, written, file, mRunning,
                   mstopPc, muxStarts>>

\* mRunning is cleared before the file is closed.
MuxNotRunning ==
    /\ muxPc = "exit"
    /\ mRunning' = FALSE
    /\ muxPc' = "close"
    /\ UNCHANGED <<abortMuxer, videoqVars, packet, written, file, msgq,
                   mstopPc, muxStarts>>

\* muxer_MuxContext_free closes the file, and the thread returns.
CloseFile ==
    /\ muxPc = "close"
    /\ muxPc' = "none"
    /\ UNCHANGED <<abortMuxer, videoqVars, packet, written, file, mRunning,
                   msgq, mstopPc, muxStarts>>

MuxStep ==
    \/ MuxRunning \/ MuxFlush \/ MuxStartQueue \/ MuxClearAbort
    \/ OpenOutput \/ WriteHeader \/ MuxFails
    \/ WriteTop \/ WriteSize \/ WriteAbortQueue \/ GetPacket \/ GetPacketAborted
    \/ WritePacket \/ WriteFails \/ DropRest \/ WriteTrailer
    \/ PostError \/ MuxNotRunning \/ CloseFile
-----------------------------------------------------------------------------
(* muxer_stop: muxer_abort, then muxer_wait. *)

MStopBegin ==
    /\ mstopPc = "idle"
    /\ mstopPc' = "size"
    /\ UNCHANGED <<abortMuxer, videoqVars, muxVars, msgq, muxStarts>>

\* Mutant: the queue is aborted whatever it holds.
MStopSizeAnyway ==
    /\ mstopPc = "size"
    /\ mstopPc' = "abortq"
    /\ UNCHANGED <<abortMuxer, videoqVars, muxVars, msgq, muxStarts>>

\* The size is read before abort_muxer is set, unlike in VEncoder_stop.
MStopSize ==
    /\ mstopPc = "size"
    /\ mstopPc' = IF videoq = <<>> THEN "abortq" ELSE "abort"
    /\ UNCHANGED <<abortMuxer, videoqVars, muxVars, msgq, muxStarts>>

MStopAbortQueue ==
    /\ mstopPc = "abortq"
    /\ videoqAbort' = TRUE
    /\ mstopPc' = "abort"
    /\ UNCHANGED <<abortMuxer, videoq, nextPacket, owedPackets, muxVars, msgq,
                   muxStarts>>

MStopAbort ==
    /\ mstopPc = "abort"
    /\ abortMuxer' = TRUE
    /\ mstopPc' = "wait"
    /\ UNCHANGED <<videoqVars, muxVars, msgq, muxStarts>>

\* muxer_wait joins only a thread whose mRunning it sees.
MStopWait ==
    /\ mstopPc = "wait"
    /\ mstopPc' = IF mRunning THEN "join" ELSE "idle"
    /\ UNCHANGED <<abortMuxer, videoqVars, muxVars, msgq, muxStarts>>

MStopJoin ==
    /\ mstopPc = "join"
    /\ muxPc = "none"
    /\ mRunning' = FALSE
    /\ mstopPc' = "idle"
    /\ UNCHANGED <<abortMuxer, videoqVars, muxPc, packet, written, file, msgq,
                   muxStarts>>

MStopStep == MStopSize \/ MStopAbortQueue \/ MStopAbort \/ MStopWait \/ MStopJoin
-----------------------------------------------------------------------------
Next == PutPacket \/ MuxStart \/ MuxStep \/ MStopBegin \/ MStopStep

Spec == Init /\ [][Next]_vars

\* The mux thread and a thread inside muxer_stop go on; packets need not come.
Fairness == WF_vars(MuxStep) /\ WF_vars(MStopStep)

FairSpec == Spec /\ Fairness
-----------------------------------------------------------------------------
(* Properties. *)

\* The variables have the types of the code's fields.
TypeOK ==
    /\ abortMuxer \in BOOLEAN
    /\ videoq \in Seq(Packet)
    /\ videoqAbort \in BOOLEAN
    /\ mRunning \in BOOLEAN
    /\ muxPc \in MuxPcs
    /\ packet \in Packet \cup {NoPacket}
    /\ written \in Seq(Packet)
    /\ file \in FileStates
    /\ msgq \in Seq({"ERROR"})
    /\ mstopPc \in MStopPcs
    /\ nextPacket \in 1..MaxPackets + 1
    /\ muxStarts \in 0..MaxMuxStarts
    /\ owedPackets \subseteq Packet

\* No packet that came in time is dropped by the end of write_frame: when the
\* trailer is written, every packet put after muxer_start's flush and before
\* muxer_stop is in the file, unless a write failed
\* (xm_media_muxer.c:192-218, where the queue is aborted only when empty).
DrainBeforeTrailer ==
    muxPc \in {"none"} \cup DonePcs => owedPackets = {}

\* Why DrainBeforeTrailer holds, as an inductive invariant.  Where the owed
\* packets are:
WhereOwed ==
    /\ owedPackets \subseteq Range(videoq) \cup ({packet} \ {NoPacket})
    /\ owedPackets \subseteq 1..nextPacket - 1
    /\ muxPc \in {"created", "flushq"} => owedPackets = {}
    /\ packet # NoPacket <=> muxPc = "write"

\* Only a thread in muxer_stop makes the flags true while the mux thread writes.
AbortedByStop ==
    /\ muxPc \in {"clear"} \cup OpenPcs \cup WritePcs /\ videoqAbort
          => mstopPc # "idle" /\ owedPackets \cap Range(videoq) = {}
    /\ muxPc \in OpenPcs \cup WritePcs /\ abortMuxer => mstopPc # "idle"
    /\ muxPc \in {"size", "abortq"} => abortMuxer
    /\ "abortq" \in {muxPc, mstopPc} => owedPackets \cap Range(videoq) = {}

\* mRunning is set while the mux thread runs, and not before it has begun to:
\* the thread in muxer_stop leaves before that or joins.
MuxRunningTracksThread ==
    mRunning <=> muxPc \notin {"none", "created", "close"}

\* The inductive invariant.
MuxDrainInv ==
    DrainBeforeTrailer /\ WhereOwed /\ AbortedByStop /\ MuxRunningTracksThread

\* The file holds the packets without gap, duplicate or reordering, and what
\* is still to be written follows it: what is lost is lost at the ends
\* (muxer_start's flush and the end of write_frame), never in the middle.
NoGap ==
    LET next == written \o (IF packet = NoPacket THEN <<>> ELSE <<packet>>)
        line == IF muxPc \in WritePcs THEN next \o videoq ELSE next
    IN  \A i \in 1..Len(line) - 1 : line[i + 1] = line[i] + 1

\* An abort that the loop of write_frame sees at its head ends the mux thread.
AbortSeenEndsMux ==
    muxPc = "size" ~> muxPc = "none"

\* muxer_stop returns when it is called while the mux thread is in its loop
\* (xm_media_muxer.c:143-152).
MuxStopReturns ==
    mstopPc = "size" /\ muxPc \in WritePcs ~> mstopPc = "idle"
=============================================================================
