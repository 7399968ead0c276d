-------------------------- MODULE MediaMuxerProofs --------------------------
(***************************************************************************)
(* Proofs about MediaMuxer, for any number of packets and of mux threads   *)
(* and any set of failures.                                                *)
(***************************************************************************)
EXTENDS MediaMuxer, QueueLemmas

USE MuxerAssumption

-----------------------------------------------------------------------------
(* Types. *)

\* No packet is the null packet.
LEMMA PacketFact == NoPacket \notin Packet
  BY DEF Packet, NoPacket

\* A packet is in the mux thread's hands exactly between get and write.
PacketInHand == packet # NoPacket <=> muxPc = "write"

\* The types, initially.
LEMMA InitMuxTypes == Init => TypeOK /\ PacketInHand
  <1> SUFFICES ASSUME Init PROVE TypeOK /\ PacketInHand
    OBVIOUS
  <1>1. videoq \in Seq(Packet) /\ written \in Seq(Packet) /\ msgq \in Seq({"ERROR"})
    BY RangeEmpty DEF Init
  <1>2. nextPacket \in 1..MaxPackets + 1 /\ muxStarts \in 0..MaxMuxStarts
    BY DEF Init
  <1> QED  BY <1>1, <1>2 DEF Init, TypeOK, PacketInHand, MuxPcs, MStopPcs, FileStates

\* The types under the steps of the mux thread.
LEMMA MuxTypes ==
  ASSUME TypeOK, PacketInHand, MuxStart \/ MuxStep
  PROVE  TypeOK' /\ PacketInHand'
  <1> USE PacketFact, RangeEmpty
      DEF TypeOK, PacketInHand, MuxPcs, StartPcs, OpenPcs, WritePcs, DonePcs,
          FileStates, videoqVars, muxVars
  <1>1. CASE MuxStart
    <2>1. muxStarts' \in 0..MaxMuxStarts
      BY <1>1 DEF MuxStart
    <2> QED  BY <1>1, <2>1 DEF MuxStart
  <1>2. CASE MuxRunning        BY <1>2 DEF MuxRunning
  <1>3. CASE MuxFlush          BY <1>3 DEF MuxFlush
  <1>4. CASE MuxStartQueue     BY <1>4 DEF MuxStartQueue
  <1>5. CASE MuxClearAbort     BY <1>5 DEF MuxClearAbort
  <1>6. CASE OpenOutput        BY <1>6 DEF OpenOutput
  <1>7. CASE WriteHeader       BY <1>7 DEF WriteHeader
  <1>8. CASE MuxFails          BY <1>8 DEF MuxFails
  <1>9. CASE WriteTop          BY <1>9 DEF WriteTop
  <1>10. CASE WriteSize        BY <1>10 DEF WriteSize
  <1>11. CASE WriteAbortQueue  BY <1>11 DEF WriteAbortQueue
  <1>12. CASE GetPacket
    <2>1. Head(videoq) \in Packet /\ Tail(videoq) \in Seq(Packet)
      BY <1>12, RangeTail DEF GetPacket
    <2> QED  BY <1>12, <2>1 DEF GetPacket
  <1>13. CASE GetPacketAborted BY <1>13 DEF GetPacketAborted
  <1>14. CASE WritePacket
    <2>1. Append(written, packet) \in Seq(Packet)
      BY <1>14, RangeAppend DEF WritePacket
    <2> QED  BY <1>14, <2>1 DEF WritePacket
  <1>15. CASE WriteFails       BY <1>15 DEF WriteFails
  <1>16. CASE DropRest         BY <1>16 DEF DropRest
  <1>17. CASE WriteTrailer     BY <1>17 DEF WriteTrailer
  <1>18. CASE PostError
    <2>1. Append(msgq, "ERROR") \in Seq({"ERROR"})
      BY <1>18, RangeAppend
    <2> QED  BY <1>18, <2>1 DEF PostError
  <1>19. CASE MuxNotRunning    BY <1>19 DEF MuxNotRunning
  <1>20. CASE CloseFile        BY <1>20 DEF CloseFile
  <1> QED
    BY <1>1, <1>2, <1>3, <1>4, <1>5, <1>6, <1>7, <1>8, <1>9, <1>10, <1>11, <1>12,
       <1>13, <1>14, <1>15, <1>16, <1>17, <1>18, <1>19, <1>20 DEF MuxStep

\* The types under the steps of muxer_stop and of the encoder.
LEMMA MStopTypes ==
  ASSUME TypeOK, PacketInHand, PutPacket \/ MStopBegin \/ MStopStep
  PROVE  TypeOK' /\ PacketInHand'
  <1> USE DEF TypeOK, PacketInHand, MStopPcs, videoqVars, muxVars
  <1>1. CASE PutPacket
    <2>1. nextPacket \in Packet /\ nextPacket' \in 1..MaxPackets + 1
      BY <1>1 DEF PutPacket, Packet
    <2>2. Append(videoq, nextPacket) \in Seq(Packet)
      BY <2>1, RangeAppend
    <2> QED  BY <1>1, <2>1, <2>2 DEF PutPacket
  <1>2. CASE MStopBegin \/ MStopStep
    BY <1>2 DEF MStopBegin, MStopStep, MStopSize, MStopAbortQueue, MStopAbort,
                MStopWait, MStopJoin
  <1> QED  BY <1>1, <1>2

\* The types are kept by every step.
LEMMA NextMuxTypes == TypeOK /\ PacketInHand /\ [Next]_vars => TypeOK' /\ PacketInHand'
  <1> SUFFICES ASSUME TypeOK, PacketInHand, [Next]_vars
               PROVE  TypeOK' /\ PacketInHand'
    OBVIOUS
  <1>1. CASE UNCHANGED vars
    BY <1>1 DEF TypeOK, PacketInHand, vars, videoqVars, muxVars
  <1> QED  BY <1>1, MuxTypes, MStopTypes DEF Next

\* The variables keep the types of the code's fields, and a packet is in the mux
\* thread's hands exactly between packet_queue_get and av_interleaved_write_frame.
THEOREM MuxTypeCorrect == Spec => [](TypeOK /\ PacketInHand)
  BY InitMuxTypes, NextMuxTypes, PTL DEF Spec

-----------------------------------------------------------------------------
(* No packet that came in time is dropped.                                 *)

\* The inductive invariant, initially.
LEMMA InitMuxDrain == Init => MuxDrainInv
  BY RangeEmpty
     DEF Init, MuxDrainInv, DrainBeforeTrailer, WhereOwed, AbortedByStop,
         MuxRunningTracksThread, OpenPcs, WritePcs, DonePcs

\* The steps of the mux thread that move no packet.
LEMMA MuxControlDrain ==
  ASSUME TypeOK, MuxDrainInv,
         \/ MuxStart \/ MuxRunning \/ MuxStartQueue \/ MuxClearAbort
         \/ OpenOutput \/ WriteHeader \/ MuxFails
         \/ WriteTop \/ WriteSize \/ WriteAbortQueue \/ GetPacketAborted
         \/ WriteTrailer \/ PostError \/ MuxNotRunning \/ CloseFile
  PROVE  MuxDrainInv'
  <1> USE PacketFact, RangeEmpty
      DEF MuxDrainInv, DrainBeforeTrailer, WhereOwed, AbortedByStop,
          MuxRunningTracksThread, OpenPcs, WritePcs, DonePcs, videoqVars, muxVars
  <1>1. CASE MuxStart          BY <1>1 DEF MuxStart
  <1>2. CASE MuxRunning        BY <1>2 DEF MuxRunning
  <1>3. CASE MuxStartQueue     BY <1>3 DEF MuxStartQueue
  <1>4. CASE MuxClearAbort     BY <1>4 DEF MuxClearAbort
  <1>5. CASE OpenOutput        BY <1>5 DEF OpenOutput
  <1>6. CASE WriteHeader       BY <1>6 DEF WriteHeader
  <1>7. CASE MuxFails          BY <1>7 DEF MuxFails
  <1>8. CASE WriteTop          BY <1>8 DEF WriteTop
  <1>9. CASE WriteSize         BY <1>9 DEF WriteSize
  <1>10. CASE WriteAbortQueue  BY <1>10 DEF WriteAbortQueue
  <1>11. CASE GetPacketAborted
    <2>1. owedPackets = {}
      BY <1>11 DEF GetPacketAborted
    <2> QED  BY <1>11, <2>1 DEF GetPacketAborted
  <1>12. CASE WriteTrailer     BY <1>12 DEF WriteTrailer
  <1>13. CASE PostError        BY <1>13 DEF PostError
  <1>14. CASE MuxNotRunning    BY <1>14 DEF MuxNotRunning
  <1>15. CASE CloseFile        BY <1>15 DEF CloseFile
  <1> QED
    BY <1>1, <1>2, <1>3, <1>4, <1>5, <1>6, <1>7, <1>8, <1>9, <1>10, <1>11, <1>12,
       <1>13, <1>14, <1>15

\* The steps that take a packet from the queue, write it or drop it.
LEMMA MuxDataDrain ==
  ASSUME TypeOK, MuxDrainInv,
         MuxFlush \/ GetPacket \/ WritePacket \/ WriteFails \/ DropRest
  PROVE  MuxDrainInv'
  <1> USE PacketFact, RangeEmpty
      DEF MuxDrainInv, DrainBeforeTrailer, WhereOwed, AbortedByStop,
          MuxRunningTracksThread, OpenPcs, WritePcs, DonePcs, videoqVars, muxVars
  <1>1. CASE MuxFlush          BY <1>1 DEF MuxFlush
  <1>2. CASE GetPacket
    <2>1. /\ packet' \in Packet
          /\ Range(videoq) = {packet'} \cup Range(videoq')
      BY <1>2, RangeTail DEF GetPacket, TypeOK
    <2> QED  BY <1>2, <2>1 DEF GetPacket
  <1>3. CASE WritePacket       BY <1>3 DEF WritePacket
  <1>4. CASE WriteFails        BY <1>4 DEF WriteFails
  <1>5. CASE DropRest          BY <1>5 DEF DropRest
  <1> QED  BY <1>1, <1>2, <1>3, <1>4, <1>5

\* The steps of muxer_stop: the queue is aborted only when it was seen empty, and
\* what comes after that is not owed.
LEMMA MStopDrain ==
  ASSUME TypeOK, MuxDrainInv, MStopBegin \/ MStopStep
  PROVE  MuxDrainInv'
  <1> USE RangeEmpty
      DEF MuxDrainInv, DrainBeforeTrailer, WhereOwed, AbortedByStop,
          MuxRunningTracksThread, OpenPcs, WritePcs, DonePcs, videoqVars, muxVars
  <1>1. CASE MStopBegin        BY <1>1 DEF MStopBegin
  <1>2. CASE MStopSize         BY <1>2 DEF MStopSize
  <1>3. CASE MStopAbortQueue   BY <1>3 DEF MStopAbortQueue
  <1>4. CASE MStopAbort        BY <1>4 DEF MStopAbort
  <1>5. CASE MStopWait         BY <1>5 DEF MStopWait
  <1>6. CASE MStopJoin         BY <1>6 DEF MStopJoin
  <1> QED  BY <1>1, <1>2, <1>3, <1>4, <1>5, <1>6 DEF MStopStep

\* A packet that is put is new, and owed only when nobody stops the muxer.
LEMMA PutPacketDrain ==
  ASSUME TypeOK, MuxDrainInv, PutPacket
  PROVE  MuxDrainInv'
  <1> USE DEF MuxDrainInv, DrainBeforeTrailer, WhereOwed, AbortedByStop,
              MuxRunningTracksThread, OpenPcs, WritePcs, DonePcs, videoqVars, muxVars
  <1>1. nextPacket \in Packet /\ nextPacket \notin owedPackets
    BY DEF PutPacket, TypeOK, Packet
  <1>2. Range(videoq') = Range(videoq) \cup {nextPacket}
    BY <1>1, RangeAppend DEF PutPacket, TypeOK
  <1>3. owedPackets' \subseteq 1..nextPacket' - 1
    BY DEF PutPacket, TypeOK
  <1>4. CASE OwingPacket
    BY <1>2, <1>3, <1>4 DEF PutPacket, OwingPacket
  <1>5. CASE ~OwingPacket
    <2>1. owedPackets' = owedPackets /\ owedPackets' \cap Range(videoq') = owedPackets \cap Range(videoq)
      BY <1>1, <1>2, <1>5 DEF PutPacket
    <2> QED  BY <1>2, <1>3, <2>1 DEF PutPacket
  <1> QED  BY <1>4, <1>5

\* The inductive invariant is kept by every step.
LEMMA NextMuxDrain == TypeOK /\ MuxDrainInv /\ [Next]_vars => MuxDrainInv'
  <1> SUFFICES ASSUME TypeOK, MuxDrainInv, [Next]_vars
               PROVE  MuxDrainInv'
    OBVIOUS
  <1>1. CASE UNCHANGED vars
    BY <1>1 DEF vars, videoqVars, muxVars, MuxDrainInv, DrainBeforeTrailer,
                WhereOwed, AbortedByStop, MuxRunningTracksThread
  <1> QED
    BY <1>1, MuxControlDrain, MuxDataDrain, MStopDrain, PutPacketDrain DEF Next, MuxStep

\* The inductive invariant holds in every state.
THEOREM MuxDrainInvariant == Spec => []MuxDrainInv
  BY InitMuxDrain, NextMuxDrain, MuxTypeCorrect, PTL DEF Spec

\* Every packet put after muxer_start's flush and before muxer_stop is in the file
\* when the loop of write_frame has ended, failures of the write apart.
THEOREM MuxDrains == Spec => []DrainBeforeTrailer
  <1>1. MuxDrainInv => DrainBeforeTrailer
    BY DEF MuxDrainInv
  <1> QED  BY <1>1, MuxDrainInvariant, PTL

-----------------------------------------------------------------------------
(* Nothing is missing in the middle of the file.                           *)

\* Each number is the one before it and one.
Consecutive(s) == \A i \in 1..Len(s) - 1 : s[i + 1] = s[i] + 1

\* The packet after packet n is the first in the queue, or has not been put.
Follows(n) == IF videoq = <<>> THEN n = nextPacket - 1 ELSE videoq[1] = n + 1

LineInv ==
  /\ Consecutive(written) /\ Consecutive(videoq)
  /\ videoq # <<>> => videoq[Len(videoq)] = nextPacket - 1
  /\ muxPc \in {"flushq", "startq", "clear"} \cup OpenPcs => written = <<>>
  /\ muxPc \in WritePcs \ {"write"} /\ written # <<>> => Follows(written[Len(written)])
  /\ packet # NoPacket =>
        /\ Follows(packet)
        /\ written # <<>> => packet = written[Len(written)] + 1

\* A sequence and its continuation.
LEMMA ConsecutiveJoin ==
  ASSUME NEW s \in Seq(Packet), NEW t \in Seq(Packet), Consecutive(s), Consecutive(t),
         s # <<>> /\ t # <<>> => t[1] = s[Len(s)] + 1
  PROVE  Consecutive(s \o t) /\ s \o t \in Seq(Packet)
  <1>1. /\ s \o t \in Seq(Packet) /\ Len(s) \in Nat /\ Len(t) \in Nat
        /\ Len(s \o t) = Len(s) + Len(t)
        /\ \A i \in 1..Len(s) : (s \o t)[i] = s[i]
        /\ \A i \in 1..Len(t) : (s \o t)[Len(s) + i] = t[i]
    OBVIOUS
  <1>2. SUFFICES ASSUME NEW i \in 1..Len(s) + Len(t) - 1
                 PROVE  (s \o t)[i + 1] = (s \o t)[i] + 1
    BY <1>1 DEF Consecutive
  <1>3. CASE i < Len(s)
    <2>1. i \in 1..Len(s) - 1 /\ i + 1 \in 1..Len(s)
      BY <1>1, <1>3
    <2> QED  BY <1>1, <2>1 DEF Consecutive
  <1>4. CASE i = Len(s)
    <2>1. s # <<>> /\ t # <<>> /\ 1 \in 1..Len(t) /\ i \in 1..Len(s)
      BY <1>1, <1>4
    <2> QED  BY <1>1, <1>4, <2>1
  <1>5. CASE i > Len(s)
    <2>1. PICK j \in 1..Len(t) - 1 : i = Len(s) + j
      <3>1. i - Len(s) \in 1..Len(t) - 1 /\ i = Len(s) + (i - Len(s))
        BY <1>1, <1>5
      <3> QED  BY <3>1
    <2>2. j \in 1..Len(t) /\ j + 1 \in 1..Len(t) /\ i + 1 = Len(s) + (j + 1)
      BY <1>1, <2>1
    <2>3. (s \o t)[i] = t[j] /\ (s \o t)[i + 1] = t[j + 1]
      BY <1>1, <2>1, <2>2
    <2> QED  BY <2>1, <2>3 DEF Consecutive
  <1> QED  BY <1>1, <1>3, <1>4, <1>5

\* The rest of a queue begins where the head ends.
LEMMA ConsecutiveTail ==
  ASSUME NEW s \in Seq(Packet), s # <<>>, Consecutive(s)
  PROVE  /\ Consecutive(Tail(s))
         /\ Tail(s) = <<>> => Head(s) = s[Len(s)]
         /\ Tail(s) # <<>> => /\ Tail(s)[1] = Head(s) + 1
                              /\ Tail(s)[Len(Tail(s))] = s[Len(s)]
  <1>0. /\ Len(s) \in Nat \ {0} /\ Head(s) = s[1] /\ Len(Tail(s)) = Len(s) - 1
        /\ \A i \in 1..Len(s) - 1 : Tail(s)[i] = s[i + 1]
        /\ Tail(s) \in Seq(Packet)
    OBVIOUS
  <1>1. /\ Len(s) \in Nat \ {0} /\ Head(s) = s[1] /\ Len(Tail(s)) = Len(s) - 1
        /\ \A i \in 1..Len(s) - 1 : Tail(s)[i] = s[i + 1]
        /\ (Tail(s) = <<>>) <=> (Len(s) = 1)
    <2>1. (Tail(s) = <<>>) <=> (Len(Tail(s)) = 0)
      BY <1>0
    <2> QED  BY <1>0, <2>1
  <1>2. Consecutive(Tail(s))
    <2> SUFFICES ASSUME NEW i \in 1..Len(s) - 2
                 PROVE  Tail(s)[i + 1] = Tail(s)[i] + 1
      BY <1>1 DEF Consecutive
    <2>1. /\ i \in 1..Len(s) - 1 /\ i + 1 \in 1..Len(s) - 1
          /\ Tail(s)[i] = s[i + 1] /\ Tail(s)[i + 1] = s[(i + 1) + 1]
      BY <1>1
    <2> QED  BY <2>1 DEF Consecutive
  <1>3. CASE Len(s) = 1
    BY <1>1, <1>2, <1>3
  <1>4. CASE Len(s) # 1
    <2>1. 1 \in 1..Len(s) - 1 /\ Len(s) - 1 \in 1..Len(s) - 1
      BY <1>1, <1>4
    <2>2. Tail(s)[1] = s[1 + 1] /\ Tail(s)[Len(s) - 1] = s[(Len(s) - 1) + 1]
      BY <1>1, <2>1
    <2>3. s[1 + 1] = s[1] + 1
      BY <2>1 DEF Consecutive
    <2> QED  BY <1>1, <1>2, <1>4, <2>2, <2>3
  <1> QED  BY <1>3, <1>4

\* Appending what follows keeps the numbers consecutive.
LEMMA ConsecutiveAppend ==
  ASSUME NEW s \in Seq(Packet), NEW n \in Packet, Consecutive(s),
         s # <<>> => n = s[Len(s)] + 1
  PROVE  /\ Consecutive(Append(s, n))
         /\ Append(s, n) # <<>> /\ Append(s, n)[Len(Append(s, n))] = n
         /\ Append(s, n)[1] = IF s = <<>> THEN n ELSE s[1]
  <1>1. /\ Len(s) \in Nat /\ Len(Append(s, n)) = Len(s) + 1
        /\ \A i \in 1..Len(s) : Append(s, n)[i] = s[i]
        /\ Append(s, n)[Len(s) + 1] = n
        /\ s = <<>> <=> Len(s) = 0
    OBVIOUS
  <1>2. ASSUME NEW i \in 1..Len(s)
        PROVE  Append(s, n)[i + 1] = Append(s, n)[i] + 1
    <2>1. CASE i = Len(s)
      BY <1>1, <2>1
    <2>2. CASE i # Len(s)
      <3>1. i \in 1..Len(s) - 1 /\ i + 1 \in 1..Len(s)
        BY <1>1, <2>2
      <3> QED  BY <1>1, <3>1 DEF Consecutive
    <2> QED  BY <2>1, <2>2
  <1>3. Consecutive(Append(s, n))
    BY <1>1, <1>2 DEF Consecutive
  <1>4. Append(s, n)[1] = IF s = <<>> THEN n ELSE s[1]
    <2>1. CASE s = <<>>
      BY <1>1, <2>1
    <2>2. CASE s # <<>>
      <3>1. 1 \in 1..Len(s)
        BY <1>1, <2>2
      <3> QED  BY <1>1, <2>2, <3>1
    <2> QED  BY <2>1, <2>2
  <1>5. Append(s, n) # <<>>
    BY <1>1
  <1> QED  BY <1>1, <1>3, <1>4, <1>5

\* The steps that move no packet, and those that empty the queue.
LEMMA LineControl ==
  ASSUME TypeOK, PacketInHand, LineInv,
         \/ MuxStart \/ MuxRunning \/ MuxStartQueue \/ MuxClearAbort
         \/ OpenOutput \/ WriteHeader \/ MuxFails
         \/ WriteTop \/ WriteSize \/ WriteAbortQueue \/ GetPacketAborted
         \/ WriteTrailer \/ PostError \/ MuxNotRunning \/ CloseFile
         \/ MStopBegin \/ MStopStep
  PROVE  LineInv'
  <1> USE DEF LineInv, Follows, PacketInHand, OpenPcs, WritePcs, videoqVars, muxVars
  <1>1. CASE MStopBegin \/ MStopStep
    BY <1>1 DEF MStopBegin, MStopStep, MStopSize, MStopAbortQueue, MStopAbort,
                MStopWait, MStopJoin
  <1>2. CASE MuxRunning
    <2>1. Consecutive(written') /\ packet = NoPacket
      BY <1>2 DEF MuxRunning, Consecutive
    <2> QED  BY <1>2, <2>1 DEF MuxRunning
  <1>3. CASE MuxStart          BY <1>3 DEF MuxStart
  <1>4. CASE MuxStartQueue     BY <1>4 DEF MuxStartQueue
  <1>5. CASE MuxClearAbort     BY <1>5 DEF MuxClearAbort
  <1>6. CASE OpenOutput        BY <1>6 DEF OpenOutput
  <1>7. CASE WriteHeader       BY <1>7 DEF WriteHeader
  <1>8. CASE MuxFails          BY <1>8 DEF MuxFails
  <1>9. CASE WriteTop          BY <1>9 DEF WriteTop
  <1>10. CASE WriteSize        BY <1>10 DEF WriteSize
  <1>11. CASE WriteAbortQueue  BY <1>11 DEF WriteAbortQueue
  <1>12. CASE GetPacketAborted BY <1>12 DEF GetPacketAborted
  <1>13. CASE WriteTrailer     BY <1>13 DEF WriteTrailer
  <1>14. CASE PostError        BY <1>14 DEF PostError
  <1>15. CASE MuxNotRunning    BY <1>15 DEF MuxNotRunning
  <1>16. CASE CloseFile        BY <1>16 DEF CloseFile
  <1> QED
    BY <1>1, <1>2, <1>3, <1>4, <1>5, <1>6, <1>7, <1>8, <1>9, <1>10, <1>11, <1>12,
       <1>13, <1>14, <1>15, <1>16

\* The steps that put, take, write or drop a packet.
LEMMA LineData ==
  ASSUME TypeOK, PacketInHand, LineInv,
         PutPacket \/ MuxFlush \/ GetPacket \/ WritePacket \/ WriteFails \/ DropRest
  PROVE  LineInv'
  <1> USE DEF LineInv, PacketInHand, OpenPcs, WritePcs, videoqVars, muxVars
  <1>0. /\ videoq \in Seq(Packet) /\ written \in Seq(Packet)
        /\ nextPacket \in Nat /\ NoPacket \notin Packet
    BY PacketFact DEF TypeOK
  <1>1. CASE PutPacket
    <2>1. nextPacket \in Packet
      BY <1>1 DEF PutPacket, TypeOK, Packet
    <2>2. videoq # <<>> => nextPacket = videoq[Len(videoq)] + 1
      BY <1>0
    <2>3. /\ Consecutive(videoq') /\ videoq' # <<>>
          /\ videoq'[Len(videoq')] = nextPacket
          /\ videoq'[1] = IF videoq = <<>> THEN nextPacket ELSE videoq[1]
      BY <1>0, <1>1, <2>1, <2>2, ConsecutiveAppend DEF PutPacket
    <2>4. nextPacket' = nextPacket + 1 /\ UNCHANGED <<written, packet, muxPc>>
      BY <1>1 DEF PutPacket
    <2>5. ASSUME NEW n \in Packet, Follows(n)
          PROVE  Follows(n)'
      <3>1. n \in Nat
        BY DEF Packet
      <3> QED  BY <1>0, <2>3, <2>4, <2>5, <3>1 DEF Follows
    <2>6. written # <<>> => written[Len(written)] \in Packet
      BY <1>0
    <2>7. packet # NoPacket => packet \in Packet
      BY DEF TypeOK
    <2> QED  BY <1>0, <2>3, <2>4, <2>5, <2>6, <2>7 DEF Follows
  <1>2. CASE MuxFlush \/ DropRest
    <2>1. videoq' = <<>> /\ packet = NoPacket /\ UNCHANGED <<written, packet, nextPacket>>
      BY <1>2 DEF MuxFlush, DropRest
    <2>2. Consecutive(videoq')
      BY <2>1 DEF Consecutive
    <2> QED  BY <1>2, <2>1, <2>2 DEF MuxFlush, DropRest
  <1>3. CASE GetPacket
    <2> USE <1>3 DEF GetPacket
    <2>1. /\ Consecutive(videoq')
          /\ videoq' = <<>> => packet' = videoq[Len(videoq)]
          /\ videoq' # <<>> => /\ videoq'[1] = packet' + 1
                               /\ videoq'[Len(videoq')] = videoq[Len(videoq)]
      BY <1>0, ConsecutiveTail
    <2>2. Follows(packet)'
      BY <2>1 DEF Follows
    <2>3. packet' = videoq[1]
      BY <1>0
    <2> QED  BY <2>1, <2>2, <2>3 DEF Follows
  <1>4. CASE WritePacket
    <2> USE <1>4 DEF WritePacket
    <2>1. packet \in Packet /\ Follows(packet)
      BY DEF TypeOK
    <2>2. /\ Consecutive(written') /\ written' # <<>>
          /\ written'[Len(written')] = packet
      BY <1>0, <2>1, ConsecutiveAppend
    <2> QED  BY <2>1, <2>2 DEF Follows
  <1>5. CASE WriteFails
    BY <1>5 DEF WriteFails
  <1> QED  BY <1>1, <1>2, <1>3, <1>4, <1>5

\* The file and the queue are a stretch of the numbers without a gap: NoGap.
THEOREM FileHasNoGap == Spec => []NoGap
  <1>1. Init => LineInv
    BY DEF Init, LineInv, Consecutive, OpenPcs, WritePcs
  <1>2. TypeOK /\ PacketInHand /\ LineInv /\ [Next]_vars => LineInv'
    <2> SUFFICES ASSUME TypeOK, PacketInHand, LineInv, [Next]_vars PROVE LineInv'
      OBVIOUS
    <2>1. CASE UNCHANGED vars
      BY <2>1 DEF vars, videoqVars, muxVars, LineInv, Follows
    <2> QED  BY <2>1, LineControl, LineData DEF Next, MuxStep
  <1>3. TypeOK /\ PacketInHand /\ LineInv => NoGap
    <2> SUFFICES ASSUME TypeOK, PacketInHand, LineInv PROVE NoGap
      OBVIOUS
    <2> DEFINE hand == IF packet = NoPacket THEN <<>> ELSE <<packet>>
               file1 == written \o hand
               line == IF muxPc \in WritePcs THEN file1 \o videoq ELSE file1
    <2>1. /\ videoq \in Seq(Packet) /\ written \in Seq(Packet) /\ hand \in Seq(Packet)
          /\ Consecutive(hand)
      BY DEF TypeOK, Consecutive
    <2>2. Consecutive(file1) /\ file1 \in Seq(Packet)
      <3>1. written # <<>> /\ hand # <<>> => hand[1] = written[Len(written)] + 1
        BY DEF LineInv
      <3>2. Consecutive(written)
        BY DEF LineInv
      <3> QED  BY <2>1, <3>1, <3>2, ConsecutiveJoin
    <2>3. ASSUME muxPc \in WritePcs, videoq # <<>>, file1 # <<>>
          PROVE  videoq[1] = file1[Len(file1)] + 1
      <3>1. CASE packet = NoPacket
        <4>1. file1 = written /\ muxPc # "write"
          BY <2>1, <3>1 DEF PacketInHand
        <4> QED  BY <2>3, <4>1 DEF LineInv, Follows
      <3>2. CASE packet # NoPacket
        <4>1. file1[Len(file1)] = packet
          BY <2>1, <3>2
        <4> QED  BY <2>3, <3>2, <4>1 DEF LineInv, Follows
      <3> QED  BY <3>1, <3>2
    <2>4. Consecutive(line)
      <3>1. Consecutive(videoq)
        BY DEF LineInv
      <3>2. CASE muxPc \in WritePcs
        BY <2>1, <2>2, <2>3, <3>1, <3>2, ConsecutiveJoin
      <3> QED  BY <2>2, <3>2
    <2> QED  BY <2>4 DEF Consecutive, NoGap
  <1> QED  BY <1>1, <1>2, <1>3, MuxTypeCorrect, PTL DEF Spec
=============================================================================
