----------------------------- MODULE FrameClock -----------------------------
(***************************************************************************)
(* The time stamps of the frames: cur_pts, last_time and the configuration *)
(* of the encoder, which VEncoder_enqueue reads and writes without a lock  *)
(* on the threads that put, and prepareAsync resets on another.            *)
(*                                                                         *)
(* A step is one access to a shared field, or to the clock.  The elapsed   *)
(* time is divided in float, and so only known up to Precision.  What the  *)
(* environment does to the stamps is recorded in quirks, and a property    *)
(* says which of them it does without.                                     *)
(***************************************************************************)
EXTENDS Integers, Sequences, FiniteSets

CONSTANTS
    Putters,
    Fps, Multiple,  \* of the configuration
    Second,         \* what the clock counts in a second (1000000)
    Precision,      \* a quotient in float is right up to one part in so many
    MaxFrames,      \* bound on the puts
    MaxTime,        \* bound on the clock
    MaxSessions     \* bound on the prepareAsync calls

ASSUME ClockAssumption ==
    /\ Fps \in Nat \ {0} /\ Multiple \in Nat \ {0} /\ Second \in Nat \ {0}
    /\ Precision \in Nat \ {0}
    /\ MaxFrames \in Nat /\ MaxTime \in Nat /\ MaxSessions \in Nat

VARIABLES
    time,     \* av_gettime
    curPts, lastTime,
    cfr,      \* config.CFR of the encoder
    wanted,   \* and of the recorder
    phase,    \* of the session, around prepareAsync
    putPc,    \* where each putter is in VEncoder_enqueue
    stamp,    \* the pts of its frame
    read,     \* when it first read the clock
    frames,   \* the stamps put in the queue since the encoder last flushed it
    stamped,  \* history: how many stamps were given since the last prepareAsync
    offset,   \* history: when the first of them was, and the time that has passed
              \* between the two readings of the clock since
    quirks,   \* history: what has disturbed the stamps since prepareAsync
    sessions, \* the prepareAsync calls
    puts      \* the puts

clockVars == <<curPts, lastTime, cfr>>
localVars == <<stamp, read>>
putVars == <<putPc, localVars, puts>>
sessionVars == <<wanted, phase, sessions>>
countVars == <<stamped, offset>>
vars == <<time, clockVars, putVars, sessionVars, frames, countVars, quirks>>

\* "overlap":  two puts overlapped;
\* "between":  a put overlapped prepareAsync, or left its frame after a stop;
\* "refused":  prepareAsync was refused;
\* "set_back": the clock was set back.
Quirks == {"overlap", "between", "refused", "set_back"}

Busy(p) == putPc[p] # "idle"
Idle == \A p \in Putters : ~Busy(p)

Init ==
    /\ time = 0
    /\ curPts = 0 /\ lastTime = 0  \* the memory of the encoder is zeroed
    /\ cfr = FALSE /\ wanted = FALSE
    /\ phase = "stopped"
    /\ putPc = [p \in Putters |-> "idle"]
    /\ stamp = [p \in Putters |-> 0]
    /\ read = [p \in Putters |-> 0]
    /\ frames = <<>>
    /\ stamped = 0 /\ offset = 0
    /\ quirks = {}
    /\ sessions = 0 /\ puts = 0

\* av_rescale, of positive numbers: to the nearest, halves up.
AvRescale(a, b, c) == (a * b + c \div 2) \div c

\* The denominator of time_base, whose numerator is 1, and interval_pts.
Den == Fps * Multiple
Interval == AvRescale(1, Den, Fps)

\* The integers that n / d, divided in float, may become.  The elapsed time, the
\* unit and their quotient are each rounded, by at most one part in 2^24, which
\* together is less than one in 2^22; the conversion then truncates towards zero.
FloatQuotient(n, d) ==
    LET AtLeast(m) == (m * (Precision - 1)) \div (d * Precision)
        AtMost(m) == (m * (Precision + 1)) \div (d * Precision)
    IN  IF n >= 0 THEN AtLeast(n) .. AtMost(n)
                  ELSE {-q : q \in AtLeast(-n) .. AtMost(-n)}
-----------------------------------------------------------------------------
(* prepareAsync, in a state that accepts it and in one that does not. *)

\* VEncoder_init.
VEncoder_init ==
    /\ curPts' = -1
    /\ lastTime' = -1
    /\ cfr' = FALSE

\* setConfigParams on a recorder that has stopped, and then prepareAsync.
PrepareInit ==
    /\ phase = "stopped"
    /\ sessions < MaxSessions
    /\ sessions' = sessions + 1
    /\ wanted' \in BOOLEAN
    /\ VEncoder_init
    /\ phase' = "init"
    /\ stamped' = 0 /\ offset' = 0
    /\ quirks' = IF Idle /\ frames = <<>> THEN {} ELSE {"between"}
    /\ UNCHANGED <<time, putVars, frames>>

\* ASYNC_PREPARING, from where on put is accepted.
PrepareState ==
    /\ phase = "init"
    /\ phase' = "preparing"
    /\ UNCHANGED <<time, clockVars, putVars, wanted, sessions, frames, countVars,
                   quirks>>

\* Mutant: the configuration does not have CFR.
VEncoder_configPartly ==
    /\ phase = "preparing"
    /\ phase' = "open"
    /\ UNCHANGED <<time, clockVars, putVars, wanted, sessions, frames, countVars,
                   quirks>>

VEncoder_config ==
    /\ phase = "preparing"
    /\ cfr' = wanted
    /\ phase' = "open"
    /\ UNCHANGED <<time, curPts, lastTime, putVars, wanted, sessions, frames,
                   countVars, quirks>>

\* prepareAsync is refused, after it has reset the clock of a session.
PrepareRefused ==
    /\ phase = "open"
    /\ sessions < MaxSessions
    /\ sessions' = sessions + 1
    /\ VEncoder_init
    /\ quirks' = quirks \cup {"refused"}
    /\ UNCHANGED <<time, putVars, wanted, phase, frames, countVars>>

\* A stop ends with the encoder's flush of the queue.
Stop ==
    /\ phase = "open"
    /\ phase' = "stopped"
    /\ frames' = <<>>
    /\ UNCHANGED <<time, clockVars, putVars, wanted, sessions, countVars,
                   quirks>>
-----------------------------------------------------------------------------
(* VEncoder_enqueue, from where the frame is not refused. *)

\* The test for a first frame.  Its two reads are one step.
PutTest(p) ==
    /\ ~Busy(p)
    /\ phase \in {"preparing", "open"}
    /\ puts < MaxFrames
    /\ puts' = puts + 1
    /\ putPc' = [putPc EXCEPT ![p] =
                    IF lastTime = -1 /\ curPts = -1 THEN "first" ELSE "next"]
    /\ quirks' = quirks
         \cup (IF Idle THEN {} ELSE {"overlap"})
         \cup (IF phase = "open" THEN {} ELSE {"between"})
    /\ UNCHANGED <<time, clockVars, localVars, sessionVars, frames, countVars>>

\* Mutant: the first frame does not set cur_pts.
PutFirstUnset(p) ==
    /\ putPc[p] = "first"
    /\ stamp' = [stamp EXCEPT ![p] = 0]
    /\ read' = [read EXCEPT ![p] = time]
    /\ stamped' = stamped + 1
    /\ offset' = time
    /\ putPc' = [putPc EXCEPT ![p] = "time"]
    /\ UNCHANGED <<time, clockVars, sessionVars, puts, frames, quirks>>

PutFirst(p) ==
    /\ putPc[p] = "first"
    /\ stamp' = [stamp EXCEPT ![p] = 0]
    /\ read' = [read EXCEPT ![p] = time]
    /\ curPts' = 0
    /\ stamped' = stamped + 1
    /\ offset' = time
    /\ putPc' = [putPc EXCEPT ![p] = "time"]
    /\ UNCHANGED <<time, lastTime, cfr, sessionVars, puts, frames, quirks>>

\* What may be taken for the time since the last frame, in units of time_base.
Elapsed == FloatQuotient((time - lastTime) * Den, Second)

\* A constant frame rate does not look at the clock.
PutNext(p) ==
    /\ putPc[p] = "next"
    /\ \E units \in IF cfr THEN {Interval} ELSE Elapsed :
          stamp' = [stamp EXCEPT ![p] = curPts + units]
    /\ read' = [read EXCEPT ![p] = time]
    /\ stamped' = stamped + 1
    /\ putPc' = [putPc EXCEPT ![p] = "pts"]
    /\ UNCHANGED <<time, clockVars, sessionVars, puts, frames, offset,
                   quirks>>

\* Mutant: the interval is added to what cur_pts is by now.
PutSetPtsTwice(p) ==
    /\ putPc[p] = "pts"
    /\ curPts' = stamp[p] + (IF cfr /\ curPts # 0 THEN Interval ELSE 0)
    /\ putPc' = [putPc EXCEPT ![p] = "time"]
    /\ UNCHANGED <<time, lastTime, cfr, localVars, puts, sessionVars, frames,
                   countVars, quirks>>

PutSetPts(p) ==
    /\ putPc[p] = "pts"
    /\ curPts' = stamp[p]
    /\ putPc' = [putPc EXCEPT ![p] = "time"]
    /\ UNCHANGED <<time, lastTime, cfr, localVars, puts, sessionVars, frames,
                   countVars, quirks>>

\* Mutant: last_time goes on by the interval instead of to the present.
PutSetTimeByRate(p) ==
    /\ putPc[p] = "time"
    /\ lastTime' = IF lastTime = -1 THEN time ELSE lastTime + Interval
    /\ offset' = offset + (time - read[p])
    /\ putPc' = [putPc EXCEPT ![p] = "queue"]
    /\ UNCHANGED <<time, curPts, cfr, localVars, puts, sessionVars, frames, stamped,
                   quirks>>

\* Mutant: last_time is set by the first frame only.
PutSetTimeOnce(p) ==
    /\ putPc[p] = "time"
    /\ lastTime' = IF lastTime = -1 THEN time ELSE lastTime
    /\ offset' = offset + (time - read[p])
    /\ putPc' = [putPc EXCEPT ![p] = "queue"]
    /\ UNCHANGED <<time, curPts, cfr, localVars, puts, sessionVars, frames, stamped,
                   quirks>>

\* The clock is read again.
PutSetTime(p) ==
    /\ putPc[p] = "time"
    /\ lastTime' = time
    /\ offset' = offset + (time - read[p])
    /\ putPc' = [putPc EXCEPT ![p] = "queue"]
    /\ UNCHANGED <<time, curPts, cfr, localVars, puts, sessionVars, frames, stamped,
                   quirks>>

\* The call returns: its locals are gone.
PutReturn(p) ==
    /\ putPc' = [putPc EXCEPT ![p] = "idle"]
    /\ stamp' = [stamp EXCEPT ![p] = 0]
    /\ read' = [read EXCEPT ![p] = 0]
    /\ UNCHANGED <<time, clockVars, sessionVars, puts, countVars, quirks>>

\* rgba_queue_put.
PutQueue(p) ==
    /\ putPc[p] = "queue"
    /\ frames' = Append(frames, stamp[p])
    /\ PutReturn(p)

\* It fails: the stamp is spent all the same.
PutQueueFails(p) ==
    /\ putPc[p] = "queue"
    /\ PutReturn(p)
    /\ UNCHANGED frames

PutStep(p) ==
    \/ PutTest(p) \/ PutFirst(p) \/ PutNext(p) \/ PutSetPts(p)
    \/ PutSetTime(p) \/ PutQueue(p) \/ PutQueueFails(p)
-----------------------------------------------------------------------------
(* The clock, which is the time of day. *)

Advance ==
    /\ time < MaxTime
    /\ time' = time + 1
    /\ UNCHANGED <<clockVars, putVars, sessionVars, frames, countVars,
                   quirks>>

SetBack ==
    /\ "set_back" \notin quirks
    /\ time > 0
    /\ time' \in 0 .. time - 1
    /\ quirks' = quirks \cup {"set_back"}
    /\ UNCHANGED <<clockVars, putVars, sessionVars, frames, countVars>>

Next ==
    \/ PrepareInit \/ PrepareState \/ VEncoder_config \/ PrepareRefused \/ Stop
    \/ \E p \in Putters : PutStep(p)
    \/ Advance \/ SetBack

Spec == Init /\ [][Next]_vars
-----------------------------------------------------------------------------
(* Properties. *)

TypeOK ==
    /\ time \in 0..MaxTime
    /\ curPts \in Int /\ lastTime \in -1..MaxTime
    /\ cfr \in BOOLEAN /\ wanted \in BOOLEAN
    /\ phase \in {"stopped", "init", "preparing", "open"}
    /\ putPc \in [Putters -> {"idle", "first", "next", "pts", "time", "queue"}]
    /\ stamp \in [Putters -> Int]
    /\ read \in [Putters -> 0..MaxTime]
    /\ frames \in Seq(Int)
    /\ stamped \in Nat /\ offset \in Int
    /\ quirks \subseteq Quirks
    /\ sessions \in 0..MaxSessions
    /\ puts \in 0..MaxFrames

Without(q) == quirks \cap q = {}

\* The film of one putter that nothing disturbs goes forward from 0, whatever
\* the frame rate is and even when frames are lost at the queue.
Forward ==
    quirks = {} =>
        /\ \A i \in DOMAIN frames : frames[i] >= 0
        /\ \A i, j \in DOMAIN frames : i <= j => frames[i] <= frames[j]

\* With a constant frame rate the k-th frame that is stamped is shown at the
\* time (k - 1) / fps, whatever the clock does: interval_pts is computed from
\* the time base of the same configuration (xm_video_encoder.c:438).
ConstantRate ==
    wanted /\ Without({"between", "refused", "overlap"}) /\ Idle /\ stamped > 0 =>
        curPts * Fps = (stamped - 1) * Den

\* Putters that race for cur_pts give a constant rate equal stamps, but never
\* one that is too late: the film is not longer than its frames.
NotTooLate ==
    wanted /\ Without({"between", "refused"}) /\ stamped > 0 =>
        /\ curPts <= (stamped - 1) * Interval
        /\ \A p \in Putters : stamp[p] <= (stamped - 1) * Interval

\* Without one, the film keeps to real time, however long the gaps between its
\* frames are: it is ahead by no more than one part in Precision of the time that
\* has passed, and behind by no more than that, less than a unit of the time base
\* per frame, and the time between the two readings of the clock in a put
\* (xm_video_encoder.c:196-201).  InTime is for the n-th stamp.
InTime(pts, elapsed, n) ==
    LET passed == elapsed * Den
        behind == passed - pts * Second
    IN  /\ behind * Precision >= -passed
        /\ behind * Precision <= passed + (n - 1) * (Second * Precision - 1)

RealTime ==
    ~wanted /\ quirks = {} /\ Idle /\ stamped > 0 => InTime(curPts, lastTime - offset, stamped)
-----------------------------------------------------------------------------
(* The invariant that carries the four: each part holds in a session as     *)
(* long as nothing has happened that breaks it.                             *)

\* Until the first stamp is given the clock is as VEncoder_init leaves it.
FreshClock ==
    Without({"between"}) =>
        /\ stamped = 0 /\ (phase # "stopped" \/ ~Idle) =>
              /\ curPts = -1 /\ lastTime = -1
              /\ \A p \in Putters : putPc[p] \in {"idle", "first"}
        /\ stamped = 0 => frames = <<>>
        /\ phase \in {"init", "preparing"} => stamped = 0 /\ Idle

\* The rate of the session is the one it was configured with.
RateKept ==
    phase \in {"open", "stopped"} /\ Without({"between", "refused"}) =>
        cfr = wanted

\* What a call that is not there yet, or not any more, has in hand is 0.
LocalsDead ==
    \A p \in Putters : putPc[p] \in {"idle", "first", "next"} => stamp[p] = 0

OnePut ==
    Without({"between", "overlap"}) =>
        /\ \A p, q \in Putters : Busy(p) /\ Busy(q) => p = q
        /\ \A p \in Putters :
              putPc[p] = "first" /\ Without({"refused"}) => stamped = 0
        /\ stamped > 0 /\ Without({"refused"})
              /\ (\A p \in Putters : putPc[p] # "time") => lastTime >= 0

\* The last stamp is in cur_pts, or in the hand of the putter that will set it.
Steady ==
    wanted /\ stamped > 0 /\ Without({"between", "refused", "overlap"}) =>
        /\ \A p \in Putters :
              putPc[p] = "pts" => stamp[p] = (stamped - 1) * Interval
        /\ (\A p \in Putters : putPc[p] # "pts") =>
              curPts = (stamped - 1) * Interval

\* The clock of a put that has not set last_time is what it has read.
Timely ==
    ~wanted /\ stamped > 0 /\ quirks = {} =>
        /\ \A p \in Putters :
              /\ putPc[p] = "pts" => InTime(stamp[p], read[p] - offset, stamped)
              /\ putPc[p] = "time" => InTime(curPts, read[p] - offset, stamped)
        /\ (\A p \in Putters : putPc[p] \notin {"pts", "time"}) =>
              InTime(curPts, lastTime - offset, stamped)

\* Every stamp in the queue is at most the last one.
Climbing ==
    quirks = {} =>
        /\ lastTime <= time
        /\ stamped > 0 => curPts >= 0
        /\ \A p \in Putters :
              /\ putPc[p] = "pts" => stamp[p] >= curPts
              /\ putPc[p] \in {"time", "queue"} => stamp[p] = curPts
        /\ \A i \in DOMAIN frames : frames[i] <= curPts

ClockInv ==
    /\ FreshClock /\ RateKept /\ LocalsDead /\ OnePut
    /\ NotTooLate /\ Steady /\ Timely /\ Climbing /\ Forward
=============================================================================
