---------------------------- MODULE FrameProofs ----------------------------
(***************************************************************************)
(* The theorems about time stamps, for every number of putters and frames, *)
(* and about pictures, of every size.                                      *)
(***************************************************************************)
EXTENDS Frames, SequenceTheorems, TLAPS

\* interval_pts is the multiple of the configuration, that is, av_rescale is
\* exact on a time base that setConfigParams has computed.
LEMMA IntervalIsMultiple == Interval = Multiple
<1> USE ClockAssumption
<1> DEFINE half == Fps \div 2
           n == Fps * Multiple + half
           q == n \div Fps
<1>1. half \in Nat /\ half < Fps
    OBVIOUS
<1>2. Fps * Multiple \in Nat
    OBVIOUS
<1>3. n \in Nat
    BY <1>1, <1>2
<1>4. q \in Nat /\ Fps * q <= n /\ n < Fps * q + Fps
    <2> HIDE DEF n
    <2> QED BY <1>3
<1> HIDE DEF q, half
<1>5. q >= Multiple
    <2> SUFFICES ASSUME q + 1 <= Multiple PROVE FALSE
        BY <1>4
    <2>1. Fps * (q + 1) <= Fps * Multiple
        BY <1>4
    <2>2. Fps * (q + 1) = Fps * q + Fps
        BY <1>4
    <2> QED BY <1>1, <1>4, <2>1, <2>2, <1>2
<1>6. q <= Multiple
    <2> SUFFICES ASSUME Multiple + 1 <= q PROVE FALSE
        BY <1>4
    <2>1. Fps * (Multiple + 1) <= Fps * q
        BY <1>4
    <2>2. Fps * (Multiple + 1) = Fps * Multiple + Fps
        OBVIOUS
    <2> QED BY <1>1, <1>4, <2>1, <2>2, <1>2
<1>7. q = Multiple
    BY <1>4, <1>5, <1>6
<1>8. Interval = q
    BY <1>2 DEF Interval, Den, AvRescale, q, half
<1> QED BY <1>7, <1>8

LEMMA Constants ==
    /\ Interval \in Nat /\ Den \in Nat \ {0}
    /\ Interval * Fps = Den
    /\ Fps \in Nat \ {0} /\ Second \in Nat \ {0} /\ Precision \in Nat \ {0}
    /\ MaxFrames \in Nat /\ MaxTime \in Nat /\ MaxSessions \in Nat
<1>1. Den \in Nat \ {0}
    BY ClockAssumption DEF Den
<1>2. Interval * Fps = Den
    BY ClockAssumption, IntervalIsMultiple DEF Den
<1> QED BY <1>1, <1>2, ClockAssumption, IntervalIsMultiple

\* A quotient in float, truncated: it exceeds the exact one by no more than one
\* part in Precision, and is short of it by that and by less than one.
LEMMA QuotientRounds ==
    ASSUME NEW n \in Nat, NEW d \in Nat \ {0}, NEW e \in FloatQuotient(n, d)
    PROVE  /\ e \in Nat
           /\ (d * Precision) * e <= n * (Precision + 1)
           /\ n * (Precision - 1) <= (d * Precision) * e + (d * Precision - 1)
<1> DEFINE k == d * Precision
           less == n * (Precision - 1)
           more == n * (Precision + 1)
<1>1. k \in Nat \ {0} /\ less \in Nat /\ more \in Nat
    BY Constants
<1>2. e \in (less \div k) .. (more \div k)
    BY DEF FloatQuotient
<1> HIDE DEF k, less, more
<1>3. /\ less \div k \in Nat /\ less <= k * (less \div k) + (k - 1)
      /\ more \div k \in Nat /\ k * (more \div k) <= more
    BY <1>1
<1>4. e \in Nat /\ less \div k <= e /\ e <= more \div k
    BY <1>2, <1>3
<1>5. k * (less \div k) <= k * e /\ k * e <= k * (more \div k)
    BY <1>1, <1>3, <1>4
<1>6. k * e <= more /\ less <= k * e + (k - 1)
    BY <1>1, <1>3, <1>4, <1>5
<1> QED BY <1>4, <1>6 DEF k, less, more

LEMMA QuotientIsInt ==
    ASSUME NEW n \in Int, NEW d \in Nat \ {0}
    PROVE  FloatQuotient(n, d) \subseteq Int
    BY Constants DEF FloatQuotient

LEMMA ElapsedIsInt == TypeOK => Elapsed \subseteq Int
<1> SUFFICES ASSUME TypeOK PROVE Elapsed \subseteq Int
    OBVIOUS
<1>1. (time - lastTime) * Den \in Int
    BY Constants DEF TypeOK
<1> QED BY <1>1, Constants, QuotientIsInt DEF Elapsed
-----------------------------------------------------------------------------
LEMMA TypeInit == Init => TypeOK
<1> SUFFICES ASSUME Init PROVE TypeOK
    OBVIOUS
<1> USE DEF Init
<1>1. frames \in Seq(Int)
    OBVIOUS
<1>2. time \in 0..MaxTime /\ lastTime \in -1..MaxTime
    BY Constants
<1>3. sessions \in 0..MaxSessions /\ puts \in 0..MaxFrames
    BY Constants
<1>4. stamp \in [Putters -> Int] /\ read \in [Putters -> 0..MaxTime]
    BY Constants
<1>5. putPc \in [Putters ->
              {"idle", "first", "next", "pts", "time", "queue"}]
    OBVIOUS
<1>6. cfr \in BOOLEAN /\ wanted \in BOOLEAN
    BY Zenon
<1> QED BY <1>1, <1>2, <1>3, <1>4, <1>5, <1>6 DEF TypeOK, Quirks

\* Each step keeps the types.
LEMMA TypeStep ==
    ASSUME TypeOK, [Next]_vars
    PROVE  TypeOK'
<1> USE Constants
    DEF TypeOK, vars, clockVars, countVars, sessionVars, putVars, localVars, Quirks
<1>1. CASE PrepareInit
    <2> USE <1>1 DEF PrepareInit, VEncoder_init
    <2>1. cfr' \in BOOLEAN /\ wanted' \in BOOLEAN
        BY Zenon
    <2>2. /\ lastTime' \in -1..MaxTime /\ sessions' \in 0..MaxSessions
          /\ curPts' \in Int /\ stamped' \in Nat /\ offset' \in Int
          /\ phase' \in {"stopped", "init", "preparing", "open"}
          /\ quirks' \subseteq Quirks
        OBVIOUS
    <2>3. UNCHANGED <<time, putPc, stamp, read, puts, frames>>
        OBVIOUS
    <2> QED BY <2>1, <2>2, <2>3
<1>2. CASE PrepareState
    BY <1>2 DEF PrepareState
<1>3. CASE VEncoder_config
    BY <1>3 DEF VEncoder_config
<1>4. CASE PrepareRefused
    <2> USE <1>4 DEF PrepareRefused, VEncoder_init
    <2>1. cfr' \in BOOLEAN /\ wanted' \in BOOLEAN
        BY Zenon
    <2>2. /\ lastTime' \in -1..MaxTime /\ sessions' \in 0..MaxSessions
          /\ curPts' \in Int /\ stamped' \in Nat /\ offset' \in Int
          /\ phase' \in {"stopped", "init", "preparing", "open"}
          /\ quirks' \subseteq Quirks
        OBVIOUS
    <2>3. UNCHANGED <<time, putPc, stamp, read, puts, frames>>
        OBVIOUS
    <2> QED BY <2>1, <2>2, <2>3
<1>5. CASE Stop
    BY <1>5 DEF Stop
<1>6. ASSUME NEW p \in Putters, PutTest(p) PROVE TypeOK'
    BY <1>6 DEF PutTest
<1>7. ASSUME NEW p \in Putters, PutFirst(p) PROVE TypeOK'
    BY <1>7 DEF PutFirst
<1>8. ASSUME NEW p \in Putters, PutNext(p) PROVE TypeOK'
    BY <1>8, ElapsedIsInt DEF PutNext
<1>9. ASSUME NEW p \in Putters, PutSetPts(p) PROVE TypeOK'
    BY <1>9 DEF PutSetPts
<1>10. ASSUME NEW p \in Putters, PutSetTime(p) PROVE TypeOK'
    BY <1>10 DEF PutSetTime
<1>11. ASSUME NEW p \in Putters, PutQueue(p) PROVE TypeOK'
    BY <1>11 DEF PutQueue, PutReturn
<1>12. ASSUME NEW p \in Putters, PutQueueFails(p) PROVE TypeOK'
    BY <1>12 DEF PutQueueFails, PutReturn
<1>13. CASE Advance
    BY <1>13 DEF Advance
<1>14. CASE SetBack
    BY <1>14 DEF SetBack
<1>15. CASE UNCHANGED vars
    BY <1>15
<1> QED BY <1>1, <1>2, <1>3, <1>4, <1>5, <1>6, <1>7, <1>8, <1>9,
           <1>10, <1>11, <1>12, <1>13, <1>14, <1>15
        DEF Next, PutStep

\* The elapsed time of a clock that is not set back.
LEMMA ElapsedRounds ==
    ASSUME TypeOK, lastTime <= time, NEW e \in Elapsed
    PROVE  LET n == (time - lastTime) * Den
               k == Second * Precision
           IN  /\ n \in Nat /\ e \in Nat
               /\ k * e <= n * (Precision + 1)
               /\ n * (Precision - 1) <= k * e + (k - 1)
<1> DEFINE n == (time - lastTime) * Den
<1>1. time - lastTime \in Nat
    BY Constants DEF TypeOK
<1>2. n \in Nat
    BY <1>1, Constants
<1>3. e \in FloatQuotient(n, Second)
    BY DEF Elapsed
<1> HIDE DEF n
<1>4. /\ n \in Nat /\ e \in Nat
      /\ (Second * Precision) * e <= n * (Precision + 1)
      /\ n * (Precision - 1) <= (Second * Precision) * e + (Second * Precision - 1)
    BY <1>2, <1>3, Constants, QuotientRounds
<1> QED BY <1>4 DEF n

\* The arithmetic of a put in real time, of what has passed and how far the stamps
\* are behind it, when n more has passed and the stamp has gone on by y.
LEMMA InTimeGoesOn ==
    ASSUME NEW passed \in Int, NEW behind \in Int, NEW n \in Int, NEW y \in Int,
           NEW r \in Int, NEW lag \in Int, NEW k \in Int,
           behind * r >= -passed, behind * r <= passed + lag,
           y * r <= n * (r + 1), n * (r - 1) <= y * r + k
    PROVE  /\ (behind + n - y) * r >= -(passed + n)
           /\ (behind + n - y) * r <= (passed + n) + (lag + k)
<1>1. /\ (behind + n - y) * r = behind * r + n * r - y * r
      /\ n * (r + 1) = n * r + n /\ n * (r - 1) = n * r - n
      /\ behind * r \in Int /\ n * r \in Int /\ y * r \in Int
    OBVIOUS
<1> DEFINE b == behind * r
           m == n * r
           x == y * r
<1> HIDE DEF b, m, x
<1>2. /\ b + m - x >= -(passed + n) /\ b + m - x <= (passed + n) + (lag + k)
    BY <1>1 DEF b, m, x
<1> QED BY <1>1, <1>2 DEF b, m, x

\* The first stamp is in time.
LEMMA InTimeAtFirst == InTime(0, 0, 1)
    BY Constants DEF InTime

\* And the next is, if the last was.
LEMMA InTimeAtNext ==
    ASSUME TypeOK, lastTime <= time, stamped >= 1, NEW e \in Elapsed,
           InTime(curPts, lastTime - offset, stamped)
    PROVE  InTime(curPts + e, time - offset, stamped + 1)
<1> DEFINE n == (time - lastTime) * Den
           k == Second * Precision
           passed == (lastTime - offset) * Den
           behind == passed - curPts * Second
           lag == (stamped - 1) * (k - 1)
<1>1. /\ n \in Nat /\ e \in Nat
      /\ k * e <= n * (Precision + 1)
      /\ n * (Precision - 1) <= k * e + (k - 1)
    BY ElapsedRounds
<1>2. /\ lastTime \in Int /\ time \in Int /\ offset \in Int /\ curPts \in Int
      /\ stamped \in Nat /\ Den \in Nat /\ Second \in Nat /\ Precision \in Nat
    BY Constants DEF TypeOK
<1>3. behind * Precision >= -passed /\ behind * Precision <= passed + lag
    BY DEF InTime
<1> HIDE DEF TypeOK
<1>4. k \in Int /\ passed \in Int /\ Second * e \in Int
    BY <1>1, <1>2
<1>5. behind \in Int
    BY <1>2, <1>4
<1>6. lag \in Int
    BY <1>2, <1>4
<1>7. k * e = (Second * e) * Precision
    BY <1>1, <1>2
<1>8. /\ (time - offset) * Den = passed + n
      /\ (time - offset) * Den - (curPts + e) * Second = behind + n - Second * e
    <2>1. (time - offset) * Den = passed + n
        BY <1>2
    <2>2. (curPts + e) * Second = curPts * Second + Second * e
        BY <1>1, <1>2
    <2>3. curPts * Second \in Int /\ Second * e \in Int
        BY <1>1, <1>2
    <2> QED BY <1>1, <1>4, <2>1, <2>2, <2>3
<1>9. ((stamped + 1) - 1) * (k - 1) = lag + (k - 1)
    BY <1>2, <1>4
<1> HIDE DEF n, k, passed, behind, lag
<1>10. /\ (behind + n - Second * e) * Precision >= -(passed + n)
       /\ (behind + n - Second * e) * Precision <= (passed + n) + (lag + (k - 1))
    BY <1>1, <1>2, <1>3, <1>4, <1>5, <1>6, <1>7, InTimeGoesOn
<1>11. ((stamped + 1) - 1) * (Second * Precision - 1) = lag + (k - 1)
    BY <1>9, Zenon DEF k
<1> QED BY <1>8, <1>10, <1>11, Zenon DEF InTime

\* The first stamp.
LEMMA FreshStep ==
    ASSUME TypeOK, FreshClock, [Next]_vars
    PROVE  FreshClock'
<1> USE Constants
    DEF TypeOK, vars, clockVars, countVars, sessionVars, putVars, localVars,
        Without, Busy, Idle, FreshClock
<1>1. CASE PrepareInit
    BY <1>1 DEF PrepareInit, VEncoder_init
<1>2. CASE PrepareState
    BY <1>2 DEF PrepareState
<1>3. CASE VEncoder_config
    BY <1>3 DEF VEncoder_config
<1>4. CASE PrepareRefused
    BY <1>4 DEF PrepareRefused, VEncoder_init
<1>5. CASE Stop
    BY <1>5 DEF Stop
<1>6. ASSUME NEW p \in Putters, PutTest(p) PROVE FreshClock'
    BY <1>6 DEF PutTest
<1>7. ASSUME NEW p \in Putters, PutFirst(p) PROVE FreshClock'
    BY <1>7 DEF PutFirst
<1>8. ASSUME NEW p \in Putters, PutNext(p) PROVE FreshClock'
    BY <1>8 DEF PutNext
<1>9. ASSUME NEW p \in Putters, PutSetPts(p) PROVE FreshClock'
    BY <1>9 DEF PutSetPts
<1>10. ASSUME NEW p \in Putters, PutSetTime(p) PROVE FreshClock'
    BY <1>10 DEF PutSetTime
<1>11. ASSUME NEW p \in Putters, PutQueue(p) PROVE FreshClock'
    BY <1>11 DEF PutQueue, PutReturn
<1>12. ASSUME NEW p \in Putters, PutQueueFails(p) PROVE FreshClock'
    BY <1>12 DEF PutQueueFails, PutReturn
<1>13. CASE Advance
    BY <1>13 DEF Advance
<1>14. CASE SetBack
    BY <1>14 DEF SetBack
<1>15. CASE UNCHANGED vars
    BY <1>15
<1> QED BY <1>1, <1>2, <1>3, <1>4, <1>5, <1>6, <1>7, <1>8, <1>9,
           <1>10, <1>11, <1>12, <1>13, <1>14, <1>15
        DEF Next, PutStep

\* The rate.
LEMMA RateStep ==
    ASSUME TypeOK, RateKept, FreshClock, [Next]_vars
    PROVE  RateKept'
<1> USE Constants
    DEF TypeOK, vars, clockVars, countVars, sessionVars, putVars, localVars,
        Without, Busy, Idle, RateKept, FreshClock
<1>1. CASE PrepareInit
    BY <1>1 DEF PrepareInit, VEncoder_init
<1>2. CASE PrepareState
    BY <1>2 DEF PrepareState
<1>3. CASE VEncoder_config
    BY <1>3 DEF VEncoder_config
<1>4. CASE PrepareRefused
    BY <1>4 DEF PrepareRefused, VEncoder_init
<1>5. CASE Stop
    BY <1>5 DEF Stop
<1>6. ASSUME NEW p \in Putters, PutTest(p) PROVE RateKept'
    BY <1>6 DEF PutTest
<1>7. ASSUME NEW p \in Putters, PutFirst(p) PROVE RateKept'
    BY <1>7 DEF PutFirst
<1>8. ASSUME NEW p \in Putters, PutNext(p) PROVE RateKept'
    BY <1>8 DEF PutNext
<1>9. ASSUME NEW p \in Putters, PutSetPts(p) PROVE RateKept'
    BY <1>9 DEF PutSetPts
<1>10. ASSUME NEW p \in Putters, PutSetTime(p) PROVE RateKept'
    BY <1>10 DEF PutSetTime
<1>11. ASSUME NEW p \in Putters, PutQueue(p) PROVE RateKept'
    BY <1>11 DEF PutQueue, PutReturn
<1>12. ASSUME NEW p \in Putters, PutQueueFails(p) PROVE RateKept'
    BY <1>12 DEF PutQueueFails, PutReturn
<1>13. CASE Advance
    BY <1>13 DEF Advance
<1>14. CASE SetBack
    BY <1>14 DEF SetBack
<1>15. CASE UNCHANGED vars
    BY <1>15
<1> QED BY <1>1, <1>2, <1>3, <1>4, <1>5, <1>6, <1>7, <1>8, <1>9,
           <1>10, <1>11, <1>12, <1>13, <1>14, <1>15
        DEF Next, PutStep

\* The locals.
LEMMA LocalsStep ==
    ASSUME TypeOK, LocalsDead, [Next]_vars
    PROVE  LocalsDead'
<1> USE Constants
    DEF TypeOK, vars, clockVars, countVars, sessionVars, putVars, localVars,
        LocalsDead, Busy
<1>1. CASE PrepareInit
    BY <1>1 DEF PrepareInit, VEncoder_init
<1>2. CASE PrepareState
    BY <1>2 DEF PrepareState
<1>3. CASE VEncoder_config
    BY <1>3 DEF VEncoder_config
<1>4. CASE PrepareRefused
    BY <1>4 DEF PrepareRefused, VEncoder_init
<1>5. CASE Stop
    BY <1>5 DEF Stop
<1>6. ASSUME NEW p \in Putters, PutTest(p) PROVE LocalsDead'
    BY <1>6 DEF PutTest
<1>7. ASSUME NEW p \in Putters, PutFirst(p) PROVE LocalsDead'
    BY <1>7 DEF PutFirst
<1>8. ASSUME NEW p \in Putters, PutNext(p) PROVE LocalsDead'
    BY <1>8 DEF PutNext
<1>9. ASSUME NEW p \in Putters, PutSetPts(p) PROVE LocalsDead'
    BY <1>9 DEF PutSetPts
<1>10. ASSUME NEW p \in Putters, PutSetTime(p) PROVE LocalsDead'
    BY <1>10 DEF PutSetTime
<1>11. ASSUME NEW p \in Putters, PutQueue(p) PROVE LocalsDead'
    BY <1>11 DEF PutQueue, PutReturn
<1>12. ASSUME NEW p \in Putters, PutQueueFails(p) PROVE LocalsDead'
    BY <1>12 DEF PutQueueFails, PutReturn
<1>13. CASE Advance
    BY <1>13 DEF Advance
<1>14. CASE SetBack
    BY <1>14 DEF SetBack
<1>15. CASE UNCHANGED vars
    BY <1>15
<1> QED BY <1>1, <1>2, <1>3, <1>4, <1>5, <1>6, <1>7, <1>8, <1>9,
           <1>10, <1>11, <1>12, <1>13, <1>14, <1>15
        DEF Next, PutStep

\* One put at a time.
LEMMA OnePutStep ==
    ASSUME TypeOK, FreshClock, OnePut, [Next]_vars
    PROVE  OnePut'
<1> USE Constants
    DEF TypeOK, vars, clockVars, countVars, sessionVars, putVars, localVars,
        Without, Busy, Idle, FreshClock, OnePut
<1>1. CASE PrepareInit
    BY <1>1 DEF PrepareInit, VEncoder_init
<1>2. CASE PrepareState
    BY <1>2 DEF PrepareState
<1>3. CASE VEncoder_config
    BY <1>3 DEF VEncoder_config
<1>4. CASE PrepareRefused
    BY <1>4 DEF PrepareRefused, VEncoder_init
<1>5. CASE Stop
    BY <1>5 DEF Stop
<1>6. ASSUME NEW p \in Putters, PutTest(p) PROVE OnePut'
    <2> SUFFICES ASSUME Without({"between", "overlap"})'
                 PROVE  OnePut'
        BY DEF OnePut
    <2> USE <1>6 DEF PutTest, countVars, clockVars, localVars, sessionVars
    <2>1. \A q \in Putters : putPc[q] = "idle"
        OBVIOUS
    <2>2. \A q \in Putters : q # p => putPc'[q] = "idle"
        BY <2>1
    <2>3. Without({"between", "overlap"})
        OBVIOUS
    <2>4. putPc'[p] \in {"first", "next"}
        OBVIOUS
    <2>5. putPc'[p] = "first" => lastTime = -1
        OBVIOUS
    <2>6. stamped > 0 /\ Without({"refused"}) => lastTime >= 0
        BY <2>1, <2>3
    <2>7. Without({"refused"})' => Without({"refused"})
        OBVIOUS
    <2> QED BY <2>2, <2>3, <2>4, <2>5, <2>6, <2>7
<1>7. ASSUME NEW p \in Putters, PutFirst(p) PROVE OnePut'
    BY <1>7 DEF PutFirst
<1>8. ASSUME NEW p \in Putters, PutNext(p) PROVE OnePut'
    BY <1>8 DEF PutNext
<1>9. ASSUME NEW p \in Putters, PutSetPts(p) PROVE OnePut'
    BY <1>9 DEF PutSetPts
<1>10. ASSUME NEW p \in Putters, PutSetTime(p) PROVE OnePut'
    <2> SUFFICES ASSUME Without({"between", "overlap"})'
                 PROVE  OnePut'
        BY DEF OnePut
    <2> USE <1>10 DEF PutSetTime, sessionVars
    <2>1. Without({"between", "overlap"}) /\ UNCHANGED <<stamped, quirks>>
        OBVIOUS
    <2>2. lastTime' >= 0
        OBVIOUS
    <2>3. /\ putPc'[p] = "queue"
          /\ \A q \in Putters : q # p => putPc'[q] = putPc[q]
        OBVIOUS
    <2>4. putPc[p] = "time"
        OBVIOUS
    <2> HIDE DEF PutSetTime
    <2> QED BY <2>1, <2>2, <2>3, <2>4
<1>11. ASSUME NEW p \in Putters, PutQueue(p) PROVE OnePut'
    BY <1>11 DEF PutQueue, PutReturn
<1>12. ASSUME NEW p \in Putters, PutQueueFails(p) PROVE OnePut'
    BY <1>12 DEF PutQueueFails, PutReturn
<1>13. CASE Advance
    BY <1>13 DEF Advance
<1>14. CASE SetBack
    BY <1>14 DEF SetBack
<1>15. CASE UNCHANGED vars
    BY <1>15
<1> QED BY <1>1, <1>2, <1>3, <1>4, <1>5, <1>6, <1>7, <1>8, <1>9,
           <1>10, <1>11, <1>12, <1>13, <1>14, <1>15
        DEF Next, PutStep

\* Racing putters at a constant rate.
LEMMA NotTooLateStep ==
    ASSUME TypeOK, FreshClock, RateKept, LocalsDead, NotTooLate, [Next]_vars
    PROVE  NotTooLate'
<1> USE Constants
    DEF TypeOK, vars, clockVars, countVars, sessionVars, putVars, localVars,
        Without, Busy, Idle, FreshClock, RateKept, LocalsDead, NotTooLate
<1>1. CASE PrepareInit
    BY <1>1 DEF PrepareInit, VEncoder_init
<1>2. CASE PrepareState
    BY <1>2 DEF PrepareState
<1>3. CASE VEncoder_config
    BY <1>3 DEF VEncoder_config
<1>4. CASE PrepareRefused
    BY <1>4 DEF PrepareRefused, VEncoder_init
<1>5. CASE Stop
    BY <1>5 DEF Stop
<1>6. ASSUME NEW p \in Putters, PutTest(p) PROVE NotTooLate'
    BY <1>6 DEF PutTest
<1>7. ASSUME NEW p \in Putters, PutFirst(p) PROVE NotTooLate'
    BY <1>7 DEF PutFirst
<1>8. ASSUME NEW p \in Putters, PutNext(p) PROVE NotTooLate'
    <2> SUFFICES ASSUME wanted', Without({"between", "refused"})'
                 PROVE  NotTooLate'
        BY DEF NotTooLate
    <2> USE <1>8 DEF PutNext, sessionVars
    <2>1. Without({"between", "refused"}) /\ wanted
        OBVIOUS
    <2>10. ~Idle /\ putPc[p] = "next"
        OBVIOUS
    <2>11. stamped # 0 /\ phase \notin {"init", "preparing"}
        BY <2>1, <2>10 DEF FreshClock
    <2>2. stamped >= 1 /\ phase \in {"open", "stopped"}
        BY <2>11
    <2>3. cfr
        BY <2>1, <2>2
    <2>4. stamp' = [stamp EXCEPT ![p] = curPts + Interval]
        BY <2>3
    <2>5. /\ stamped' = stamped + 1
          /\ (stamped' - 1) * Interval = (stamped - 1) * Interval + Interval
          /\ (stamped - 1) * Interval \in Int
        BY <2>2
    <2>6. /\ curPts' = curPts /\ curPts <= (stamped - 1) * Interval
          /\ \A q \in Putters : stamp[q] <= (stamped - 1) * Interval
        BY <2>1, <2>2 DEF clockVars
    <2> HIDE DEF PutNext
    <2> QED BY <2>4, <2>5, <2>6
<1>9. ASSUME NEW p \in Putters, PutSetPts(p) PROVE NotTooLate'
    BY <1>9 DEF PutSetPts
<1>10. ASSUME NEW p \in Putters, PutSetTime(p) PROVE NotTooLate'
    BY <1>10 DEF PutSetTime
<1>11. ASSUME NEW p \in Putters, PutQueue(p) PROVE NotTooLate'
    BY <1>11 DEF PutQueue, PutReturn
<1>12. ASSUME NEW p \in Putters, PutQueueFails(p) PROVE NotTooLate'
    <2> SUFFICES ASSUME wanted', Without({"between", "refused"})', stamped' > 0
                 PROVE  /\ curPts' <= (stamped' - 1) * Interval
                        /\ \A q \in Putters : stamp'[q] <= (stamped' - 1) * Interval
        BY DEF NotTooLate
    <2>1. /\ UNCHANGED <<wanted, stamped, quirks, curPts>>
          /\ stamp' = [stamp EXCEPT ![p] = 0]
        BY <1>12 DEF PutQueueFails, PutReturn, clockVars, sessionVars, countVars
    <2>2. /\ curPts <= (stamped - 1) * Interval
          /\ \A q \in Putters : stamp[q] <= (stamped - 1) * Interval
        BY <2>1
    <2>3. (stamped - 1) * Interval >= 0 /\ stamped' = stamped
        BY <2>1
    <2> QED BY <2>1, <2>2, <2>3
<1>13. CASE Advance
    BY <1>13 DEF Advance
<1>14. CASE SetBack
    BY <1>14 DEF SetBack
<1>15. CASE UNCHANGED vars
    BY <1>15
<1> QED BY <1>1, <1>2, <1>3, <1>4, <1>5, <1>6, <1>7, <1>8, <1>9,
           <1>10, <1>11, <1>12, <1>13, <1>14, <1>15
        DEF Next, PutStep

\* One putter at a constant rate.
LEMMA SteadyStep ==
    ASSUME TypeOK, FreshClock, RateKept, OnePut, Steady, [Next]_vars
    PROVE  Steady'
<1> USE Constants
    DEF TypeOK, vars, clockVars, countVars, sessionVars, putVars, localVars,
        Without, Busy, Idle, FreshClock, RateKept, OnePut, Steady
<1>1. CASE PrepareInit
    BY <1>1 DEF PrepareInit, VEncoder_init
<1>2. CASE PrepareState
    BY <1>2 DEF PrepareState
<1>3. CASE VEncoder_config
    BY <1>3 DEF VEncoder_config
<1>4. CASE PrepareRefused
    BY <1>4 DEF PrepareRefused, VEncoder_init
<1>5. CASE Stop
    BY <1>5 DEF Stop
<1>6. ASSUME NEW p \in Putters, PutTest(p) PROVE Steady'
    BY <1>6 DEF PutTest
<1>7. ASSUME NEW p \in Putters, PutFirst(p) PROVE Steady'
    <2> SUFFICES ASSUME wanted', Without({"between", "refused", "overlap"})'
                 PROVE  Steady'
        BY DEF Steady
    <2> USE <1>7 DEF PutFirst, sessionVars
    <2>1. Without({"between", "refused", "overlap"})
        OBVIOUS
    <2>2. stamped = 0
        BY <2>1
    <2>3. (stamped' - 1) * Interval = 0 /\ curPts' = 0
        BY <2>2
    <2>4. ~Idle
        OBVIOUS
    <2>5. \A q \in Putters : putPc[q] \in {"idle", "first"}
        BY <2>1, <2>2, <2>4
    <2>6. \A q \in Putters : putPc'[q] # "pts"
        BY <2>5
    <2> QED BY <2>3, <2>6
<1>8. ASSUME NEW p \in Putters, PutNext(p) PROVE Steady'
    <2> SUFFICES ASSUME wanted', Without({"between", "refused", "overlap"})'
                 PROVE  Steady'
        BY DEF Steady
    <2> USE <1>8 DEF PutNext, sessionVars
    <2>1. Without({"between", "refused"}) /\ wanted
        OBVIOUS
    <2>10. ~Idle /\ putPc[p] = "next"
        OBVIOUS
    <2>11. stamped # 0 /\ phase \notin {"init", "preparing"}
        BY <2>1, <2>10 DEF FreshClock
    <2>2. stamped >= 1 /\ phase \in {"open", "stopped"}
        BY <2>11
    <2>3. cfr
        BY <2>1, <2>2
    <2>4. stamp' = [stamp EXCEPT ![p] = curPts + Interval]
        BY <2>3
    <2>5. /\ stamped' = stamped + 1
          /\ (stamped' - 1) * Interval = (stamped - 1) * Interval + Interval
          /\ (stamped - 1) * Interval \in Int
        BY <2>2
    <2>6. \A q \in Putters : q # p => putPc[q] = "idle"
        OBVIOUS
    <2>12. \A q \in Putters : putPc[q] # "pts"
        BY <2>6, <2>10
    <2>13. stamped > 0 /\ Without({"between", "refused", "overlap"})
        BY <2>2
    <2>7. curPts = (stamped - 1) * Interval
        BY <2>1, <2>12, <2>13 DEF Steady
    <2>8. /\ putPc'[p] = "pts"
          /\ \A q \in Putters : q # p => putPc'[q] = "idle"
        BY <2>6
    <2>9. stamp'[p] = (stamped' - 1) * Interval
        BY <2>4, <2>5, <2>7
    <2> HIDE DEF PutNext
    <2> QED BY <2>8, <2>9
<1>9. ASSUME NEW p \in Putters, PutSetPts(p) PROVE Steady'
    BY <1>9 DEF PutSetPts
<1>10. ASSUME NEW p \in Putters, PutSetTime(p) PROVE Steady'
    BY <1>10 DEF PutSetTime
<1>11. ASSUME NEW p \in Putters, PutQueue(p) PROVE Steady'
    BY <1>11 DEF PutQueue, PutReturn
<1>12. ASSUME NEW p \in Putters, PutQueueFails(p) PROVE Steady'
    BY <1>12 DEF PutQueueFails, PutReturn
<1>13. CASE Advance
    BY <1>13 DEF Advance
<1>14. CASE SetBack
    BY <1>14 DEF SetBack
<1>15. CASE UNCHANGED vars
    BY <1>15
<1> QED BY <1>1, <1>2, <1>3, <1>4, <1>5, <1>6, <1>7, <1>8, <1>9,
           <1>10, <1>11, <1>12, <1>13, <1>14, <1>15
        DEF Next, PutStep

\* Stamps go up.
LEMMA ClimbingStep ==
    ASSUME TypeOK, FreshClock, OnePut, Climbing, [Next]_vars
    PROVE  Climbing'
<1> USE Constants
    DEF TypeOK, vars, clockVars, countVars, sessionVars, putVars, localVars,
        Without, Busy, Idle, FreshClock, OnePut, Climbing
<1>1. CASE PrepareInit
    <2> USE <1>1 DEF PrepareInit, VEncoder_init, putVars, localVars
    <2> SUFFICES ASSUME quirks' = {} PROVE Climbing'
        BY DEF Climbing
    <2>1. frames' = <<>> /\ \A q \in Putters : putPc'[q] = "idle"
        OBVIOUS
    <2>2. lastTime' <= time' /\ stamped' = 0
        OBVIOUS
    <2> QED BY <2>1, <2>2
<1>2. CASE PrepareState
    BY <1>2 DEF PrepareState
<1>3. CASE VEncoder_config
    BY <1>3 DEF VEncoder_config
<1>4. CASE PrepareRefused
    BY <1>4 DEF PrepareRefused, VEncoder_init
<1>5. CASE Stop
    BY <1>5 DEF Stop
<1>6. ASSUME NEW p \in Putters, PutTest(p) PROVE Climbing'
    BY <1>6 DEF PutTest
<1>7. ASSUME NEW p \in Putters, PutFirst(p) PROVE Climbing'
    BY <1>7 DEF PutFirst
<1>8. ASSUME NEW p \in Putters, PutNext(p) PROVE Climbing'
    <2> SUFFICES ASSUME quirks' = {} PROVE Climbing'
        BY DEF Climbing
    <2> USE <1>8 DEF PutNext, clockVars, sessionVars
    <2>1. quirks = {} /\ Without({"between", "overlap"})
        OBVIOUS
    <2>2. stamped > 0 /\ \A q \in Putters : q # p => putPc[q] = "idle"
        BY <2>1
    <2>3. Elapsed \subseteq Nat
        BY <2>1, ElapsedRounds
    <2>4. stamp'[p] >= curPts
        BY <2>3, Constants
    <2>5. /\ putPc'[p] = "pts"
          /\ \A q \in Putters : q # p => putPc'[q] = "idle"
        BY <2>2
    <2>6. UNCHANGED <<curPts, lastTime, time, frames>>
        OBVIOUS
    <2>7. /\ lastTime <= time /\ curPts >= 0
          /\ \A i \in DOMAIN frames : frames[i] <= curPts
        BY <2>1, <2>2
    <2> HIDE DEF PutNext
    <2> QED BY <2>4, <2>5, <2>6, <2>7
<1>9. ASSUME NEW p \in Putters, PutSetPts(p) PROVE Climbing'
    BY <1>9 DEF PutSetPts
<1>10. ASSUME NEW p \in Putters, PutSetTime(p) PROVE Climbing'
    BY <1>10 DEF PutSetTime
<1>11. ASSUME NEW p \in Putters, PutQueue(p) PROVE Climbing'
    BY <1>11 DEF PutQueue, PutReturn
<1>12. ASSUME NEW p \in Putters, PutQueueFails(p) PROVE Climbing'
    BY <1>12 DEF PutQueueFails, PutReturn
<1>13. CASE Advance
    BY <1>13 DEF Advance
<1>14. CASE SetBack
    BY <1>14 DEF SetBack
<1>15. CASE UNCHANGED vars
    BY <1>15
<1> QED BY <1>1, <1>2, <1>3, <1>4, <1>5, <1>6, <1>7, <1>8, <1>9,
           <1>10, <1>11, <1>12, <1>13, <1>14, <1>15
        DEF Next, PutStep

\* The queue is in order.
LEMMA ForwardStep ==
    ASSUME TypeOK, FreshClock, Climbing, Forward, [Next]_vars
    PROVE  Forward'
<1> USE Constants
    DEF TypeOK, vars, clockVars, countVars, sessionVars, putVars, localVars,
        Without, Busy, Idle, FreshClock, Climbing, Forward
<1>1. CASE PrepareInit
    <2> USE <1>1 DEF PrepareInit
    <2> SUFFICES ASSUME quirks' = {} PROVE Forward'
        BY DEF Forward
    <2>1. frames' = <<>>
        OBVIOUS
    <2> QED BY <2>1
<1>2. CASE PrepareState
    BY <1>2 DEF PrepareState
<1>3. CASE VEncoder_config
    BY <1>3 DEF VEncoder_config
<1>4. CASE PrepareRefused
    BY <1>4 DEF PrepareRefused, VEncoder_init
<1>5. CASE Stop
    BY <1>5 DEF Stop
<1>6. ASSUME NEW p \in Putters, PutTest(p) PROVE Forward'
    BY <1>6 DEF PutTest
<1>7. ASSUME NEW p \in Putters, PutFirst(p) PROVE Forward'
    BY <1>7 DEF PutFirst
<1>8. ASSUME NEW p \in Putters, PutNext(p) PROVE Forward'
    BY <1>8 DEF PutNext
<1>9. ASSUME NEW p \in Putters, PutSetPts(p) PROVE Forward'
    BY <1>9 DEF PutSetPts
<1>10. ASSUME NEW p \in Putters, PutSetTime(p) PROVE Forward'
    BY <1>10 DEF PutSetTime
<1>11. ASSUME NEW p \in Putters, PutQueue(p) PROVE Forward'
    BY <1>11 DEF PutQueue, PutReturn
<1>12. ASSUME NEW p \in Putters, PutQueueFails(p) PROVE Forward'
    BY <1>12 DEF PutQueueFails, PutReturn
<1>13. CASE Advance
    BY <1>13 DEF Advance
<1>14. CASE SetBack
    BY <1>14 DEF SetBack
<1>15. CASE UNCHANGED vars
    BY <1>15
<1> QED BY <1>1, <1>2, <1>3, <1>4, <1>5, <1>6, <1>7, <1>8, <1>9,
           <1>10, <1>11, <1>12, <1>13, <1>14, <1>15
        DEF Next, PutStep

\* One putter in real time.
LEMMA TimelyStep ==
    ASSUME TypeOK, FreshClock, RateKept, OnePut, Climbing, Timely, [Next]_vars
    PROVE  Timely'
<1> USE Constants
    DEF TypeOK, vars, clockVars, countVars, sessionVars, putVars, localVars,
        Without, Busy, Idle, FreshClock, RateKept, OnePut, Climbing, Timely
<1>1. CASE PrepareInit
    BY <1>1 DEF PrepareInit, VEncoder_init
<1>2. CASE PrepareState
    BY <1>2 DEF PrepareState
<1>3. CASE VEncoder_config
    BY <1>3 DEF VEncoder_config
<1>4. CASE PrepareRefused
    BY <1>4 DEF PrepareRefused, VEncoder_init
<1>5. CASE Stop
    BY <1>5 DEF Stop
<1>6. ASSUME NEW p \in Putters, PutTest(p) PROVE Timely'
    BY <1>6 DEF PutTest
<1>7. ASSUME NEW p \in Putters, PutFirst(p) PROVE Timely'
    <2> SUFFICES ASSUME ~wanted', quirks' = {} PROVE Timely'
        BY DEF Timely
    <2> USE <1>7 DEF PutFirst, sessionVars
    <2>1. quirks = {} /\ stamped = 0 /\ ~Idle
        OBVIOUS
    <2>2. \A q \in Putters : q # p => putPc[q] = "idle"
        BY <2>1
    <2>3. putPc'[p] = "time" /\ \A q \in Putters : q # p => putPc'[q] = "idle"
        BY <2>2
    <2>4. curPts' = 0 /\ read'[p] - offset' = 0 /\ stamped' = 1
        BY <2>1
    <2>5. InTime(curPts', read'[p] - offset', stamped')
        BY <2>4, InTimeAtFirst
    <2> HIDE DEF PutFirst
    <2> QED BY <2>3, <2>5
<1>8. ASSUME NEW p \in Putters, PutNext(p) PROVE Timely'
    <2> SUFFICES ASSUME ~wanted', quirks' = {} PROVE Timely'
        BY DEF Timely
    <2> USE <1>8 DEF PutNext, clockVars, sessionVars
    <2>1. ~wanted /\ quirks = {} /\ Without({"between", "refused", "overlap"})
        OBVIOUS
    <2>2. stamped >= 1 /\ phase \in {"open", "stopped"}
        BY <2>1
    <2>3. ~cfr
        BY <2>1, <2>2
    <2>4. \A q \in Putters : q # p => putPc[q] = "idle"
        BY <2>1
    <2>5. /\ putPc'[p] = "pts"
          /\ \A q \in Putters : q # p => putPc'[q] = "idle"
        BY <2>4
    <2>6. \A q \in Putters : putPc[q] \notin {"pts", "time"}
        BY <2>4
    <2>7. InTime(curPts, lastTime - offset, stamped)
        BY <2>1, <2>2, <2>6 DEF Timely
    <2>8. PICK units \in Elapsed : stamp' = [stamp EXCEPT ![p] = curPts + units]
        BY <2>3
    <2>9. /\ stamp'[p] = curPts + units /\ read'[p] = time
          /\ stamped' = stamped + 1 /\ offset' = offset
        BY <2>8
    <2>10. lastTime <= time
        BY <2>1
    <2> HIDE DEF PutNext
    <2>11. InTime(curPts + units, time - offset, stamped + 1)
        BY <2>2, <2>7, <2>10, InTimeAtNext
    <2>12. InTime(stamp'[p], read'[p] - offset', stamped')
        BY <2>9, <2>11
    <2> QED BY <2>5, <2>12
<1>9. ASSUME NEW p \in Putters, PutSetPts(p) PROVE Timely'
    BY <1>9 DEF PutSetPts
<1>10. ASSUME NEW p \in Putters, PutSetTime(p) PROVE Timely'
    <2> SUFFICES ASSUME ~wanted', quirks' = {}, stamped' > 0 PROVE Timely'
        BY DEF Timely
    <2> USE <1>10 DEF PutSetTime, sessionVars
    <2>1. ~wanted /\ quirks = {} /\ Without({"between", "overlap"}) /\ stamped > 0
        OBVIOUS
    <2>2. InTime(curPts, read[p] - offset, stamped)
        BY <2>1
    <2>3. \A q \in Putters : putPc'[q] \notin {"pts", "time"}
        BY <2>1
    <2>4. lastTime' - offset' = read[p] - offset
        OBVIOUS
    <2>5. stamped' = stamped /\ curPts' = curPts
        OBVIOUS
    <2> HIDE DEF PutSetTime
    <2>6. InTime(curPts', lastTime' - offset', stamped')
        BY <2>2, <2>4, <2>5
    <2> QED BY <2>3, <2>6
<1>11. ASSUME NEW p \in Putters, PutQueue(p) PROVE Timely'
    BY <1>11 DEF PutQueue, PutReturn
<1>12. ASSUME NEW p \in Putters, PutQueueFails(p) PROVE Timely'
    BY <1>12 DEF PutQueueFails, PutReturn
<1>13. CASE Advance
    BY <1>13 DEF Advance
<1>14. CASE SetBack
    BY <1>14 DEF SetBack
<1>15. CASE UNCHANGED vars
    BY <1>15
<1> QED BY <1>1, <1>2, <1>3, <1>4, <1>5, <1>6, <1>7, <1>8, <1>9,
           <1>10, <1>11, <1>12, <1>13, <1>14, <1>15
        DEF Next, PutStep

-----------------------------------------------------------------------------
LEMMA ClockInit == Init => ClockInv
<1> SUFFICES ASSUME Init PROVE ClockInv
    OBVIOUS
<1> USE Constants DEF Init
<1>1. Idle /\ \A p \in Putters : putPc[p] = "idle" /\ stamp[p] = 0
    BY DEF Idle, Busy
<1>2. FreshClock /\ LocalsDead
    BY <1>1 DEF FreshClock, LocalsDead
<1>3. OnePut
    BY <1>1 DEF OnePut, Busy
<1>4. RateKept
    BY Zenon DEF RateKept
<1>5. NotTooLate /\ Steady /\ Timely
    BY DEF NotTooLate, Steady, Timely
<1>6. Climbing /\ Forward
    BY <1>1 DEF Climbing, Forward
<1> QED BY <1>2, <1>3, <1>4, <1>5, <1>6 DEF ClockInv

LEMMA ClockStep == TypeOK /\ ClockInv /\ [Next]_vars => ClockInv'
    BY FreshStep, RateStep, LocalsStep, OnePutStep, NotTooLateStep, SteadyStep,
       TimelyStep, ClimbingStep, ForwardStep DEF ClockInv

\* The fields and the locals have the types of the code.
THEOREM ClockTypeCorrect == Spec => []TypeOK
<1>1. TypeOK /\ [Next]_vars => TypeOK'
    BY TypeStep
<1> QED BY TypeInit, <1>1, PTL DEF Spec

\* The inductive invariant.
THEOREM ClockInvariant == Spec => []ClockInv
<1> QED BY ClockTypeCorrect, ClockInit, ClockStep, PTL DEF Spec

\* One putter that nothing disturbs gives stamps that never go back.
THEOREM FilmGoesForward == Spec => []Forward
<1>1. ClockInv => Forward
    BY DEF ClockInv
<1> QED BY <1>1, ClockInvariant, PTL

\* A constant frame rate is constant, and is fps, whatever the clock does.
THEOREM RateIsConstant == Spec => []ConstantRate
<1>1. TypeOK /\ ClockInv => ConstantRate
    <2> SUFFICES ASSUME TypeOK, Steady, wanted, Idle, stamped > 0,
                        Without({"between", "refused", "overlap"})
                 PROVE  curPts * Fps = (stamped - 1) * Den
        BY DEF ClockInv, ConstantRate
    <2>1. curPts = (stamped - 1) * Interval
        BY DEF Steady, Idle, Busy
    <2>2. /\ stamped - 1 \in Nat /\ Interval \in Nat /\ Fps \in Nat
          /\ Interval * Fps = Den
        BY Constants DEF TypeOK
    <2>3. ((stamped - 1) * Interval) * Fps = (stamped - 1) * (Interval * Fps)
        BY <2>2
    <2> QED BY <2>1, <2>2, <2>3
<1> QED BY <1>1, ClockTypeCorrect, ClockInvariant, PTL

\* However many putters race, no stamp of a constant rate is too late.
THEOREM NeverTooLate == Spec => []NotTooLate
<1>1. ClockInv => NotTooLate
    BY DEF ClockInv
<1> QED BY <1>1, ClockInvariant, PTL

\* A variable frame rate keeps to real time, as far as the float division of the
\* elapsed time does: ahead by at most one part in Precision of what has passed,
\* behind by at most that and less than a unit per frame.
THEOREM KeepsRealTime == Spec => []RealTime
<1>1. ClockInv => RealTime
    BY DEF ClockInv, RealTime, Timely, Idle, Busy
<1> QED BY <1>1, ClockInvariant, PTL
-----------------------------------------------------------------------------
(***************************************************************************)
(* Pictures.  A buffer is looked at by rows and columns: At hides the      *)
(* products of which the indices are made, and each transformation is a    *)
(* lemma on At.                                                            *)
(***************************************************************************)

\* SMT multiplies two variables only in small obligations.
LEMMA Product ==
    ASSUME NEW a \in Nat, NEW b \in Nat, NEW w \in Nat, a <= b
    PROVE  a * w \in Nat /\ b * w \in Nat /\ a * w <= b * w
    OBVIOUS

\* Row i and column j of a picture with h rows of w pixels.
LEMMA Places ==
    ASSUME NEW w \in Nat, NEW h \in Nat, NEW i \in 0 .. h - 1, NEW j \in 0 .. w - 1
    PROVE  /\ i * w + j \in 0 .. w * h - 1
           /\ (i * w + j) \div w = i /\ (i * w + j) % w = j
<1>1. i \in Nat /\ j \in Nat /\ j < w /\ i + 1 <= h
    OBVIOUS
<1>2. (i + 1) * w <= h * w /\ i * w \in Nat
    BY <1>1, Product
<1>3. (i + 1) * w = i * w + w /\ h * w = w * h
    BY <1>1
<1>4. (i * w + j) \div w = i /\ (i * w + j) % w = j
    BY <1>1
<1> QED BY <1>1, <1>2, <1>3, <1>4

\* The pixel in row i and column j of a buffer with rows of w pixels.
At(buffer, w, i, j) == buffer[i * w + j]

\* The copy that put makes, and the same after the turn.
Copy(p) == CopyRows(Input(p), p.w, p.h, p.padding)
Turned(p) == ARGBRotate(Copy(p), p.w, p.h, p.degree)

LEMMA Copied ==
    ASSUME NEW p \in Picture, NEW i \in 0 .. p.h - 1, NEW j \in 0 .. p.w - 1
    PROVE  At(Copy(p), p.w, i, j) = i * (p.w + p.padding) + j
<1>1. p.w \in Nat /\ p.h \in Nat /\ p.padding \in Nat /\ p.w + p.padding \in Nat
    BY DEF Picture
<1>2. j \in 0 .. (p.w + p.padding) - 1
    BY <1>1
<1>3. i * (p.w + p.padding) + j \in 0 .. (p.w + p.padding) * p.h - 1
    BY <1>1, <1>2, Places
<1>4. Input(p)[i * (p.w + p.padding) + j] = i * (p.w + p.padding) + j
    BY <1>3 DEF Input
<1>5. /\ i * p.w + j \in 0 .. p.w * p.h - 1
      /\ (i * p.w + j) \div p.w = i /\ (i * p.w + j) % p.w = j
    BY <1>1, Places
<1> QED BY <1>4, <1>5 DEF Copy, CopyRows, Buffer, At

\* The flips.
LEMMA FlippedVertically ==
    ASSUME NEW f, NEW w \in Nat, NEW h \in Nat, NEW i \in 0 .. h - 1, NEW j \in 0 .. w - 1
    PROVE  At(RgbaFlipVertical(f, w, h), w, i, j) = At(f, w, h - 1 - i, j)
    BY Places DEF RgbaFlipVertical, Buffer, At

LEMMA FlippedHorizontally ==
    ASSUME NEW f, NEW w \in Nat, NEW h \in Nat, NEW i \in 0 .. h - 1, NEW j \in 0 .. w - 1
    PROVE  At(RgbaFlipHoriz(f, w, h), w, i, j) = At(f, w, i, w - 1 - j)
    BY Places DEF RgbaFlipHoriz, Buffer, At

\* A half turn keeps the lengths of the rows; ...
LEMMA HalfTurned ==
    ASSUME NEW f, NEW w \in Nat, NEW h \in Nat, NEW i \in 0 .. h - 1, NEW j \in 0 .. w - 1
    PROVE  At(ARGBRotate(f, w, h, 180), w, i, j) = At(f, w, h - 1 - i, w - 1 - j)
<1>1. /\ i * w + j \in 0 .. w * h - 1
      /\ (i * w + j) \div w = i /\ (i * w + j) % w = j
    BY Places
<1>2. ARGBRotate(f, w, h, 180) = [k \in 0 .. w * h - 1 |->
                                   f[(h - 1 - (k \div w)) * w + (w - 1 - (k % w))]]
    BY DEF ARGBRotate, Buffer
<1> QED BY <1>1, <1>2 DEF At

\* ... a quarter of one makes rows of the columns.
LEMMA QuarterTurned ==
    ASSUME NEW f, NEW w \in Nat, NEW h \in Nat, NEW i \in 0 .. w - 1, NEW j \in 0 .. h - 1
    PROVE  /\ At(ARGBRotate(f, w, h, 90), h, i, j) = At(f, w, h - 1 - j, i)
           /\ At(ARGBRotate(f, w, h, 270), h, i, j) = At(f, w, j, w - 1 - i)
<1>1. /\ i * h + j \in 0 .. h * w - 1
      /\ (i * h + j) \div h = i /\ (i * h + j) % h = j
    BY Places
<1>2. /\ ARGBRotate(f, w, h, 90) = [k \in 0 .. h * w - 1 |->
                                      f[(h - 1 - (k % h)) * w + (k \div h)]]
      /\ ARGBRotate(f, w, h, 270) = [k \in 0 .. h * w - 1 |->
                                       f[(k % h) * w + (w - 1 - (k \div h))]]
    BY DEF ARGBRotate, Buffer
<1> QED BY <1>1, <1>2 DEF At

LEMMA TurnedRight ==
    ASSUME NEW p \in Picture, Upright(p), NEW i \in 0 .. p.h - 1, NEW j \in 0 .. p.w - 1
    PROVE  At(Turned(p), p.w, i, j) =
             CASE p.degree = 0   -> At(Copy(p), p.w, i, j)
               [] p.degree = 90  -> At(Copy(p), p.w, p.h - 1 - j, i)
               [] p.degree = 180 -> At(Copy(p), p.w, p.h - 1 - i, p.w - 1 - j)
               [] p.degree = 270 -> At(Copy(p), p.w, j, p.w - 1 - i)
<1>1. p.w \in Nat /\ p.h \in Nat /\ p.degree \in {0, 90, 180, 270}
    BY DEF Picture, Degrees
<1>2. CASE p.degree = 0
    BY <1>2 DEF Turned, ARGBRotate
<1>3. CASE p.degree = 180
    BY <1>1, <1>3, HalfTurned DEF Turned
<1>4. CASE p.degree \in {90, 270}
    BY <1>1, <1>4, QuarterTurned DEF Turned, Upright
<1> QED BY <1>1, <1>2, <1>3, <1>4

\* A flip that comes after is undone first: Origin.
LEMMA EveryPictureRight == AllRight
<1> SUFFICES ASSUME NEW p \in Pictures, Upright(p), NEW i \in 0 .. p.h - 1,
                    NEW j \in 0 .. p.w - 1
             PROVE  At(Shown(p), p.w, i, j) =
                       Origin(p, i, j)[1] * (p.w + p.padding) + Origin(p, i, j)[2]
    BY DEF AllRight, At
<1>1. /\ p \in Picture /\ p.w \in Nat /\ p.h \in Nat /\ p.degree \in {0, 90, 180, 270}
      /\ p.horizontal \in BOOLEAN /\ p.vertical \in BOOLEAN
    BY PicturesAssumption DEF Picture, Degrees
<1> DEFINE y == IF p.vertical THEN p.h - 1 - i ELSE i
           x == IF p.horizontal THEN p.w - 1 - j ELSE j
<1>2. y \in 0 .. p.h - 1 /\ x \in 0 .. p.w - 1
    BY <1>1
<1>3. At(Shown(p), p.w, i, j) = At(Turned(p), p.w, y, x)
    <2>1. Shown(p) = RgbaProcess(Copy(p), p.w, p.h, p.degree, p.horizontal, p.vertical)
        BY DEF Shown, Copy
    <2>2. CASE p.horizontal /\ p.vertical
        <3>1. Shown(p) = RgbaFlipVertical(RgbaFlipHoriz(Turned(p), p.w, p.h), p.w, p.h)
            BY <2>1, <2>2 DEF RgbaProcess, Turned
        <3> QED BY <1>1, <1>2, <2>2, <3>1, FlippedVertically, FlippedHorizontally
    <2>3. CASE p.horizontal /\ ~p.vertical
        <3>1. Shown(p) = RgbaFlipHoriz(Turned(p), p.w, p.h)
            BY <2>1, <2>3 DEF RgbaProcess, Turned
        <3> QED BY <1>1, <1>2, <2>3, <3>1, FlippedHorizontally
    <2>4. CASE ~p.horizontal /\ p.vertical
        <3>1. Shown(p) = RgbaFlipVertical(Turned(p), p.w, p.h)
            BY <2>1, <2>4 DEF RgbaProcess, Turned
        <3> QED BY <1>1, <1>2, <2>4, <3>1, FlippedVertically
    <2>5. CASE ~p.horizontal /\ ~p.vertical
        BY <2>1, <2>5 DEF RgbaProcess, Turned
    <2> QED BY <2>2, <2>3, <2>4, <2>5
<1>4. p.degree \in {90, 270} => p.w = p.h
    BY DEF Upright
<1>5. Origin(p, i, j) = CASE p.degree = 0   -> <<y, x>>
                          [] p.degree = 90  -> <<p.h - 1 - x, y>>
                          [] p.degree = 180 -> <<p.h - 1 - y, p.w - 1 - x>>
                          [] p.degree = 270 -> <<x, p.w - 1 - y>>
    BY <1>1, <1>4 DEF Origin
<1> HIDE DEF y, x
<1>6. At(Turned(p), p.w, y, x) = At(Copy(p), p.w, Origin(p, i, j)[1], Origin(p, i, j)[2])
    BY <1>1, <1>2, <1>5, TurnedRight
<1>7. Origin(p, i, j)[1] \in 0 .. p.h - 1 /\ Origin(p, i, j)[2] \in 0 .. p.w - 1
    BY <1>1, <1>2, <1>4, <1>5
<1> QED BY <1>1, <1>3, <1>6, <1>7, Copied

\* Every picture is turned and mirrored as it was asked for, of any size and
\* with any padding, if the codec gets rows of the width that it expects:
\* PictureRight.
THEOREM PicturesComeOutRight == Spec => []PictureRight
<1>1. PictureRight
    BY EveryPictureRight DEF PictureRight
<1> QED BY <1>1, PTL
=============================================================================
